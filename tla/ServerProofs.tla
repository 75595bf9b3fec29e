---------------------------- MODULE ServerProofs ----------------------------
(***************************************************************************)
(* Proofs about Server and the connections it starts: the inductive          *)
(* invariant and the safety properties that follow from it, for every set of *)
(* clients, every sequence of requests they may send and every capacity of   *)
(* the channel to the connection manager.                                    *)
(***************************************************************************)
EXTENDS Server, SequenceTheorems, FiniteSetTheorems, TLAPS

(* The parts of a request.                                                   *)
LEMMA RequestType ==
    ASSUME NEW r \in TcpRequests
    PROVE  /\ r.head \in HeaderBlocks /\ r.payload \in PayloadBlocks
           /\ r = [head |-> r.head, payload |-> r.payload]
           /\ r.head.len \in Nat /\ r.head.magic \in BOOLEAN
           /\ r.head.version \in Nat /\ r.head.type \in TypeBytes
           /\ r.payload.len \in Nat /\ r.payload.klen \in Nat /\ r.payload.vlen \in Nat
           /\ r.payload.key_utf8 \in BOOLEAN /\ r.payload.value_utf8 \in BOOLEAN
           /\ r.head.type \in {"Delete", "Get"} => r.payload.vlen = 0 /\ r.payload.value_utf8
           /\ (r.payload.klen = MAGIC_NUMBER) = FALSE
BY DEF TcpRequests, HeaderBlocks, PayloadBlocks

(* The outcomes of parse_headers, and when it accepts.                       *)
LEMMA HeadersParsed ==
    ASSUME NEW h \in HeaderBlocks
    PROVE  /\ parse_headers(h) \in {"ok", "panic", "WrongMagicBytes", "UnsupportedVersion",
                                    "InvalidRequestType"}
           /\ parse_headers(h) = "ok" <=>
                 h.len >= 24 /\ h.magic /\ h.version = 0 /\ h.type \in RequestTypes
BY DEF HeaderBlocks, parse_headers, MagicLen, PROTOCOL_VERSION

(* Bytes of a payload read as headers are not accepted, nor answered, unless *)
(* they begin with the magic bytes.                                          *)
LEMMA PayloadIsNoHeader ==
    ASSUME NEW n \in Nat
    PROVE  parse_headers([len |-> n, magic |-> FALSE]) \in {"panic", "WrongMagicBytes"}
BY DEF parse_headers, MagicLen

(* The outcomes of parse_payload, and when it accepts.                       *)
LEMMA PayloadParsed ==
    ASSUME NEW p \in PayloadBlocks, NEW t \in RequestTypes
    PROVE  /\ parse_payload(p, t) \in {"ok", "panic", "InvalidKey", "MissingValue",
                                       "InvalidValue", "MalformedPayload"}
           /\ parse_payload(p, t) = "ok" <=>
                 /\ p.key_utf8
                 /\ t = "Put" => p.len >= p.klen + 8 + p.vlen /\ p.len > p.klen + 4 /\ p.value_utf8
                 /\ t # "Put" => p.len = p.klen + 4
BY DEF PayloadBlocks, parse_payload, ParsedValue, RequestTypes

(* A request is executable when both parsers accept it.                      *)
LEMMA ExecutableParsed ==
    ASSUME NEW r \in TcpRequests
    PROVE  Executable(r) <=>
               parse_headers(r.head) = "ok" /\ parse_payload(r.payload, r.head.type) = "ok"
<1> DEFINE h == r.head
           p == r.payload
           Claimed == p.klen + (IF h.type = "Put" THEN 8 + p.vlen ELSE 4)
<1>1. Executable(r) <=>
          /\ h.type \in RequestTypes
          /\ h.magic /\ h.version = 0 /\ h.len >= 24
          /\ p.key_utf8 /\ p.value_utf8
          /\ p.len = Claimed \/ (p.len > Claimed /\ h.type = "Put")
  BY DEF Executable, to_bytes, HeaderBytes, PayloadBytes, MagicLen, PROTOCOL_VERSION
<1>2. /\ h \in HeaderBlocks /\ p \in PayloadBlocks /\ h.version \in Nat
      /\ p.len \in Nat /\ p.klen \in Nat /\ p.vlen \in Nat
      /\ h.type \in {"Delete", "Get"} => p.vlen = 0 /\ p.value_utf8
  BY RequestType
<1>3. parse_headers(h) = "ok" <=> h.len >= 24 /\ h.magic /\ h.version = 0 /\ h.type \in RequestTypes
  BY <1>2, HeadersParsed
<1>4. ASSUME h.type \in RequestTypes
      PROVE  parse_payload(p, h.type) = "ok" <=>
                 /\ p.key_utf8
                 /\ h.type = "Put" => p.len >= p.klen + 8 + p.vlen /\ p.len > p.klen + 4 /\ p.value_utf8
                 /\ h.type # "Put" => p.len = p.klen + 4
  BY <1>2, <1>4, PayloadParsed
<1>5. CASE h.type = "Put"
  BY <1>1, <1>2, <1>3, <1>4, <1>5 DEF RequestTypes
<1>6. CASE h.type \in {"Delete", "Get"}
  BY <1>1, <1>2, <1>3, <1>4, <1>6 DEF RequestTypes
<1>7. CASE h.type \notin RequestTypes
  BY <1>1, <1>3, <1>7
<1> QED  BY <1>5, <1>6, <1>7 DEF RequestTypes

-----------------------------------------------------------------------------
(* The steps of the clients and the connections                             *)

(* What the inductive invariant says of one connection.                      *)
Local(c) ==
    /\ InStep(c) /\ AtRequest(c) /\ Answered(c) /\ Executed(c)
    /\ client[c] # "gone" => Counted(c)

(* A connection that a step leaves alone.                                    *)
Untouched(d) ==
    /\ client'[d] = client[d] /\ sent'[d] = sent[d] /\ written'[d] = written[d]
    /\ read'[d] = read[d] /\ conn'[d] = conn[d]
    /\ answers'[d] = answers[d] /\ executed'[d] = executed[d]

LEMMA InductiveLocal == Inductive <=> TypeOK /\ OnTheWay /\ \A c \in Clients : Local(c)
BY DEF Inductive, Local

LEMMA UntouchedLocal ==
    ASSUME NEW d \in Clients, Untouched(d), Local(d)
    PROVE  Local(d)'
<1>1. InStep(d)'
  BY DEF InStep, Untouched, Local
<1>2. AtRequest(d)'
  BY DEF AtRequest, Untouched, Local
<1>3. Answered(d)' /\ Executed(d)'
  BY DEF Answered, Executed, Untouched, Local
<1>4. client'[d] # "gone" => Counted(d)'
  BY DEF Counted, Running, Untouched, Local
<1> QED  BY <1>1, <1>2, <1>3, <1>4 DEF Local

(* A step of one connection or its client keeps the invariant when it keeps  *)
(* the part of that connection and starts none.                              *)
LEMMA OneStep ==
    ASSUME Inductive, NEW c \in Clients, UNCHANGED serverVars,
           \A d \in Clients \ {c} : Untouched(d),
           TypeOK', Local(c)',
           Accepted(c)' <=> Accepted(c), Running(c)' => Running(c)
    PROVE  Inductive'
<1>1. \A d \in Clients : Local(d)'
  BY UntouchedLocal, InductiveLocal
<1>2. \A d \in Clients : (Accepted(d)' <=> Accepted(d)) /\ (Running(d)' => Running(d))
  BY DEF Untouched, Accepted, Running
<1>3. Unknown' = Unknown
  BY <1>2 DEF Unknown, serverVars
<1>4. OnTheWay'
  <2>1. /\ server' = server /\ channel' = channel /\ manager' = manager
        /\ handles' = handles /\ do_cancel' = do_cancel
    BY DEF serverVars
  <2>2. {d \in Clients : Accepted(d)}' = {d \in Clients : Accepted(d)}
    BY <1>2
  <2>3. /\ \A d \in handles : ~Running(d) => ~Running(d)'
        /\ \A d \in handles \cup server.accepted \cup InChannel : Accepted(d)' <=> Accepted(d)
        /\ InChannel' = InChannel
    BY <1>2, <2>1 DEF Inductive, TypeOK, InChannel
  <2> QED  BY <1>3, <2>1, <2>2, <2>3 DEF Inductive, OnTheWay
<1> QED  BY <1>1, <1>4 DEF Inductive, Local

(* The types of what belongs to one connection.                              *)
LEMMA LocalTypes ==
    ASSUME TypeOK, NEW c \in Clients
    PROVE  /\ client[c] \in {"new", "connecting", "open", "gone"}
           /\ sent[c] \in Seq(TcpRequests) /\ Len(sent[c]) \in Nat
           /\ DOMAIN sent[c] = 1 .. Len(sent[c])
           /\ \A i \in 1 .. Len(sent[c]) : sent[c][i] \in TcpRequests
           /\ written[c] \in Nat /\ read[c] \in Nat
           /\ conn[c] \in TaskState
           /\ answers[c] \in Seq([id : Nat, code : Nat]) /\ Len(answers[c]) \in Nat
           /\ DOMAIN answers[c] = 1 .. Len(answers[c])
           /\ executed[c] \in Seq(Nat) /\ Len(executed[c]) \in Nat
           /\ DOMAIN executed[c] = 1 .. Len(executed[c])
           /\ read[c] <= written[c] /\ written[c] <= 4 * Len(sent[c])
           /\ Accepted(c) <=> client[c] \in {"open", "gone"}
BY DEF TypeOK

(* Four parts to a request.                                                  *)
LEMMA FourParts ==
    ASSUME NEW r \in Nat, NEW w \in Nat, NEW l \in Nat, w <= 4 * l
    PROVE  /\ w % 4 # 0 => w + 1 <= 4 * l
           /\ r < w => r \div 4 + 1 \in 1 .. l
<1>1. w = 4 * (w \div 4) + (w % 4) /\ w % 4 \in 0 .. 3 /\ w \div 4 \in Nat
  OBVIOUS
<1>2. r = 4 * (r \div 4) + (r % 4) /\ r % 4 \in 0 .. 3 /\ r \div 4 \in Nat
  OBVIOUS
<1> QED  BY <1>1, <1>2

LEMMA Appended ==
    ASSUME NEW S, NEW s \in Seq(S), NEW e \in S
    PROVE  /\ Append(s, e) \in Seq(S) /\ Len(Append(s, e)) = Len(s) + 1
           /\ DOMAIN s = 1 .. Len(s) /\ Len(s) \in Nat
           /\ DOMAIN Append(s, e) = 1 .. Len(s) + 1
           /\ \A i \in DOMAIN s : i \in DOMAIN Append(s, e) /\ Append(s, e)[i] = s[i]
           /\ Append(s, e)[Len(s) + 1] = e
OBVIOUS

LEMMA InvalidKeyCode == to_rc("InvalidKey") = 4
BY DEF to_rc

(* A client that writes, or leaves, takes nothing back.                      *)
LEMMA ClientLocal ==
    ASSUME NEW c \in Clients, Local(c),
           conn'[c] = conn[c], read'[c] = read[c], answers'[c] = answers[c],
           executed'[c] = executed[c],
           \A i \in DOMAIN sent[c] : i \in DOMAIN sent'[c] /\ sent'[c][i] = sent[c][i],
           client'[c] # "gone" => client[c] # "gone"
    PROVE  Local(c)'
<1>1. InStep(c)'
  BY DEF InStep, Local
<1>2. AtRequest(c)'
  BY DEF AtRequest, Local
<1>3. Answered(c)' /\ Executed(c)'
  BY DEF Answered, Executed, Local
<1>4. client'[c] # "gone" => Counted(c)'
  BY DEF Counted, Running, Local
<1> QED  BY <1>1, <1>2, <1>3, <1>4 DEF Local

LEMMA ClientStepKeeps ==
    ASSUME Inductive, NEW c \in Clients, ClientStep(c), UNCHANGED serverVars
    PROVE  Inductive'
<1> USE DEF Inductive
<1>1. conn' = conn /\ read' = read /\ answers' = answers /\ executed' = executed /\ token' = token
  BY DEF ClientStep, ClientConnects, ClientContinues, ClientLeaves, ClientBegins
<1>2. Local(c)
  BY DEF Local
<1>3. (Accepted(c)' <=> Accepted(c)) /\ (Running(c)' <=> Running(c))
  BY <1>1 DEF Accepted, Running
<1>4. ASSUME ClientConnects(c) \/ ClientContinues(c) \/ ClientLeaves(c)
      PROVE  /\ \A d \in Clients \ {c} : Untouched(d)
             /\ TypeOK' /\ sent' = sent
             /\ client'[c] # "gone" => client[c] # "gone"
  <2>1. written[c] % 4 # 0 => written[c] + 1 <= 4 * Len(sent[c])
    BY LocalTypes, FourParts
  <2>2. \A d \in Clients \ {c} : Untouched(d)
    BY <1>1, <1>4 DEF ClientConnects, ClientContinues, ClientLeaves, Untouched, TypeOK
  <2>3. \A d \in Clients : Accepted(d)' <=> Accepted(d)
    BY <1>1 DEF Accepted
  <2>4. CASE ClientConnects(c)
    BY <1>1, <2>2, <2>3, <2>4, LocalTypes DEF ClientConnects, TypeOK, serverVars
  <2>5. CASE ClientContinues(c)
    <3>1. /\ written' \in [Clients -> Nat] /\ client' = client /\ sent' = sent
          /\ written'[c] = written[c] + 1 /\ written[c] + 1 <= 4 * Len(sent[c])
      BY <2>1, <2>5, LocalTypes, SMTT(20) DEF ClientContinues, TypeOK
    <3>2. \A d \in Clients : read'[d] <= written'[d] /\ written'[d] <= 4 * Len(sent'[d])
      BY <1>1, <2>2, <3>1, LocalTypes, SMTT(20) DEF Untouched
    <3> QED  BY <1>1, <2>2, <2>3, <3>1, <3>2 DEF TypeOK, serverVars
  <2>6. CASE ClientLeaves(c)
    BY <1>1, <2>2, <2>3, <2>6, LocalTypes DEF ClientLeaves, TypeOK, serverVars
  <2> QED  BY <1>4, <2>4, <2>5, <2>6
<1>5. ASSUME NEW request, ClientBegins(c, request)
      PROVE  /\ \A d \in Clients \ {c} : Untouched(d)
             /\ TypeOK' /\ client' = client
             /\ \A i \in DOMAIN sent[c] : i \in DOMAIN sent'[c] /\ sent'[c][i] = sent[c][i]
  <2>1. request \in TcpRequests
    BY <1>5, LocalTypes, ServerAssumption DEF ClientBegins
  <2>2. /\ sent'[c] = Append(sent[c], request) /\ sent'[c] \in Seq(TcpRequests)
        /\ Len(sent'[c]) = Len(sent[c]) + 1
        /\ \A i \in DOMAIN sent[c] : i \in DOMAIN sent'[c] /\ sent'[c][i] = sent[c][i]
    <3>1. sent'[c] = Append(sent[c], request)
      BY <1>5 DEF ClientBegins, TypeOK
    <3> QED  BY <2>1, <3>1, LocalTypes, Appended
  <2>3. written'[c] = written[c] + 1 /\ written'[c] <= 4 * Len(sent'[c])
    <3>1. written'[c] = written[c] + 1
      BY <1>5 DEF ClientBegins, TypeOK
    <3>2. written[c] + 1 <= 4 * (Len(sent[c]) + 1)
      BY LocalTypes
    <3> QED  BY <2>2, <3>1, <3>2
  <2>4. \A d \in Clients \ {c} : Untouched(d)
    BY <1>1, <1>5 DEF ClientBegins, Untouched, TypeOK
  <2>5. sent' \in [Clients -> Seq(TcpRequests)] /\ written' \in [Clients -> Nat]
    <3>1. /\ sent' = [sent EXCEPT ![c] = sent'[c]]
          /\ written' = [written EXCEPT ![c] = written'[c]]
      BY <1>5, <2>2, <2>3 DEF ClientBegins
    <3>2. written'[c] \in Nat
      BY <2>3, LocalTypes
    <3> QED  BY <2>2, <3>1, <3>2 DEF TypeOK
  <2>6. client' = client
    BY <1>5 DEF ClientBegins
  <2>7. \A d \in Clients :
            /\ read'[d] <= written'[d] /\ written'[d] <= 4 * Len(sent'[d])
            /\ Accepted(d)' <=> client'[d] \in {"open", "gone"}
    <3>1. ASSUME NEW d \in Clients
          PROVE  read'[d] <= written'[d] /\ written'[d] <= 4 * Len(sent'[d])
      <4>1. CASE d = c
        BY <1>1, <2>3, <4>1, LocalTypes
      <4>2. CASE d # c
        BY <2>4, <4>2, LocalTypes DEF Untouched
      <4> QED  BY <4>1, <4>2
    <3>2. \A d \in Clients : Accepted(d)' <=> Accepted(d)
      BY <1>1 DEF Accepted
    <3> QED  BY <2>6, <3>1, <3>2, LocalTypes
  <2> QED  BY <1>1, <2>2, <2>4, <2>5, <2>6, <2>7 DEF TypeOK, serverVars
<1> QED
  <2>1. CASE ClientConnects(c) \/ ClientContinues(c) \/ ClientLeaves(c)
    BY <1>1, <1>2, <1>3, <1>4, <2>1, ClientLocal, OneStep
  <2>2. CASE \E request \in UNION {Script[c][i] : i \in DOMAIN Script[c]} : ClientBegins(c, request)
    BY <1>1, <1>2, <1>3, <1>5, <2>2, ClientLocal, OneStep
  <2> QED  BY <2>1, <2>2 DEF ClientStep

(* What the steps of a task change: how far it has read, its state, and its  *)
(* histories.                                                                *)
Effect(c, r, t, a, x) ==
    /\ read' = [read EXCEPT ![c] = r] /\ conn' = [conn EXCEPT ![c] = t]
    /\ answers' = [answers EXCEPT ![c] = a] /\ executed' = [executed EXCEPT ![c] = x]
    /\ UNCHANGED <<client, sent, written, token>>

LEMMA EffectOf ==
    ASSUME TypeOK, UNCHANGED serverVars, NEW c \in Clients, Running(c),
           NEW r \in Nat, r <= written[c], NEW t \in TaskState, t.pc # "none",
           NEW a \in Seq([id : Nat, code : Nat]), NEW x \in Seq(Nat), Effect(c, r, t, a, x)
    PROVE  /\ TypeOK' /\ \A d \in Clients \ {c} : Untouched(d)
           /\ read'[c] = r /\ conn'[c] = t /\ answers'[c] = a /\ executed'[c] = x
           /\ client'[c] = client[c] /\ sent'[c] = sent[c]
           /\ Accepted(c)' <=> Accepted(c)
           /\ Running(c)' => Running(c)
<1>1. /\ read'[c] = r /\ conn'[c] = t /\ answers'[c] = a /\ executed'[c] = x
      /\ client' = client /\ sent' = sent /\ written' = written
  BY DEF Effect, TypeOK
<1>2. \A d \in Clients \ {c} : Untouched(d)
  BY DEF Effect, Untouched, TypeOK
<1>3. \A d \in Clients : Accepted(d)' <=> Accepted(d)
  BY <1>1, <1>2 DEF Accepted, Running, Untouched
<1>4. /\ read' \in [Clients -> Nat] /\ conn' \in [Clients -> TaskState]
      /\ answers' \in [Clients -> Seq([id : Nat, code : Nat])] /\ executed' \in [Clients -> Seq(Nat)]
  BY DEF Effect, TypeOK
<1>5. \A d \in Clients : read'[d] <= written'[d]
  BY <1>1, <1>2, LocalTypes DEF Untouched
<1>6. TypeOK'
  BY <1>1, <1>3, <1>4, <1>5 DEF TypeOK, serverVars, Effect
<1> QED  BY <1>1, <1>2, <1>3, <1>6

(* The assignments to the fields of a task.                                  *)
LEMMA TaskAt ==
    ASSUME NEW t \in TaskState,
           NEW pc \in {"none", "select", "headers", "payload_len", "payload", "call",
                       "send_response", "send_error", "done", "panicked"}
    PROVE  /\ t.id \in Nat /\ t.code \in Nat /\ t.type \in TypeBytes
           /\ LET u == [t EXCEPT !.pc = pc]
              IN  u \in TaskState /\ u.pc = pc /\ u.id = t.id /\ u.type = t.type /\ u.code = t.code
BY DEF TaskState

LEMMA TaskCode ==
    ASSUME NEW t \in TaskState, NEW code \in Nat,
           NEW pc \in {"send_response", "send_error"}
    PROVE  LET u == [t EXCEPT !.pc = pc, !.code = code]
           IN  u \in TaskState /\ u.pc = pc /\ u.id = t.id /\ u.type = t.type /\ u.code = code
BY DEF TaskState

(* What parsing makes of a task.                                             *)
LEMMA ParsedTask ==
    ASSUME NEW t \in TaskState, NEW next \in TaskState,
           NEW result \in {"ok", "panic", "WrongMagicBytes", "UnsupportedVersion",
                           "InvalidRequestType", "InvalidKey", "MissingValue",
                           "InvalidValue", "MalformedPayload"}
    PROVE  LET u == Parsed(t, result, next) IN
           /\ u \in TaskState
           /\ result = "ok" => u = next
           /\ result = "panic" => u.pc = "panicked"
           /\ result = "WrongMagicBytes" => u.pc = "done"
           /\ result \notin {"ok", "panic", "WrongMagicBytes"} =>
                 u.pc = "send_error" /\ u.id = t.id /\ u.type = t.type /\ u.code >= 4
<1>1. CASE result = "ok"
  BY <1>1 DEF Parsed
<1>2. CASE result = "panic"
  BY <1>2, TaskAt DEF Parsed
<1>3. CASE result = "WrongMagicBytes"
  BY <1>3, TaskAt DEF Parsed
<1>4. CASE result \notin {"ok", "panic", "WrongMagicBytes"}
  <2>1. to_rc(result) \in Nat /\ to_rc(result) >= 4
    BY <1>4 DEF to_rc
  <2>2. Parsed(t, result, next) = [t EXCEPT !.pc = "send_error", !.code = to_rc(result)]
    BY <1>4 DEF Parsed
  <2> DEFINE u == [t EXCEPT !.pc = "send_error", !.code = to_rc(result)]
  <2>3. /\ u \in TaskState /\ u.pc = "send_error" /\ u.id = t.id /\ u.type = t.type
        /\ u.code = to_rc(result)
    BY <2>1, TaskCode
  <2> QED  BY <1>4, <2>1, <2>2, <2>3
<1> QED  BY <1>1, <1>2, <1>3, <1>4

LEMMA SameAt ==
    ASSUME TypeOK, NEW c \in Clients
    PROVE  /\ read = [read EXCEPT ![c] = read[c]]
           /\ answers = [answers EXCEPT ![c] = answers[c]]
           /\ executed = [executed EXCEPT ![c] = executed[c]]
BY DEF TypeOK

LEMMA GotoTask ==
    ASSUME TypeOK, NEW c \in Clients,
           NEW pc \in {"select", "headers", "payload_len", "payload", "call", "done"}
    PROVE  LET u == [conn[c] EXCEPT !.pc = pc]
           IN  u \in TaskState /\ u.pc = pc /\ u.id = conn[c].id /\ u.type = conn[c].type
<1>1. conn[c] \in TaskState
  BY LocalTypes
<1> QED  BY <1>1 DEF TaskState

(* Which of the four parts comes next.                                       *)
LEMMA NextPart ==
    ASSUME NEW r \in Nat
    PROVE  /\ r % 4 = 0 => (r + 1) % 4 = 1
           /\ r % 4 = 1 => r + 1 = 4 * (r \div 4 + 1) - 2
           /\ r % 4 = 2 => (r + 1) % 4 = 3
           /\ r % 4 \in 0 .. 3 /\ r \div 4 \in Nat /\ r = 4 * (r \div 4) + (r % 4)
           /\ \A i \in Nat : r = 4 * i - 1 => r \div 4 + 1 = i
OBVIOUS

LEMMA PartsBefore ==
    ASSUME NEW r \in Nat, NEW n \in Nat, r % 4 = 1, 4 * n \in {r - 1, r + 1}
    PROVE  n = r \div 4
OBVIOUS

LEMMA RecvHeaderLenKeeps ==
    ASSUME Inductive, NEW c \in Clients, RecvHeaderLen(c), UNCHANGED serverVars
    PROVE  Inductive'
<1> DEFINE r == read[c] + 1
           t == [conn[c] EXCEPT !.pc = "headers"]
<1>1. TypeOK /\ Local(c)
  BY DEF Inductive, Local
<1>2. r \in Nat /\ r <= written[c] /\ t \in TaskState /\ t.pc = "headers"
  <2>1. t \in TaskState /\ t.pc = "headers"
    BY <1>1, GotoTask
  <2> QED  BY <1>1, <2>1, LocalTypes DEF RecvHeaderLen, Ready
<1>3. Effect(c, r, t, answers[c], executed[c])
  BY <1>1, SameAt DEF RecvHeaderLen, ReadPart, Goto, Effect
<1>4. Running(c) /\ conn[c].pc = "select"
  BY DEF RecvHeaderLen, Running
<1>5. /\ TypeOK' /\ \A d \in Clients \ {c} : Untouched(d)
      /\ read'[c] = r /\ conn'[c] = t /\ answers'[c] = answers[c] /\ executed'[c] = executed[c]
      /\ client'[c] = client[c] /\ sent'[c] = sent[c]
      /\ Accepted(c)' <=> Accepted(c)
      /\ Running(c)' => Running(c)
  BY <1>1, <1>2, <1>3, <1>4, EffectOf, LocalTypes
<1>6. InStep(c)'
  BY <1>1, <1>2, <1>4, <1>5, LocalTypes, NextPart DEF Local, InStep
<1>7. AtRequest(c)' /\ Answered(c)'
  BY <1>1, <1>2, <1>5 DEF Local, AtRequest, Answered
<1>8. Executed(c)'
  <2>1. \A i \in DOMAIN executed[c] : executed[c][i] \in Nat /\ read[c] \in Nat
    BY <1>1, LocalTypes
  <2>2. \A i \in DOMAIN executed[c] : 4 * executed[c][i] <= r
    BY <1>1, <2>1 DEF Local, Executed
  <2> HIDE DEF r, t
  <2> QED  BY <1>1, <1>2, <1>5, <2>2 DEF Local, Executed
<1>9. client'[c] # "gone" => Counted(c)'
  <2>1. Len(answers[c]) \in Nat /\ DOMAIN answers[c] = 1 .. Len(answers[c]) /\ read[c] \in Nat
    BY <1>1, LocalTypes
  <2> QED  BY <1>1, <1>2, <1>4, <1>5, <2>1, SMTT(20) DEF Local, Counted, Running
<1> QED  BY <1>5, <1>6, <1>7, <1>8, <1>9, OneStep DEF Local

LEMMA CloseNotifyKeeps ==
    ASSUME Inductive, NEW c \in Clients, conn[c].pc = "select", CloseNotify(c), UNCHANGED serverVars
    PROVE  Inductive'
<1> DEFINE t == [conn[c] EXCEPT !.pc = "done"]
           e == [id |-> 0, code |-> to_rc("TimedOut")]
<1>1. TypeOK /\ Local(c) /\ Running(c)
  BY DEF Inductive, Local, Running
<1>2. t \in TaskState /\ t.pc = "done"
  BY <1>1, GotoTask
<1>3. e \in [id : Nat, code : Nat]
  BY DEF to_rc
<1>4. PICK a \in {Append(answers[c], e)} \cup (IF client[c] = "gone" THEN {answers[c]} ELSE {}) :
          Effect(c, read[c], t, a, executed[c])
  BY <1>1, SameAt DEF CloseNotify, Goto, Effect
<1>5. a \in Seq([id : Nat, code : Nat])
  <2>1. answers[c] \in Seq([id : Nat, code : Nat])
    BY <1>1, LocalTypes
  <2>2. Append(answers[c], e) \in Seq([id : Nat, code : Nat])
    BY <1>3, <2>1, Appended
  <2> QED  BY <2>1, <2>2
<1>6. /\ TypeOK' /\ \A d \in Clients \ {c} : Untouched(d)
      /\ read'[c] = read[c] /\ conn'[c] = t /\ answers'[c] = a /\ executed'[c] = executed[c]
      /\ client'[c] = client[c] /\ sent'[c] = sent[c]
      /\ Accepted(c)' <=> Accepted(c)
      /\ Running(c)' => Running(c)
  BY <1>1, <1>2, <1>4, <1>5, EffectOf, LocalTypes
<1>7. InStep(c)' /\ AtRequest(c)' /\ Executed(c)'
  BY <1>1, <1>2, <1>6 DEF Local, InStep, AtRequest, Executed
<1>8. Answered(c)' /\ (client'[c] # "gone" => Counted(c)')
  <2>1. CASE a = answers[c] /\ client[c] = "gone"
    BY <1>1, <1>6, <2>1 DEF Local, Answered
  <2>2. CASE a = Append(answers[c], e)
    <3>1. /\ Len(a) = Len(answers[c]) + 1 /\ Len(answers[c]) \in Nat
          /\ DOMAIN answers[c] = 1 .. Len(answers[c]) /\ DOMAIN a = 1 .. Len(a)
          /\ \A i \in DOMAIN answers[c] : a[i] = answers[c][i]
          /\ a[Len(a)].id = 0
      BY <1>1, <1>3, <2>2, LocalTypes, Appended
    <3>2. \A i \in DOMAIN a : i \in DOMAIN answers[c] \/ i = Len(a)
      BY <3>1
    <3>3. Answered(c)'
      BY <1>1, <1>6, <3>1, <3>2 DEF Local, Answered
    <3>4. client[c] # "gone" => Counted(c)'
      BY <1>1, <1>2, <1>6, <3>1, <3>2, SMTT(20) DEF Local, Counted, Running
    <3> QED  BY <1>6, <3>3, <3>4
  <2> QED  BY <2>1, <2>2, <1>4
<1> QED  BY <1>6, <1>7, <1>8, OneStep DEF Local

LEMMA ReadFailsKeeps ==
    ASSUME Inductive, NEW c \in Clients, ReadFails(c), UNCHANGED serverVars
    PROVE  Inductive'
<1> DEFINE t == [conn[c] EXCEPT !.pc = "done"]
<1>1. TypeOK /\ Local(c) /\ Running(c) /\ client[c] = "gone"
  BY DEF Inductive, Local, Running, ReadFails
<1>2. t \in TaskState /\ t.pc = "done"
  BY <1>1, GotoTask
<1>3. Effect(c, read[c], t, answers[c], executed[c])
  BY <1>1, SameAt DEF ReadFails, Goto, Effect
<1>4. /\ TypeOK' /\ \A d \in Clients \ {c} : Untouched(d)
      /\ read'[c] = read[c] /\ conn'[c] = t /\ answers'[c] = answers[c] /\ executed'[c] = executed[c]
      /\ client'[c] = client[c] /\ sent'[c] = sent[c]
      /\ Accepted(c)' <=> Accepted(c)
      /\ Running(c)' => Running(c)
  BY <1>1, <1>2, <1>3, EffectOf, LocalTypes
<1>5. InStep(c)' /\ AtRequest(c)' /\ Executed(c)' /\ Answered(c)'
  BY <1>1, <1>2, <1>4 DEF Local, InStep, AtRequest, Executed, Answered
<1> QED  BY <1>1, <1>4, <1>5, OneStep DEF Local

LEMMA RecvPayloadLenKeeps ==
    ASSUME Inductive, NEW c \in Clients, RecvPayloadLen(c), UNCHANGED serverVars
    PROVE  Inductive'
<1> DEFINE r == read[c] + 1
           t == [conn[c] EXCEPT !.pc = "payload"]
<1>1. TypeOK /\ Local(c) /\ Running(c) /\ conn[c].pc = "payload_len"
  BY DEF Inductive, Local, Running, RecvPayloadLen
<1>2. t \in TaskState /\ t.pc = "payload" /\ t.id = conn[c].id /\ t.type = conn[c].type
  BY <1>1, GotoTask
<1>3. r \in Nat /\ r <= written[c] /\ conn[c].id \in Nat
  BY <1>1, LocalTypes DEF RecvPayloadLen, Ready, TaskState
<1>4. Effect(c, r, t, answers[c], executed[c])
  BY <1>1, SameAt DEF RecvPayloadLen, ReadPart, Goto, Effect
<1>5. /\ TypeOK' /\ \A d \in Clients \ {c} : Untouched(d)
      /\ read'[c] = r /\ conn'[c] = t /\ answers'[c] = answers[c] /\ executed'[c] = executed[c]
      /\ client'[c] = client[c] /\ sent'[c] = sent[c]
      /\ Accepted(c)' <=> Accepted(c)
      /\ Running(c)' => Running(c)
  BY <1>1, <1>2, <1>3, <1>4, EffectOf, LocalTypes
<1>6. InStep(c)'
  BY <1>1, <1>2, <1>3, <1>5, LocalTypes, SMTT(20) DEF Local, InStep
<1>7. AtRequest(c)' /\ Answered(c)'
  BY <1>1, <1>2, <1>5 DEF Local, AtRequest, Answered
<1>8. Executed(c)'
  BY <1>1, <1>2, <1>5, LocalTypes DEF Local, Executed
<1>9. client'[c] # "gone" => Counted(c)'
  <2>1. Len(answers[c]) \in Nat /\ DOMAIN answers[c] = 1 .. Len(answers[c]) /\ read[c] \in Nat
    BY <1>1, LocalTypes
  <2> QED  BY <1>1, <1>2, <1>5, <2>1 DEF Local, Counted, Running
<1> QED  BY <1>5, <1>6, <1>7, <1>8, <1>9, OneStep DEF Local

LEMMA RecvHeadersKeeps ==
    ASSUME Inductive, NEW c \in Clients, RecvHeaders(c), UNCHANGED serverVars
    PROVE  Inductive'
<1> DEFINE r == read[c] + 1
           id == NextId(c)
           request == sent[c][id]
           result == parse_headers(HeaderBlock(c))
           task == [conn[c] EXCEPT !.id = id]
           next == [task EXCEPT !.pc = "payload_len", !.type = request.head.type]
           t == Parsed(task, result, next)
<1>1. TypeOK /\ Local(c) /\ Running(c) /\ conn[c].pc = "headers"
  BY DEF Inductive, Local, Running, RecvHeaders
<1>2. read[c] \in Nat /\ r \in Nat /\ r <= written[c] /\ read[c] < written[c]
  BY <1>1, LocalTypes DEF RecvHeaders, Ready
<1>3. id \in DOMAIN sent[c] /\ id \in Nat /\ request \in TcpRequests
  <2>1. id \in 1 .. Len(sent[c])
    BY <1>1, <1>2, LocalTypes, FourParts DEF NextId
  <2> QED  BY <1>1, <2>1, LocalTypes
<1>4. task \in TaskState /\ task.id = id
  <2>1. conn[c] \in TaskState
    BY <1>1, LocalTypes
  <2> QED  BY <1>3, <2>1 DEF TaskState
<1>5. next \in TaskState /\ next.pc = "payload_len" /\ next.id = id /\ next.type = request.head.type
  <2>1. request.head.type \in TypeBytes
    BY <1>3, RequestType
  <2> QED  BY <1>4, <2>1 DEF TaskState
<1>6. InPayload(c) => result \in {"panic", "WrongMagicBytes"}
  <2>1. request.payload.len \in Nat /\ (request.payload.klen = MAGIC_NUMBER) = FALSE
    BY <1>3, RequestType
  <2>2. InPayload(c) => HeaderBlock(c) = [len |-> request.payload.len, magic |-> FALSE]
    BY <2>1 DEF HeaderBlock
  <2> QED  BY <2>1, <2>2, PayloadIsNoHeader
<1>7. ~InPayload(c) => /\ result = parse_headers(request.head)
                       /\ read[c] % 4 = 1 /\ r = 4 * id - 2
  <2>1. read[c] % 4 \in {1, 3}
    BY <1>1 DEF Local, InStep
  <2>2. ~InPayload(c) => read[c] % 4 = 1
    BY <2>1 DEF InPayload
  <2>3. read[c] % 4 = 1 => r = 4 * id - 2
    BY <1>2, NextPart DEF NextId
  <2> QED  BY <2>2, <2>3 DEF HeaderBlock
<1>8. result \in {"ok", "panic", "WrongMagicBytes", "UnsupportedVersion", "InvalidRequestType"}
  <2>1. request.head \in HeaderBlocks
    BY <1>3, RequestType
  <2> QED  BY <1>6, <1>7, <2>1, HeadersParsed
<1>9. /\ t \in TaskState
      /\ \/ t.pc \in {"panicked", "done"}
         \/ /\ t.pc = "payload_len" /\ t.id = id /\ t.type = request.head.type
            /\ parse_headers(request.head) = "ok" /\ r = 4 * id - 2 /\ read[c] % 4 = 1
         \/ /\ t.pc = "send_error" /\ t.id = id /\ t.code >= 4 /\ t.code \in Nat
            /\ parse_headers(request.head) # "ok" /\ r = 4 * id - 2 /\ read[c] % 4 = 1
  <2>1. /\ t \in TaskState
        /\ result = "ok" => t = next
        /\ result = "panic" => t.pc = "panicked"
        /\ result = "WrongMagicBytes" => t.pc = "done"
        /\ result \notin {"ok", "panic", "WrongMagicBytes"} =>
              t.pc = "send_error" /\ t.id = task.id /\ t.code >= 4
    <3> HIDE DEF task, next, result
    <3> QED  BY <1>4, <1>5, <1>8, ParsedTask
  <2>2. t.code \in Nat
    BY <2>1 DEF TaskState
  <2> QED  BY <1>4, <1>5, <1>6, <1>7, <1>8, <2>1, <2>2
<1>10. Effect(c, r, t, answers[c], executed[c])
  BY <1>1, SameAt DEF RecvHeaders, ReadPart, Effect
<1>11. /\ TypeOK' /\ \A d \in Clients \ {c} : Untouched(d)
       /\ read'[c] = r /\ conn'[c] = t /\ answers'[c] = answers[c] /\ executed'[c] = executed[c]
       /\ client'[c] = client[c] /\ sent'[c] = sent[c]
       /\ Accepted(c)' <=> Accepted(c)
       /\ Running(c)' => Running(c)
  <2>1. t.pc # "none"
    BY <1>9
  <2>2. answers[c] \in Seq([id : Nat, code : Nat]) /\ executed[c] \in Seq(Nat)
    BY <1>1, LocalTypes
  <2> QED  BY <1>1, <1>2, <1>9, <1>10, <2>1, <2>2, EffectOf
<1> HIDE DEF id, t, r
<1>12. InStep(c)'
  BY <1>9, <1>11 DEF InStep
<1>13. AtRequest(c)'
  <2>1. t.pc = "send_error" => ~Executable(request)
    BY <1>3, <1>9, ExecutableParsed
  <2> QED  BY <1>3, <1>9, <1>11, <2>1, InvalidKeyCode DEF AtRequest
<1>14. Answered(c)'
  BY <1>1, <1>11 DEF Local, Answered
<1>15. Executed(c)'
  <2>1. \A i \in DOMAIN executed[c] : executed[c][i] \in Nat
    BY <1>1, LocalTypes
  <2>2. \A i \in DOMAIN executed[c] : 4 * executed[c][i] <= read[c] => 4 * executed[c][i] <= r
    BY <1>2, <2>1 DEF r
  <2> QED  BY <1>1, <1>9, <1>11, <2>2 DEF Local, Executed
<1>16. client'[c] # "gone" => Counted(c)'
  <2> HAVE client'[c] # "gone"
  <2>1. Len(answers[c]) \in Nat /\ DOMAIN answers[c] = 1 .. Len(answers[c])
    BY <1>1, LocalTypes
  <2>2. /\ 4 * Len(answers[c]) \in {read[c] - 1, read[c] + 1}
        /\ \A i \in DOMAIN answers[c] : answers[c][i].id = i
        /\ \A i \in DOMAIN answers[c] : 4 * i <= read[c] + 2 \/ answers[c][i].id = 0
    BY <1>1, <1>11 DEF Local, Counted
  <2>3. t.pc \in {"payload_len", "send_error"} => Len(answers[c]) = id - 1
    <3>1. read[c] % 4 = 1 => Len(answers[c]) = read[c] \div 4
      BY <1>2, <2>1, <2>2, PartsBefore
    <3>2. id - 1 = read[c] \div 4
      BY <1>2, NextPart DEF id, NextId
    <3> QED  BY <1>9, <3>1, <3>2
  <2>4. \A i \in DOMAIN answers[c] : 4 * i <= r + 2 \/ answers[c][i].id = 0
    BY <1>2, <2>1, <2>2 DEF r
  <2> QED  BY <1>9, <1>11, <2>2, <2>3, <2>4 DEF Counted
<1> QED  BY <1>11, <1>12, <1>13, <1>14, <1>15, <1>16, OneStep DEF Local

LEMMA RecvPayloadKeeps ==
    ASSUME Inductive, NEW c \in Clients, RecvPayload(c), UNCHANGED serverVars
    PROVE  Inductive'
<1> DEFINE r == read[c] + 1
           id == conn[c].id
           request == sent[c][id]
           result == parse_payload(request.payload, conn[c].type)
           next == [conn[c] EXCEPT !.pc = "call"]
           t == Parsed(conn[c], result, next)
<1>1. TypeOK /\ Local(c) /\ Running(c) /\ conn[c].pc = "payload"
  BY DEF Inductive, Local, Running, RecvPayload
<1>2. read[c] \in Nat /\ r \in Nat /\ r <= written[c] /\ conn[c] \in TaskState /\ id \in Nat
  BY <1>1, LocalTypes DEF RecvPayload, Ready, TaskState
<1>3. /\ id \in DOMAIN sent[c] /\ read[c] = 4 * id - 1
      /\ conn[c].type = request.head.type /\ parse_headers(request.head) = "ok"
  BY <1>1 DEF Local, AtRequest, InStep
<1>4. request \in TcpRequests /\ NextId(c) = id
  <2>1. request \in TcpRequests
    BY <1>1, <1>3, LocalTypes
  <2> QED  BY <1>2, <1>3, <2>1, NextPart DEF NextId
<1>5. next \in TaskState /\ next.pc = "call" /\ next.id = id /\ next.type = conn[c].type
  BY <1>1, GotoTask
<1>6. result \in {"ok", "panic", "InvalidKey", "MissingValue", "InvalidValue", "MalformedPayload"}
  <2>1. request.head \in HeaderBlocks /\ request.payload \in PayloadBlocks
    BY <1>4, RequestType
  <2>2. conn[c].type \in RequestTypes
    BY <1>3, <2>1, HeadersParsed
  <2> QED  BY <2>1, <2>2, PayloadParsed
<1>7. /\ t \in TaskState
      /\ \/ t.pc = "panicked"
         \/ /\ t.pc = "call" /\ t.id = id /\ t.type = conn[c].type /\ result = "ok"
         \/ /\ t.pc = "send_error" /\ t.id = id /\ t.code >= 4 /\ t.code \in Nat /\ result # "ok"
  <2>1. /\ t \in TaskState
        /\ result = "ok" => t = next
        /\ result = "panic" => t.pc = "panicked"
        /\ result \notin {"ok", "panic", "WrongMagicBytes"} =>
              t.pc = "send_error" /\ t.id = id /\ t.code >= 4
    <3> HIDE DEF next, result
    <3> QED  BY <1>2, <1>5, <1>6, ParsedTask
  <2>2. t.code \in Nat
    BY <2>1 DEF TaskState
  <2> QED  BY <1>5, <1>6, <2>1, <2>2
<1>8. Effect(c, r, t, answers[c], executed[c])
  BY <1>1, <1>4, SameAt DEF RecvPayload, ReadPart, Effect
<1>9. /\ TypeOK' /\ \A d \in Clients \ {c} : Untouched(d)
      /\ read'[c] = r /\ conn'[c] = t /\ answers'[c] = answers[c] /\ executed'[c] = executed[c]
      /\ client'[c] = client[c] /\ sent'[c] = sent[c]
      /\ Accepted(c)' <=> Accepted(c)
      /\ Running(c)' => Running(c)
  <2>1. t.pc # "none"
    BY <1>7
  <2>2. answers[c] \in Seq([id : Nat, code : Nat]) /\ executed[c] \in Seq(Nat)
    BY <1>1, LocalTypes
  <2> QED  BY <1>1, <1>2, <1>7, <1>8, <2>1, <2>2, EffectOf
<1>10. r = 4 * id
  BY <1>2, <1>3
<1> HIDE DEF t, r
<1>11. InStep(c)'
  BY <1>7, <1>9, <1>10 DEF InStep
<1>12. AtRequest(c)'
  <2>1. t.pc = "send_error" => ~Executable(request)
    BY <1>3, <1>4, <1>7, ExecutableParsed
  <2> QED  BY <1>3, <1>7, <1>9, <2>1, InvalidKeyCode DEF AtRequest
<1>13. Answered(c)'
  BY <1>1, <1>9 DEF Local, Answered
<1>14. Executed(c)'
  <2>1. \A i \in DOMAIN executed[c] : executed[c][i] \in Nat
    BY <1>1, LocalTypes
  <2>2. \A i \in DOMAIN executed[c] :
            4 * executed[c][i] <= read[c] => 4 * executed[c][i] <= r /\ executed[c][i] < id
    BY <1>2, <1>3, <2>1 DEF r
  <2> QED  BY <1>1, <1>7, <1>9, <2>2 DEF Local, Executed
<1>15. client'[c] # "gone" => Counted(c)'
  <2>1. Len(answers[c]) \in Nat /\ DOMAIN answers[c] = 1 .. Len(answers[c])
    BY <1>1, LocalTypes
  <2>2. client'[c] # "gone" =>
          \A i \in DOMAIN answers[c] : 4 * i <= r + 2 \/ answers[c][i].id = 0
    BY <1>1, <1>2, <1>9, <2>1 DEF Local, Counted, r
  <2> QED  BY <1>1, <1>7, <1>9, <2>2 DEF Local, Counted
<1> QED  BY <1>9, <1>11, <1>12, <1>13, <1>14, <1>15, OneStep DEF Local

LEMMA CallStorageEngineKeeps ==
    ASSUME Inductive, NEW c \in Clients, CallStorageEngine(c), UNCHANGED serverVars
    PROVE  Inductive'
<1> DEFINE id == conn[c].id
           request == sent[c][id]
           x == Append(executed[c], id)
           After(code) == [conn[c] EXCEPT !.code = code,
                                          !.pc = IF code = 0 THEN "send_response" ELSE "send_error"]
<1>1. TypeOK /\ Local(c) /\ Running(c) /\ conn[c].pc = "call"
  BY DEF Inductive, Local, Running, CallStorageEngine
<1>2. conn[c] \in TaskState /\ id \in Nat /\ read[c] \in Nat /\ read[c] <= written[c]
  BY <1>1, LocalTypes DEF TaskState
<1>3. /\ id \in DOMAIN sent[c] /\ read[c] = 4 * id
      /\ parse_headers(request.head) = "ok" /\ parse_payload(request.payload, request.head.type) = "ok"
  BY <1>1 DEF Local, AtRequest, InStep
<1>4. Executable(request)
  <2>1. request \in TcpRequests
    BY <1>1, <1>3, LocalTypes
  <2> QED  BY <1>3, <2>1, ExecutableParsed
<1>5. PICK code \in Outcomes(conn[c].type) : conn' = [conn EXCEPT ![c] = After(code)]
  BY DEF CallStorageEngine
<1>6. code \in 0 .. 3
  <2>1. \A e \in EngineErrors \cup {"NotFound"} : StorageError_to_rc(e) \in 0 .. 3
    BY ServerAssumption DEF StorageError_to_rc
  <2> QED  BY <1>5, <2>1 DEF Outcomes
<1> DEFINE t == After(code)
<1>7. t \in TaskState /\ t.pc \in {"send_response", "send_error"} /\ t.id = id /\ t.code = code
  <2>1. CASE code = 0
    BY <1>2, <2>1 DEF TaskState
  <2>2. CASE code # 0
    <3>1. t = [conn[c] EXCEPT !.code = code, !.pc = "send_error"] /\ code \in Nat
      BY <1>6, <2>2
    <3> QED  BY <1>2, <3>1 DEF TaskState
  <2> QED  BY <2>1, <2>2
<1>8. Effect(c, read[c], t, answers[c], x)
  BY <1>1, <1>5, SameAt DEF CallStorageEngine, Effect
<1>9. /\ x \in Seq(Nat) /\ DOMAIN x = 1 .. Len(executed[c]) + 1
      /\ DOMAIN executed[c] = 1 .. Len(executed[c]) /\ Len(executed[c]) \in Nat
      /\ \A i \in DOMAIN executed[c] : x[i] = executed[c][i]
      /\ x[Len(executed[c]) + 1] = id
  <2>1. executed[c] \in Seq(Nat)
    BY <1>1, LocalTypes
  <2> QED  BY <1>2, <2>1, Appended
<1> HIDE DEF t, x
<1>10. /\ TypeOK' /\ \A d \in Clients \ {c} : Untouched(d)
       /\ read'[c] = read[c] /\ conn'[c] = t /\ answers'[c] = answers[c] /\ executed'[c] = x
       /\ client'[c] = client[c] /\ sent'[c] = sent[c]
       /\ Accepted(c)' <=> Accepted(c)
       /\ Running(c)' => Running(c)
  <2>1. answers[c] \in Seq([id : Nat, code : Nat])
    BY <1>1, LocalTypes
  <2> QED  BY <1>1, <1>2, <1>7, <1>8, <1>9, <2>1, EffectOf
<1>11. InStep(c)'
  BY <1>3, <1>7, <1>10 DEF InStep
<1>12. AtRequest(c)'
  BY <1>3, <1>4, <1>6, <1>7, <1>10, InvalidKeyCode DEF AtRequest
<1>13. Answered(c)'
  BY <1>1, <1>10 DEF Local, Answered
<1>14. Executed(c)'
  <2>1. /\ \A i \in DOMAIN executed[c] : executed[c][i] < id
        /\ \A i, j \in DOMAIN executed[c] : i < j => executed[c][i] < executed[c][j]
        /\ \A i \in DOMAIN executed[c] :
              /\ executed[c][i] \in DOMAIN sent[c]
              /\ 4 * executed[c][i] <= read[c]
              /\ Executable(sent[c][executed[c][i]])
    BY <1>1 DEF Local, Executed
  <2>2. \A i \in DOMAIN x : i \in DOMAIN executed[c] \/ i = Len(executed[c]) + 1
    BY <1>9
  <2>3. \A i, j \in DOMAIN x : i < j => i \in DOMAIN executed[c]
    BY <1>9
  <2>4. \A i, j \in DOMAIN x : i < j => x[i] < x[j]
    BY <1>9, <2>1, <2>2, <2>3
  <2>5. \A i \in DOMAIN x :
            x[i] \in DOMAIN sent[c] /\ 4 * x[i] <= read[c] /\ Executable(sent[c][x[i]])
    <3> TAKE i \in DOMAIN x
    <3>1. CASE i \in DOMAIN executed[c]
      BY <1>9, <2>1, <3>1
    <3>2. CASE x[i] = id
      BY <1>2, <1>3, <1>4, <3>2
    <3> QED  BY <1>9, <2>2, <3>1, <3>2
  <2> QED  BY <1>7, <1>10, <2>4, <2>5 DEF Executed
<1>15. client'[c] # "gone" => Counted(c)'
  BY <1>1, <1>7, <1>10 DEF Local, Counted, Running
<1> QED  BY <1>10, <1>11, <1>12, <1>13, <1>14, <1>15, OneStep DEF Local

LEMMA SendAnswerKeeps ==
    ASSUME Inductive, NEW c \in Clients, SendAnswer(c), UNCHANGED serverVars
    PROVE  Inductive'
<1> DEFINE id == conn[c].id
           e == [id |-> id, code |-> conn[c].code]
           a == Append(answers[c], e)
           t == [conn[c] EXCEPT !.pc = "select"]
<1>1. TypeOK /\ Local(c) /\ Running(c) /\ conn[c].pc \in {"send_response", "send_error"}
  BY DEF Inductive, Local, Running, SendAnswer
<1>2. conn[c] \in TaskState /\ id \in Nat /\ read[c] \in Nat /\ read[c] <= written[c]
  BY <1>1, LocalTypes DEF TaskState
<1>3. /\ id \in DOMAIN sent[c] /\ id # 0 /\ read[c] \in {4 * id - 2, 4 * id}
      /\ conn[c].code < to_rc("InvalidKey") <=> Executable(sent[c][id])
  <2>1. id # 0
    BY <1>1, LocalTypes DEF Local, AtRequest
  <2> QED  BY <1>1, <2>1 DEF Local, AtRequest, InStep
<1>4. t \in TaskState /\ t.pc = "select"
  BY <1>1, GotoTask
<1>5. Effect(c, read[c], t, a, executed[c])
  BY <1>1, SameAt DEF SendAnswer, Goto, Effect
<1>6. /\ a \in Seq([id : Nat, code : Nat]) /\ DOMAIN a = 1 .. Len(answers[c]) + 1
      /\ DOMAIN answers[c] = 1 .. Len(answers[c]) /\ Len(answers[c]) \in Nat
      /\ Len(a) = Len(answers[c]) + 1
      /\ \A i \in DOMAIN answers[c] : a[i] = answers[c][i]
      /\ a[Len(answers[c]) + 1] = e
  <2>1. answers[c] \in Seq([id : Nat, code : Nat])
    BY <1>1, LocalTypes
  <2>2. e \in [id : Nat, code : Nat]
    BY <1>2 DEF TaskState
  <2> QED  BY <2>1, <2>2, Appended
<1> HIDE DEF t, a
<1>7. /\ TypeOK' /\ \A d \in Clients \ {c} : Untouched(d)
      /\ read'[c] = read[c] /\ conn'[c] = t /\ answers'[c] = a /\ executed'[c] = executed[c]
      /\ client'[c] = client[c] /\ sent'[c] = sent[c]
      /\ Accepted(c)' <=> Accepted(c)
      /\ Running(c)' => Running(c)
  <2>1. executed[c] \in Seq(Nat)
    BY <1>1, LocalTypes
  <2> QED  BY <1>1, <1>2, <1>4, <1>5, <1>6, <2>1, EffectOf
<1>8. \A i \in DOMAIN a : i \in DOMAIN answers[c] \/ i = Len(answers[c]) + 1
  BY <1>6
<1>9. InStep(c)'
  <2>1. read[c] % 4 \in {0, 2}
    BY <1>2, <1>3
  <2> QED  BY <1>4, <1>7, <2>1 DEF InStep
<1>10. AtRequest(c)' /\ Executed(c)'
  BY <1>1, <1>4, <1>7 DEF Local, AtRequest, Executed
<1>11. Answered(c)'
  <2>1. \A i \in DOMAIN answers[c] : answers[c][i].id # 0 =>
            /\ answers[c][i].id \in DOMAIN sent[c]
            /\ answers[c][i].code < to_rc("InvalidKey") <=> Executable(sent[c][answers[c][i].id])
    BY <1>1 DEF Local, Answered
  <2>2. a[Len(answers[c]) + 1].id = id /\ a[Len(answers[c]) + 1].code = conn[c].code
    BY <1>6
  <2>3. \A i \in DOMAIN a : a[i].id # 0 =>
            /\ a[i].id \in DOMAIN sent[c]
            /\ a[i].code < to_rc("InvalidKey") <=> Executable(sent[c][a[i].id])
    <3> TAKE i \in DOMAIN a
    <3>1. CASE i \in DOMAIN answers[c]
      BY <1>6, <2>1, <3>1
    <3>2. CASE i = Len(answers[c]) + 1
      BY <1>3, <2>2, <3>2
    <3> QED  BY <1>8, <3>1, <3>2
  <2> QED  BY <1>7, <2>3 DEF Answered
<1>12. client'[c] # "gone" => Counted(c)'
  <2> HAVE client'[c] # "gone"
  <2>1. /\ Len(answers[c]) = id - 1 /\ Len(a) = id
        /\ \A i \in DOMAIN answers[c] : answers[c][i].id = i
        /\ \A i \in DOMAIN answers[c] : 4 * i <= read[c] + 2 \/ answers[c][i].id = 0
    BY <1>1, <1>2, <1>6, <1>7, SMTT(20) DEF Local, Counted
  <2>2. 4 * Len(a) \in {read[c], read[c] + 2} /\ 4 * Len(a) <= read[c] + 2
    BY <1>2, <1>3, <2>1
  <2>3. \A i \in DOMAIN a : a[i].id = i
    BY <1>6, <1>8, <2>1
  <2>4. \A i \in DOMAIN a : 4 * i <= read[c] + 2 \/ a[i].id = 0
    BY <1>6, <1>8, <2>1, <2>2
  <2> QED  BY <1>4, <1>7, <2>2, <2>3, <2>4 DEF Counted
<1> QED  BY <1>7, <1>9, <1>10, <1>11, <1>12, OneStep DEF Local

LEMMA SendFailsKeeps ==
    ASSUME Inductive, NEW c \in Clients, SendFails(c), UNCHANGED serverVars
    PROVE  Inductive'
<1> DEFINE pc == IF conn[c].pc = "send_response" THEN "select" ELSE "done"
           t == [conn[c] EXCEPT !.pc = pc]
<1>1. /\ TypeOK /\ Local(c) /\ Running(c) /\ client[c] = "gone"
      /\ conn[c].pc \in {"send_response", "send_error"}
  BY DEF Inductive, Local, Running, SendFails
<1>2. t \in TaskState /\ t.pc = pc
  BY <1>1, GotoTask, ZenonT(40)
<1>3. Effect(c, read[c], t, answers[c], executed[c])
  BY <1>1, SameAt DEF SendFails, Goto, Effect
<1>4. /\ TypeOK' /\ \A d \in Clients \ {c} : Untouched(d)
      /\ read'[c] = read[c] /\ conn'[c] = t /\ answers'[c] = answers[c] /\ executed'[c] = executed[c]
      /\ client'[c] = client[c] /\ sent'[c] = sent[c]
      /\ Accepted(c)' <=> Accepted(c)
      /\ Running(c)' => Running(c)
  <2>1. /\ answers[c] \in Seq([id : Nat, code : Nat]) /\ executed[c] \in Seq(Nat)
        /\ read[c] \in Nat /\ read[c] <= written[c] /\ t.pc # "none"
    BY <1>1, <1>2, LocalTypes
  <2> HIDE DEF t
  <2> QED  BY <1>1, <1>2, <1>3, <2>1, EffectOf
<1>5. InStep(c)'
  <2>1. conn[c].id \in Nat /\ read[c] \in Nat
    BY <1>1, LocalTypes DEF TaskState
  <2>2. conn[c].pc = "send_response" => read[c] = 4 * conn[c].id
    BY <1>1 DEF Local, InStep
  <2>3. conn[c].pc = "send_response" => read[c] % 4 = 0
    BY <2>1, <2>2
  <2> QED  BY <1>1, <1>2, <1>4, <2>3 DEF InStep
<1>6. AtRequest(c)' /\ Executed(c)' /\ Answered(c)'
  BY <1>1, <1>2, <1>4 DEF Local, AtRequest, Executed, Answered
<1> QED  BY <1>1, <1>4, <1>5, <1>6, OneStep DEF Local

LEMMA ConnStepKeeps ==
    ASSUME Inductive, NEW c \in Clients, ConnStep(c), UNCHANGED serverVars
    PROVE  Inductive'
BY RecvHeaderLenKeeps, CloseNotifyKeeps, ReadFailsKeeps, RecvHeadersKeeps, RecvPayloadLenKeeps,
   RecvPayloadKeeps, CallStorageEngineKeeps, SendAnswerKeeps, SendFailsKeeps
   DEF ConnStep, TimesOut, Cancelled

-----------------------------------------------------------------------------
(* The steps of the accept loop and the manager                             *)

(* They leave the connections alone, but for the one that is accepted.       *)
LEMMA ServerOneStep ==
    ASSUME Inductive, UNCHANGED connVars, TypeOK', OnTheWay'
    PROVE  Inductive'
<1>1. \A d \in Clients : Untouched(d)
  BY DEF connVars, Untouched
<1> QED  BY <1>1, UntouchedLocal DEF Inductive, Local

(* What no step of them changes about the connections.                       *)
LEMMA SameConnections ==
    ASSUME Inductive, UNCHANGED connVars
    PROVE  /\ \A c : (Accepted(c)' <=> Accepted(c)) /\ (Running(c)' <=> Running(c))
           /\ {c \in Clients : Accepted(c)}' = {c \in Clients : Accepted(c)}
           /\ handles' = handles => Unknown' = Unknown
BY DEF connVars, Accepted, Running, Unknown

LEMMA ServerFields ==
    ASSUME TypeOK, NEW pc
    PROVE  LET s == [server EXCEPT !.pc = pc] IN s.pc = pc /\ s.accepted = server.accepted
BY DEF TypeOK

LEMMA OnlyOne ==
    ASSUME NEW S, IsFiniteSet(S), Cardinality(S) <= 1, NEW e \in S
    PROVE  S = {e}
<1> SUFFICES ASSUME NEW f \in S, f # e
             PROVE  FALSE
  OBVIOUS
<1>1. /\ IsFiniteSet(S \ {e}) /\ Cardinality(S \ {e}) = Cardinality(S) - 1 /\ Cardinality(S) \in Nat
      /\ Cardinality(S \ {e}) \in Nat
  BY FS_RemoveElement, FS_CardinalityType
<1>2. Cardinality(S \ {e}) # 0
  BY <1>1, FS_EmptySet
<1> QED  BY <1>1, <1>2

LEMMA CancelKeeps ==
    ASSUME Inductive, Cancel
    PROVE  Inductive'
<1>1. UNCHANGED connVars
  BY DEF Cancel
<1>2. TypeOK'
  BY <1>1 DEF Inductive, TypeOK, Cancel, connVars, Accepted
<1>3. OnTheWay'
  BY <1>1, SameConnections DEF Inductive, OnTheWay, Cancel, InChannel
<1> QED  BY <1>1, <1>2, <1>3, ServerOneStep

LEMMA CheckCancelledKeeps ==
    ASSUME Inductive, CheckCancelled
    PROVE  Inductive'
<1>1. UNCHANGED connVars /\ UNCHANGED <<do_cancel, channel, manager, handles>>
  BY DEF CheckCancelled
<1>2. server'.pc = (IF do_cancel THEN "wait" ELSE "accept") /\ server'.accepted = server.accepted
  BY ServerFields DEF CheckCancelled, Inductive
<1>3. TypeOK'
  BY <1>1, <1>2 DEF Inductive, TypeOK, CheckCancelled, connVars, Accepted
<1>4. OnTheWay'
  <2>1. server.pc = "check"
    BY DEF CheckCancelled
  <2>2. InChannel' = InChannel
    BY <1>1 DEF InChannel
  <2> QED  BY <1>1, <1>2, <2>1, <2>2, SameConnections DEF Inductive, OnTheWay
<1> QED  BY <1>1, <1>3, <1>4, ServerOneStep

LEMMA AcceptFailsKeeps ==
    ASSUME Inductive, AcceptFails
    PROVE  Inductive'
<1>1. UNCHANGED connVars /\ UNCHANGED <<token, do_cancel, channel, manager, handles>>
  BY DEF AcceptFails
<1>2. server.pc = "accept" /\ server'.pc = "error" /\ server'.accepted = server.accepted
  BY ServerFields DEF AcceptFails, Inductive
<1>3. TypeOK'
  BY <1>1, <1>2 DEF Inductive, TypeOK, AcceptFails, connVars, Accepted
<1>4. OnTheWay'
  <2>1. InChannel' = InChannel
    BY <1>1 DEF InChannel
  <2> QED  BY <1>1, <1>2, <2>1, SameConnections DEF Inductive, OnTheWay
<1> QED  BY <1>1, <1>3, <1>4, ServerOneStep

LEMMA RunReturnsKeeps ==
    ASSUME Inductive, RunReturns
    PROVE  Inductive'
<1>1. UNCHANGED connVars /\ UNCHANGED <<token, do_cancel, channel, manager, handles>>
  BY DEF RunReturns
<1>2. /\ server.pc = "wait" /\ server'.pc = "returned" /\ server'.accepted = server.accepted
      /\ manager = "done"
  BY ServerFields DEF RunReturns, Inductive
<1>3. TypeOK'
  BY <1>1, <1>2 DEF Inductive, TypeOK, RunReturns, connVars, Accepted
<1>4. OnTheWay'
  <2>1. InChannel' = InChannel
    BY <1>1 DEF InChannel
  <2> QED  BY <1>1, <1>2, <2>1, SameConnections DEF Inductive, OnTheWay
<1> QED  BY <1>1, <1>3, <1>4, ServerOneStep

LEMMA SendStartSignalKeeps ==
    ASSUME Inductive, NEW c \in Clients, SendStartSignal(c)
    PROVE  Inductive'
<1>1. UNCHANGED connVars /\ UNCHANGED <<token, do_cancel, manager, handles>>
  BY DEF SendStartSignal
<1>2. server.pc = "send" /\ server'.pc = "check" /\ server'.accepted = {} /\ c \in server.accepted
  BY DEF SendStartSignal
<1>3. \/ manager = "done" /\ channel' = channel
      \/ manager # "done" /\ channel' = Append(channel, c) /\ Len(channel) < Capacity
  BY DEF SendStartSignal
<1>4. channel \in Seq(Clients) /\ Len(channel) \in Nat /\ Capacity \in Nat /\ Len(channel) <= Capacity
  BY ServerAssumption DEF Inductive, TypeOK
<1>5. /\ channel' \in Seq(Clients) /\ Len(channel') <= Capacity
      /\ InChannel \subseteq InChannel' /\ InChannel' \subseteq InChannel \cup {c}
      /\ manager # "done" => c \in InChannel'
  <2>1. CASE channel' = channel /\ manager = "done"
    BY <1>4, <2>1 DEF InChannel
  <2>2. CASE channel' = Append(channel, c) /\ Len(channel) < Capacity
    <3>1. /\ channel' \in Seq(Clients) /\ Len(channel') = Len(channel) + 1
          /\ DOMAIN channel = 1 .. Len(channel) /\ DOMAIN channel' = 1 .. Len(channel) + 1
          /\ \A i \in DOMAIN channel : i \in DOMAIN channel' /\ channel'[i] = channel[i]
          /\ channel'[Len(channel) + 1] = c
      BY <1>4, <2>2, Appended
    <3>2. \A i \in DOMAIN channel' : i \in DOMAIN channel \/ i = Len(channel) + 1
      BY <1>4, <3>1
    <3>3. Len(channel) + 1 \in DOMAIN channel'
      BY <1>4, <3>1
    <3> QED  BY <1>4, <2>2, <3>1, <3>2, <3>3 DEF InChannel
  <2> QED  BY <1>3, <2>1, <2>2
<1>6. server.accepted = {c}
  BY <1>2, OnlyOne DEF Inductive, OnTheWay
<1>7. TypeOK'
  BY <1>1, <1>5 DEF Inductive, TypeOK, SendStartSignal, connVars, Accepted
<1>8. OnTheWay'
  <2>1. Cardinality({}) <= 1 /\ IsFiniteSet({})
    BY FS_EmptySet
  <2> QED  BY <1>1, <1>2, <1>5, <1>6, <2>1, SameConnections DEF Inductive, OnTheWay
<1> QED  BY <1>1, <1>7, <1>8, ServerOneStep

(* A channel holds no more connections than it has places.                   *)
LEMMA ChannelHolds ==
    ASSUME channel \in Seq(Clients)
    PROVE  IsFiniteSet(InChannel) /\ Cardinality(InChannel) <= Len(channel)
           /\ Cardinality(InChannel) \in Nat /\ Len(channel) \in Nat
<1>1. channel \in Surjection(1 .. Len(channel), InChannel)
  BY DEF Surjection, InChannel
<1>2. Len(channel) \in Nat
  OBVIOUS
<1>3. IsFiniteSet(1 .. Len(channel)) /\ Cardinality(1 .. Len(channel)) = Len(channel)
  <2>1. ASSUME NEW n \in Nat PROVE IsFiniteSet(1 .. n) /\ Cardinality(1 .. n) = n
    BY FS_Interval
  <2> QED  BY <1>2, <2>1
<1>4. IsFiniteSet(InChannel) /\ Cardinality(InChannel) <= Cardinality(1 .. Len(channel))
  BY <1>1, <1>3, FS_Surjection
<1> QED  BY <1>2, <1>3, <1>4, FS_CardinalityType

(* What the manager overlooks when it stops receiving.                       *)
LEMMA Overlooked ==
    ASSUME Inductive, manager = "recv"
    PROVE  /\ IsFiniteSet(Unknown) /\ Cardinality(Unknown) <= Capacity + 1
           /\ server.pc = "accept" => Cardinality(Unknown) <= Capacity
<1>1. /\ channel \in Seq(Clients) /\ Len(channel) <= Capacity
      /\ Unknown \subseteq InChannel \cup server.accepted
      /\ IsFiniteSet(server.accepted) /\ Cardinality(server.accepted) <= 1
      /\ server.pc = "accept" => server.accepted = {}
      /\ Capacity \in Nat
  BY ServerAssumption DEF Inductive, TypeOK, OnTheWay
<1>2. /\ IsFiniteSet(InChannel) /\ Cardinality(InChannel) <= Len(channel)
      /\ Cardinality(InChannel) \in Nat /\ Len(channel) \in Nat
  BY <1>1, ChannelHolds
<1>3. /\ IsFiniteSet(InChannel \cup server.accepted)
      /\ Cardinality(InChannel \cup server.accepted)
            = Cardinality(InChannel) + Cardinality(server.accepted)
                 - Cardinality(InChannel \cap server.accepted)
  BY <1>1, <1>2, FS_Union
<1>4. IsFiniteSet(InChannel \cap server.accepted)
  BY <1>2, FS_Subset
<1>5. /\ Cardinality(InChannel \cap server.accepted) \in Nat /\ Cardinality(server.accepted) \in Nat
      /\ Cardinality(InChannel \cup server.accepted) \in Nat
  BY <1>1, <1>3, <1>4, FS_CardinalityType
<1>6. Cardinality(InChannel \cup server.accepted) <= Capacity + 1
  BY <1>1, <1>2, <1>3, <1>5
<1>7. IsFiniteSet(Unknown) /\ Cardinality(Unknown) <= Cardinality(InChannel \cup server.accepted)
  BY <1>1, <1>3, FS_Subset
<1>8. server.pc = "accept" => Cardinality(Unknown) <= Cardinality(InChannel)
  BY <1>1, <1>2, FS_Subset
<1>9. Cardinality(Unknown) \in Nat
  BY <1>7, FS_CardinalityType
<1> QED  BY <1>1, <1>2, <1>5, <1>6, <1>7, <1>8, <1>9

LEMMA ManagerReceivesKeeps ==
    ASSUME Inductive, ManagerReceives
    PROVE  Inductive'
<1>1. UNCHANGED connVars /\ UNCHANGED <<token, do_cancel, server>> /\ manager = "recv"
  BY DEF ManagerReceives
<1>2. channel \in Seq(Clients) /\ channel # <<>> /\ channel' = Tail(channel) /\ Len(channel) <= Capacity
  BY DEF ManagerReceives, Inductive, TypeOK
<1>3. /\ channel' \in Seq(Clients) /\ Len(channel') = Len(channel) - 1
      /\ Head(channel) \in Clients /\ Head(channel) \in InChannel
      /\ InChannel' \subseteq InChannel /\ InChannel \subseteq InChannel' \cup {Head(channel)}
  <2>1. /\ channel' \in Seq(Clients) /\ Len(channel') = Len(channel) - 1 /\ Len(channel) \in Nat
        /\ Head(channel) = channel[1] /\ Len(channel) >= 1
        /\ \A i \in 1 .. Len(channel') : channel'[i] = channel[i + 1]
        /\ DOMAIN channel = 1 .. Len(channel) /\ DOMAIN channel' = 1 .. Len(channel')
    BY <1>2
  <2>2. Head(channel) \in Clients /\ Head(channel) \in InChannel
    BY <1>2, <2>1 DEF InChannel
  <2>3. \A i \in DOMAIN channel' : i + 1 \in DOMAIN channel
    BY <2>1
  <2>4. \A i \in DOMAIN channel : i # 1 => i - 1 \in DOMAIN channel' /\ channel'[i - 1] = channel[i]
    BY <2>1
  <2> QED  BY <2>1, <2>2, <2>3, <2>4 DEF InChannel
<1>4. Len(channel') <= Capacity
  BY <1>2, <1>3, ServerAssumption
<1>5. \/ do_cancel /\ manager' = "await" /\ handles' = handles
      \/ ~do_cancel /\ manager' = "recv" /\ handles' = handles \cup {Head(channel)}
  BY DEF ManagerReceives
<1>6. TypeOK'
  BY <1>1, <1>3, <1>4, <1>5 DEF Inductive, TypeOK, connVars, Accepted
<1>7. OnTheWay'
  <2>1. CASE do_cancel /\ manager' = "await" /\ handles' = handles
    <3>1. IsFiniteSet(Unknown') /\ Cardinality(Unknown') <= Capacity + 1
          /\ (server.pc = "accept" => Cardinality(Unknown') <= Capacity)
      BY <1>1, <2>1, SameConnections, Overlooked
    <3> QED  BY <1>1, <1>3, <2>1, <3>1, SameConnections DEF Inductive, OnTheWay
  <2>2. CASE ~do_cancel /\ manager' = "recv" /\ handles' = handles \cup {Head(channel)}
    <3>1. Unknown' = Unknown \ {Head(channel)}
      BY <1>1, <2>2, SameConnections DEF Unknown
    <3> QED  BY <1>1, <1>3, <2>2, <3>1, SameConnections DEF Inductive, OnTheWay
  <2> QED  BY <1>5, <2>1, <2>2
<1> QED  BY <1>1, <1>6, <1>7, ServerOneStep

LEMMA ChannelClosesKeeps ==
    ASSUME Inductive, ChannelCloses
    PROVE  Inductive'
<1>1. /\ UNCHANGED connVars /\ UNCHANGED <<token, do_cancel, server, channel, handles>>
      /\ manager = "recv" /\ manager' = "await" /\ server.pc = "error"
  BY DEF ChannelCloses
<1>2. TypeOK'
  BY <1>1 DEF Inductive, TypeOK, connVars, Accepted
<1>3. OnTheWay'
  <2>1. IsFiniteSet(Unknown') /\ Cardinality(Unknown') <= Capacity + 1
    BY <1>1, SameConnections, Overlooked
  <2> QED  BY <1>1, <2>1, SameConnections DEF Inductive, OnTheWay, InChannel
<1> QED  BY <1>1, <1>2, <1>3, ServerOneStep

LEMMA ManagerEndsKeeps ==
    ASSUME Inductive, ManagerEnds
    PROVE  Inductive'
<1>1. /\ UNCHANGED connVars /\ UNCHANGED <<token, do_cancel, server, handles>>
      /\ manager = "await" /\ manager' = "done" /\ channel' = <<>>
      /\ \A c \in handles : ~Running(c)
  BY DEF ManagerEnds
<1>2. TypeOK'
  BY <1>1, ServerAssumption DEF Inductive, TypeOK, connVars, Accepted
<1>3. OnTheWay'
  <2>1. InChannel' = {}
    BY <1>1 DEF InChannel
  <2> QED  BY <1>1, <2>1, SameConnections DEF Inductive, OnTheWay
<1> QED  BY <1>1, <1>2, <1>3, ServerOneStep

LEMMA AcceptKeeps ==
    ASSUME Inductive, NEW c \in Clients, Accept(c)
    PROVE  Inductive'
<1> DEFINE t == [conn[c] EXCEPT !.pc = "select"]
<1>1. /\ UNCHANGED <<sent, written, read, answers, executed, token, do_cancel, channel, manager, handles>>
      /\ server.pc = "accept" /\ client[c] = "connecting"
      /\ server' = [pc |-> "send", accepted |-> {c}]
      /\ client' = [client EXCEPT ![c] = "open"] /\ conn' = [conn EXCEPT ![c] = t]
  BY DEF Accept
<1>2. TypeOK /\ OnTheWay /\ Local(c)
  BY DEF Inductive, Local
<1>3. ~Accepted(c) /\ conn[c].pc = "none" /\ read[c] = 0 /\ Len(answers[c]) = 0
  <2>1. ~Accepted(c)
    BY <1>1, <1>2, LocalTypes
  <2> QED  BY <1>1, <1>2, <2>1 DEF Accepted, Local, InStep, Counted
<1>4. t \in TaskState /\ t.pc = "select"
  BY <1>2, GotoTask
<1>5. /\ conn'[c] = t /\ client'[c] = "open"
      /\ conn' \in [Clients -> TaskState]
      /\ client' \in [Clients -> {"new", "connecting", "open", "gone"}]
  BY <1>1, <1>2, <1>4 DEF TypeOK
<1>6. \A d \in Clients \ {c} : Untouched(d)
  BY <1>1, <1>2 DEF Untouched, TypeOK
<1>7. /\ Accepted(c)'
      /\ \A d \in Clients \ {c} : (Accepted(d)' <=> Accepted(d)) /\ (Running(d)' <=> Running(d))
  BY <1>4, <1>5, <1>6 DEF Accepted, Running, Untouched
<1>8. TypeOK'
  <2>1. \A d \in Clients : Accepted(d)' <=> client'[d] \in {"open", "gone"}
    BY <1>2, <1>5, <1>6, <1>7, LocalTypes DEF Untouched
  <2> QED  BY <1>1, <1>2, <1>5, <2>1 DEF TypeOK
<1>9. Local(c)'
  <2>1. DOMAIN answers[c] = {}
    BY <1>2, <1>3, LocalTypes
  <2>2. InStep(c)' /\ AtRequest(c)' /\ Answered(c)' /\ Counted(c)'
    BY <1>1, <1>3, <1>4, <1>5, <2>1 DEF InStep, AtRequest, Answered, Counted
  <2>3. Executed(c)'
    BY <1>1, <1>2, <1>4, <1>5 DEF Local, Executed
  <2> QED  BY <2>2, <2>3 DEF Local
<1>10. OnTheWay'
  <2>1. /\ server'.pc = "send" /\ server'.accepted = {c} /\ server.accepted = {}
        /\ InChannel' = InChannel
    BY <1>1, <1>2 DEF OnTheWay, InChannel
  <2>2. c \notin handles
    BY <1>2, <1>3 DEF OnTheWay
  <2>3. Unknown' = Unknown \cup {c}
    BY <1>1, <1>2, <1>7, <2>2 DEF Unknown, TypeOK
  <2>4. Cardinality({c}) <= 1 /\ IsFiniteSet({c})
    <3>1. IsFiniteSet({c}) /\ Cardinality({c}) = 1
      BY FS_Singleton
    <3> QED  BY <3>1
  <2>5. ASSUME manager # "recv"
        PROVE  IsFiniteSet(Unknown') /\ Cardinality(Unknown') <= Capacity + 1
    <3>1. IsFiniteSet(Unknown) /\ Cardinality(Unknown) <= Capacity /\ Cardinality(Unknown) \in Nat
      BY <1>1, <1>2, <2>5, FS_CardinalityType DEF OnTheWay
    <3>2. /\ IsFiniteSet(Unknown \cup {c})
          /\ \/ Cardinality(Unknown \cup {c}) = Cardinality(Unknown)
             \/ Cardinality(Unknown \cup {c}) = Cardinality(Unknown) + 1
      BY <3>1, FS_AddElement
    <3>3. Capacity \in Nat
      BY ServerAssumption
    <3> QED  BY <2>3, <3>1, <3>2, <3>3
  <2>6. \A d \in handles \cup {c} \cup InChannel : Accepted(d)'
    <3>1. handles \subseteq Clients /\ InChannel \subseteq Clients
      <4>1. channel \in Seq(Clients) /\ handles \subseteq Clients
        BY <1>2 DEF TypeOK
      <4>2. \A i \in DOMAIN channel : channel[i] \in Clients
        BY <4>1
      <4> QED  BY <4>1, <4>2 DEF InChannel
    <3> QED  BY <1>2, <1>7, <3>1 DEF OnTheWay
  <2>7. manager = "done" => \A d \in handles : ~Running(d)'
    BY <1>2, <1>7, <2>2 DEF OnTheWay, TypeOK
  <2> QED  BY <1>1, <1>2, <2>1, <2>3, <2>4, <2>5, <2>6, <2>7 DEF OnTheWay
<1> QED  BY <1>2, <1>6, <1>8, <1>9, <1>10, UntouchedLocal DEF Inductive, Local

-----------------------------------------------------------------------------
LEMMA InitInductive == Init => Inductive
<1> SUFFICES ASSUME Init
             PROVE  Inductive
  OBVIOUS
<1> USE DEF Init, ConnInit
<1>1. \A c \in Clients : /\ client[c] = "new" /\ sent[c] = <<>> /\ written[c] = 0 /\ read[c] = 0
                         /\ conn[c].pc = "none" /\ answers[c] = <<>> /\ executed[c] = <<>>
  BY DEF NoTask
<1>2. \A c \in Clients : ~Accepted(c)
  BY <1>1 DEF Accepted
<1>3. TypeOK
  <2>1. NoTask \in TaskState
    BY DEF NoTask, TaskState, TypeBytes, RequestTypes
  <2>2. conn \in [Clients -> TaskState]
    BY <2>1
  <2>3. /\ <<>> \in Seq(TcpRequests) /\ <<>> \in Seq([id : Nat, code : Nat]) /\ <<>> \in Seq(Nat)
        /\ <<>> \in Seq(Clients) /\ Len(<<>>) = 0
    OBVIOUS
  <2>4. /\ server \in [pc : {"check", "accept", "send", "wait", "error", "returned"},
                       accepted : SUBSET Clients]
        /\ channel \in Seq(Clients) /\ Len(channel) <= Capacity
    BY <2>3, ServerAssumption
  <2>5. \A c \in Clients :
            /\ read[c] <= written[c] /\ written[c] <= 4 * Len(sent[c])
            /\ Accepted(c) <=> client[c] \in {"open", "gone"}
    BY <1>1, <1>2, <2>3
  <2> QED  BY <2>2, <2>3, <2>4, <2>5 DEF TypeOK
<1>4. OnTheWay
  BY <1>2, FS_EmptySet DEF OnTheWay, Unknown, InChannel
<1>5. \A c \in Clients : Local(c)
  BY <1>1 DEF Local, InStep, AtRequest, Answered, Executed, Counted
<1> QED  BY <1>3, <1>4, <1>5, InductiveLocal

LEMMA NextInductive == Inductive /\ [Next]_vars => Inductive'
<1> SUFFICES ASSUME Inductive, [Next]_vars
             PROVE  Inductive'
  OBVIOUS
<1>1. CASE \E c \in Clients : (ClientStep(c) \/ ConnStep(c)) /\ UNCHANGED serverVars
  BY <1>1, ClientStepKeeps, ConnStepKeeps
<1>2. CASE Cancel \/ AcceptFails
  BY <1>2, CancelKeeps, AcceptFailsKeeps
<1>3. CASE ServerStep
  BY <1>3, CheckCancelledKeeps, RunReturnsKeeps, AcceptKeeps, SendStartSignalKeeps DEF ServerStep
<1>4. CASE ManagerStep
  BY <1>4, ManagerReceivesKeeps, ChannelClosesKeeps, ManagerEndsKeeps DEF ManagerStep
<1>5. CASE UNCHANGED vars
  <2>1. UNCHANGED connVars /\ UNCHANGED serverVars /\ token' = token
    BY <1>5 DEF vars
  <2>2. UNCHANGED <<do_cancel, server, channel, manager, handles>>
    BY <2>1 DEF serverVars
  <2>3. TypeOK'
    BY <2>1, <2>2 DEF Inductive, TypeOK, connVars, Accepted
  <2>4. OnTheWay'
    BY <2>1, <2>2, SameConnections DEF Inductive, OnTheWay, InChannel
  <2> QED  BY <2>1, <2>3, <2>4, ServerOneStep
<1> QED  BY <1>1, <1>2, <1>3, <1>4, <1>5 DEF Next

(* The inductive invariant of the server and its connections.                *)
THEOREM ServerInductive == Spec => []Inductive
<1> QED  BY InitInductive, NextInductive, PTL DEF Spec

(* Every variable keeps its type; above all, the channel to the manager never *)
(* holds more than its capacity, and a task never reads beyond what its       *)
(* client has written.                                                       *)
THEOREM ServerTypes == Spec => []TypeOK
<1>1. Inductive => TypeOK
  BY DEF Inductive
<1> QED  BY <1>1, ServerInductive, PTL

(* A response's code is that of the request it answers: 0 or an error of the  *)
(* engine exactly if both parsers accept the request, whatever was sent.      *)
THEOREM AnswersAlwaysMatch == Spec => []AnswersMatch
<1>1. Inductive => AnswersMatch
  BY DEF Inductive, Answered, AnswersMatch
<1> QED  BY <1>1, ServerInductive, PTL

(* The responses come in the order of the requests, one for each, although    *)
(* refused headers leave their payload in the stream.                         *)
THEOREM AnswersAlwaysInOrder == Spec => []AnswersInOrder
<1>1. Inductive => AnswersInOrder
  <2> SUFFICES ASSUME Inductive, NEW c \in Clients, client[c] = "open", NEW i \in DOMAIN answers[c]
               PROVE  \/ answers[c][i].id = i /\ 4 * i <= read[c] + 2
                      \/ answers[c][i].id = 0 /\ i = Len(answers[c]) /\ ~Running(c)
    BY DEF AnswersInOrder
  <2>1. Counted(c) /\ i \in 1 .. Len(answers[c])
    BY LocalTypes DEF Inductive
  <2> QED  BY <2>1 DEF Counted
<1> QED  BY <1>1, ServerInductive, PTL

(* A request is executed once, after those before it, and only when it has    *)
(* been read to its end and both parsers accept it.                           *)
THEOREM RequestsExecutedOnce == Spec => []ExecutedOnce
<1>1. Inductive => ExecutedOnce
  BY DEF Inductive, Executed, ExecutedOnce
<1> QED  BY <1>1, ServerInductive, PTL

(* run returns only when every connection that the manager knows is over, and *)
(* the manager overlooks at most as many as fill the channel, and one.        *)
THEOREM RunAlwaysWaits == Spec => []RunWaits
<1>1. Inductive => RunWaits
  BY DEF Inductive, OnTheWay, RunWaits, Unknown
<1> QED  BY <1>1, ServerInductive, PTL
=============================================================================
