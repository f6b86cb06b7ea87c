-------------------------- MODULE CrosEcLpcProofs --------------------------
(***************************************************************************)
(* CrosEcLpc for any set of processes, any number of commands, any of the  *)
(* protocols and any set of faults.                                        *)
(***************************************************************************)
EXTENDS CrosEcLpc, TLAPS

(* Where a process has the EC lock; a process that failed to detect the EC *)
(* has it outside, too.                                                    *)
Inside == PCs \ {"idle", "lock"}

LockInv ==
  \A p \in Procs :
    /\ is_held[p] <=> holder = p
    /\ pc[p] \in Inside => is_held[p]
    /\ pc[p] = "detect" => ~raw[p]
    /\ is_held[p] /\ pc[p] \in {"idle", "lock"} => ~raw[p]
    /\ is_held[p] /\ pc[p] = "idle" => rc[p] = -1

(* A process asks in its own name.                                         *)
RequestInv ==
  \A p \in Procs : request[p].kind = "request" /\ request[p].of[1] = p

(* Protocols 0 and 1: the window is written while the EC is not busy, and  *)
(* the command byte is for what is in the window.                          *)
MailInv ==
  protocol # 3 =>
    /\ \A p \in Procs :
         /\ pc[p] \in {"body", "header", "command"} => ~Busy
         /\ pc[p] = "command" => window.body = request[p]
         /\ pc[p] = "header" => window.body = request[p]
    /\ from_host =>
         /\ ec = Nothing
         /\ window.body = cmd_byte
         /\ cmd_byte # Stray
    /\ ec # Stray

(* The processes whose command met an EC that was not busy.                *)
Undisturbed(p) == protocol # 3 \/ ~disturbed[p]

Asked(p) ==
  /\ window.body = request[p]
  /\ protocol # 0 => window.header = request[p]

Answered(p) ==
  /\ window.body.kind = "answer"
  /\ window.body.of = request[p].of
  /\ window.header = window.body

(* How far the exchange between such a process and the EC is.              *)
Exchange(p) ==
  /\ pc[p] \in {"body", "header", "command"} => ~Busy
  /\ pc[p] = "header" => window.body = request[p]
  /\ pc[p] = "command" => Asked(p)
  /\ pc[p] = "response" =>
       \/ /\ from_host /\ ec = Nothing /\ Asked(p)
          /\ protocol # 3 => cmd_byte = request[p]
       \/ ~from_host /\ ec = request[p]
       \/ ~Busy /\ (result = 0 => Answered(p))
  /\ pc[p] = "result" => ~Busy /\ (result = 0 => Answered(p))
  /\ pc[p] \in {"rsp_header", "rsp_body"} => ~Busy /\ Answered(p)

Own(p) ==
  /\ rc[p] # NoRc => pc[p] = "idle"
  /\ Undisturbed(p) =>
       /\ Exchange(p)
       /\ rc[p] = 0 =>
            answer[p].kind = "answer" /\ answer[p].of = request[p].of

OwnInv == \A p \in Procs : Own(p)

(* The conjunction the proofs are by induction on.                         *)
EcInv == TypeOK /\ LockInv /\ RequestInv /\ MailInv /\ OwnInv
-----------------------------------------------------------------------------
(* What is made of messages are messages.                                  *)
LEMMA MessageType ==
  /\ Nothing \in Messages /\ Stray \in Messages
  /\ \A p \in Procs, n \in 0 .. MaxRequests + 1, e \in BOOLEAN :
       /\ Message("request", p, n, e) \in Messages
       /\ Message("request", p, n, e).kind = "request"
       /\ Message("request", p, n, e).of = <<p, n>>
  /\ \A m \in Messages, e \in BOOLEAN :
       [m EXCEPT !.kind = "answer", !.empty = e] \in Messages
  <1>1. NoProc \in Procs \cup {NoProc} /\ 0 \in 0 .. MaxRequests + 1
        /\ 1 \in 0 .. MaxRequests + 1
    BY CrosEcLpcAssumption
  <1>2. Nothing \in Messages
    BY <1>1 DEF Nothing, Message, Messages
  <1>3. Stray \in Messages
    BY <1>1 DEF Stray, Message, Messages
  <1>4. ASSUME NEW p \in Procs, NEW n \in 0 .. MaxRequests + 1,
               NEW e \in BOOLEAN
        PROVE  /\ Message("request", p, n, e) \in Messages
               /\ Message("request", p, n, e).kind = "request"
               /\ Message("request", p, n, e).of = <<p, n>>
    <2>1. Message("request", p, n, e) \in Messages
      BY DEF Message, Messages
    <2>2. QED
      BY <2>1 DEF Message
  <1>5. ASSUME NEW m \in Messages, NEW e \in BOOLEAN
        PROVE  [m EXCEPT !.kind = "answer", !.empty = e] \in Messages
    BY Zenon DEF Messages
  <1>6. QED
    BY <1>2, <1>3, <1>4, <1>5

LEMMA RequestNumber ==
  ASSUME NEW m \in Messages, m.of[2] < MaxRequests
  PROVE  m.of[2] + 1 \in 0 .. MaxRequests + 1
  BY CrosEcLpcAssumption DEF Messages

(* Every variable keeps its type under every step.                         *)
LEMMA TypeStep == TypeOK /\ [Next]_vars => TypeOK'
  <1> SUFFICES ASSUME TypeOK, [Next]_vars PROVE TypeOK'
    OBVIOUS
  <1> USE DEF TypeOK, PCs, NoRc, Goto, Returns, Begin, Busy, ecVars, lockVars,
        hostVars
  <1>0. Nothing \in Messages
    BY MessageType
  <1>1. CASE UNCHANGED vars
    BY <1>1 DEF vars
  <1>2. ASSUME NEW p \in Procs, NEW empty \in BOOLEAN, Start(p, empty)
        PROVE  TypeOK'
    <2>1. request[p].of[2] + 1 \in 0 .. MaxRequests + 1
      BY <1>2, RequestNumber DEF Start
    <2>2. Message("request", p, request[p].of[2] + 1, empty) \in Messages
      BY <2>1, MessageType
    <2>3. request' \in [Procs -> Messages]
      BY <1>2, <2>2 DEF Start
    <2>4. answer' \in [Procs -> Messages]
      BY <1>0, <1>2 DEF Start
    <2>5. QED
      BY <1>2, <2>3, <2>4 DEF Start
  <1>3. ASSUME NEW p \in Procs, HostStep(p) PROVE TypeOK'
    <2>1. CASE Acquire(p)
      BY <2>1 DEF Acquire
    <2>2. CASE AcquireFails(p)
      BY <2>2 DEF AcquireFails
    <2>3. CASE Detect(p)
      BY <2>3 DEF Detect
    <2>4. CASE Ready(p) \/ Response(p)
      BY <2>4 DEF Ready, Response
    <2>5. CASE WriteBody(p)
      <3>1. window' \in [header : Messages, body : Messages]
        BY <2>5 DEF WriteBody
      <3>2. QED
        BY <2>5, <3>1 DEF WriteBody
    <2>6. CASE WriteHeader(p)
      <3>1. window' \in [header : Messages, body : Messages]
        BY <2>6 DEF WriteHeader
      <3>2. QED
        BY <2>6, <3>1 DEF WriteHeader
    <2>7. CASE WriteCommand(p)
      <3>1. cmd_byte' \in Messages
        BY <1>0, <2>7 DEF WriteCommand
      <3>2. QED
        BY <2>7, <3>1 DEF WriteCommand
    <2>8. CASE WaitTimesOut(p)
      BY <2>8 DEF WaitTimesOut
    <2>9. CASE ReadResult(p)
      BY <2>9 DEF ReadResult
    <2>10. CASE ReadHeader(p)
      BY <2>10 DEF ReadHeader
    <2>11. CASE ReadBody(p)
      BY <2>11 DEF ReadBody
    <2>12. QED
      BY <1>3, <2>1, <2>2, <2>3, <2>4, <2>5, <2>6, <2>7, <2>8, <2>9, <2>10,
         <2>11 DEF HostStep
  <1>4. ASSUME NEW p \in Procs, DetectFails(p) \/ IoFails(p) PROVE TypeOK'
    BY <1>4 DEF DetectFails, IoFails
  <1>5. ASSUME NEW p \in Procs, Dies(p) PROVE TypeOK'
    BY <1>0, <1>5 DEF Dies
  <1>6. CASE EcTakes
    <2>1. Understood \in Messages
      BY <1>0, MessageType, CrosEcLpcAssumption DEF Understood
    <2>2. QED
      BY <1>6, <2>1 DEF EcTakes
  <1>7. CASE EcFinishes
    <2>1. PICK r \in {0, 1} :
            LET reply == [ec EXCEPT !.kind = "answer",
                                    !.empty = ec.empty \/ r # 0]
            IN  /\ result' = r
                /\ window' = IF r = 0 \/ protocol = 3
                               THEN [header |-> reply, body |-> reply]
                               ELSE window
      BY <1>7 DEF EcFinishes
    <2>2. (ec.empty \/ r # 0) \in BOOLEAN
      OBVIOUS
    <2>3. [ec EXCEPT !.kind = "answer", !.empty = ec.empty \/ r # 0]
            \in Messages
      BY <2>2, MessageType
    <2>4. window' \in [header : Messages, body : Messages]
      BY <2>1, <2>3
    <2>5. QED
      BY <1>0, <1>7, <2>1, <2>4 DEF EcFinishes
  <1>8. QED
    BY <1>1, <1>2, <1>3, <1>4, <1>5, <1>6, <1>7 DEF Next

(* The EC lock follows the program counter of one process.                 *)
LEMMA LockStep == TypeOK /\ LockInv /\ [Next]_vars => LockInv'
  <1> SUFFICES ASSUME TypeOK, LockInv, [Next]_vars PROVE LockInv'
    OBVIOUS
  <1> USE CrosEcLpcAssumption DEF TypeOK, LockInv, Inside, PCs, NoRc, Goto,
        Returns, Begin, Busy, ecVars, lockVars, hostVars
  <1>1. CASE UNCHANGED vars
    BY <1>1 DEF vars
  <1>2. ASSUME NEW p \in Procs, NEW empty \in BOOLEAN, Start(p, empty)
        PROVE  LockInv'
    BY <1>2 DEF Start
  <1>3. ASSUME NEW p \in Procs, HostStep(p) PROVE LockInv'
    <2>1. CASE Acquire(p)
      BY <2>1 DEF Acquire
    <2>2. CASE AcquireFails(p)
      BY <2>2 DEF AcquireFails
    <2>3. CASE Detect(p)
      BY <2>3 DEF Detect
    <2>4. CASE Ready(p) \/ Response(p) \/ WriteBody(p) \/ WriteHeader(p)
               \/ WriteCommand(p)
      BY <2>4 DEF Ready, Response, WriteBody, WriteHeader, WriteCommand
    <2>5. CASE WaitTimesOut(p)
      BY <2>5 DEF WaitTimesOut
    <2>6. CASE ReadResult(p)
      BY <2>6 DEF ReadResult
    <2>7. CASE ReadHeader(p)
      BY <2>7 DEF ReadHeader
    <2>8. CASE ReadBody(p)
      BY <2>8 DEF ReadBody
    <2>9. QED
      BY <1>3, <2>1, <2>2, <2>3, <2>4, <2>5, <2>6, <2>7, <2>8 DEF HostStep
  <1>4. ASSUME NEW p \in Procs, DetectFails(p) PROVE LockInv'
    BY <1>4 DEF DetectFails
  <1>5. ASSUME NEW p \in Procs, IoFails(p) PROVE LockInv'
    BY <1>5 DEF IoFails
  <1>6. ASSUME NEW p \in Procs, Dies(p) PROVE LockInv'
    BY <1>6 DEF Dies
  <1>7. CASE EcTakes \/ EcFinishes
    <2>1. UNCHANGED <<lockVars, pc, hostVars>>
      BY <1>7 DEF EcTakes, EcFinishes
    <2>2. QED
      BY <2>1
  <1>8. QED
    BY <1>1, <1>2, <1>3, <1>4, <1>5, <1>6, <1>7 DEF Next

(* Only Start() makes a request.                                           *)
LEMMA RequestKept ==
  ASSUME NEW p \in Procs,
         \/ HostStep(p) \/ DetectFails(p) \/ IoFails(p) \/ Dies(p)
         \/ EcTakes \/ EcFinishes
  PROVE  UNCHANGED <<protocol, request>>
  BY DEF HostStep, Acquire, AcquireFails, Detect, DetectFails, Ready,
     WriteBody, WriteHeader, WriteCommand, Response, WaitTimesOut, ReadResult,
     ReadHeader, ReadBody, IoFails, Dies, EcTakes, EcFinishes, Returns, Begin,
     ecVars, lockVars, hostVars

LEMMA RequestStep == TypeOK /\ RequestInv /\ [Next]_vars => RequestInv'
  <1> SUFFICES ASSUME TypeOK, RequestInv, [Next]_vars PROVE RequestInv'
    OBVIOUS
  <1>1. ASSUME NEW p \in Procs, NEW empty \in BOOLEAN, Start(p, empty)
        PROVE  RequestInv'
    <2>1. request[p].of[2] + 1 \in 0 .. MaxRequests + 1
      BY <1>1, RequestNumber DEF Start, TypeOK
    <2>2. /\ request'[p].kind = "request"
          /\ request'[p].of[1] = p
      <3>1. request'[p] = Message("request", p, request[p].of[2] + 1, empty)
        BY <1>1 DEF Start, TypeOK
      <3> DEFINE n == request[p].of[2] + 1
      <3>2. /\ Message("request", p, n, empty).kind = "request"
            /\ Message("request", p, n, empty).of = <<p, n>>
        BY <2>1, MessageType, Zenon
      <3>3. QED
        BY <3>1, <3>2
    <2>3. \A q \in Procs \ {p} : request'[q] = request[q]
      BY <1>1 DEF Start, TypeOK
    <2>4. QED
      BY <2>2, <2>3 DEF RequestInv
  <1>2. CASE UNCHANGED request
    BY <1>2 DEF RequestInv
  <1>3. CASE UNCHANGED vars
    BY <1>2, <1>3 DEF vars
  <1>4. CASE Next
    <2>1. \/ \E p \in Procs, e \in BOOLEAN : Start(p, e)
          \/ \E p \in Procs : HostStep(p) \/ DetectFails(p) \/ IoFails(p)
                               \/ Dies(p)
          \/ EcTakes \/ EcFinishes
      BY <1>4 DEF Next
    <2>2. CASE EcTakes \/ EcFinishes
      BY <1>2, <2>2 DEF EcTakes, EcFinishes, hostVars
    <2>3. QED
      BY <1>1, <1>2, <2>1, <2>2, RequestKept
  <1>5. QED
    BY <1>3, <1>4
-----------------------------------------------------------------------------
(* What a process does to its own variables, the mailbox left alone.       *)
LEMMA QuietStep ==
  ASSUME TypeOK, MailInv, NEW p \in Procs, NEW l, Goto(p, l),
         UNCHANGED <<protocol, window, from_host, ec, cmd_byte, request>>,
         protocol # 3 => l \notin {"header", "command"},
         protocol # 3 /\ l = "body" => ~Busy
  PROVE  MailInv'
  BY DEF MailInv, TypeOK, Goto, Busy

(* The mailbox of protocols 0 and 1 is in order.                           *)
LEMMA MailStep ==
  TypeOK /\ LockInv /\ RequestInv /\ MailInv /\ [Next]_vars => MailInv'
  <1> SUFFICES ASSUME TypeOK, LockInv, RequestInv, MailInv, [Next]_vars
               PROVE  MailInv'
    OBVIOUS
  <1> USE DEF Begin, Returns, ecVars, lockVars, hostVars
  <1>0. ASSUME NEW p \in Procs PROVE request[p] # Stray
    BY CrosEcLpcAssumption DEF RequestInv, Stray, Message
  <1>1. CASE UNCHANGED vars
    BY <1>1 DEF vars, MailInv, Busy
  <1>2. ASSUME NEW p \in Procs, NEW empty \in BOOLEAN, Start(p, empty)
        PROVE  MailInv'
    BY <1>2 DEF Start, MailInv, TypeOK, Goto, Busy
  <1>3. ASSUME NEW p \in Procs, HostStep(p) PROVE MailInv'
    <2>1. CASE Acquire(p)
      BY <2>1, QuietStep DEF Acquire
    <2>2. CASE AcquireFails(p)
      BY <2>2, QuietStep DEF AcquireFails
    <2>3. CASE Detect(p)
      BY <2>3, QuietStep DEF Detect
    <2>4. CASE Ready(p)
      BY <2>4, QuietStep DEF Ready
    <2>5. CASE Response(p)
      BY <2>5, QuietStep DEF Response
    <2>6. CASE WriteBody(p)
      <3>1. \A q \in Procs \ {p} : pc[q] \notin Inside
        BY <2>6 DEF WriteBody, LockInv, Inside, PCs
      <3>2. QED
        BY <2>6, <3>1 DEF WriteBody, MailInv, TypeOK, Goto, Busy, Inside, PCs
    <2>7. CASE WriteHeader(p)
      BY <2>7 DEF WriteHeader, MailInv, TypeOK, Goto, Busy
    <2>8. CASE WriteCommand(p)
      <3>1. \A q \in Procs \ {p} : pc[q] \notin Inside
        BY <2>8 DEF WriteCommand, LockInv, Inside, PCs
      <3>2. request[p] # Stray
        BY <1>0
      <3>3. QED
        BY <2>8, <3>1, <3>2
           DEF WriteCommand, MailInv, TypeOK, Goto, Busy, Inside, PCs
    <2>9. CASE WaitTimesOut(p)
      BY <2>9, QuietStep DEF WaitTimesOut
    <2>10. CASE ReadResult(p)
      BY <2>10, QuietStep DEF ReadResult
    <2>11. CASE ReadHeader(p)
      BY <2>11, QuietStep DEF ReadHeader
    <2>12. CASE ReadBody(p)
      BY <2>12, QuietStep DEF ReadBody
    <2>13. QED
      BY <1>3, <2>1, <2>2, <2>3, <2>4, <2>5, <2>6, <2>7, <2>8, <2>9, <2>10,
         <2>11, <2>12 DEF HostStep
  <1>4. ASSUME NEW p \in Procs, DetectFails(p) \/ IoFails(p) \/ Dies(p)
        PROVE  MailInv'
    <2>1. Goto(p, "idle")
      BY <1>4 DEF DetectFails, IoFails, Dies
    <2>2. UNCHANGED <<protocol, window, from_host, ec, cmd_byte, request>>
      BY <1>4 DEF DetectFails, IoFails, Dies
    <2>3. QED
      BY <2>1, <2>2, QuietStep
  <1>5. CASE EcTakes
    <2>1. protocol \in {0, 1, 3}
      BY CrosEcLpcAssumption DEF TypeOK
    <2>2. protocol # 3 => Understood # Stray
      <3>1. Nothing # Stray
        BY DEF Nothing, Stray, Message
      <3>2. QED
        BY <1>5, <2>1, <3>1 DEF EcTakes, MailInv, Understood
    <2>3. QED
      BY <1>5, <2>2 DEF EcTakes, MailInv, Busy
  <1>6. CASE EcFinishes
    <2>1. Nothing # Stray
      BY DEF Nothing, Stray, Message
    <2>2. QED
      BY <1>6, <2>1 DEF EcFinishes, MailInv, Busy
  <1>7. QED
    BY <1>1, <1>2, <1>3, <1>4, <1>5, <1>6 DEF Next
-----------------------------------------------------------------------------
(* A process is not concerned by what others do outside of its command.    *)
LEMMA OwnOthers ==
  ASSUME NEW q \in Procs, Own(q),
         UNCHANGED <<protocol, pc[q], rc[q], answer[q], request[q],
                     disturbed[q]>>,
         \/ UNCHANGED <<window, from_host, ec, result, cmd_byte>>
         \/ pc[q] \notin Inside
  PROVE  Own(q)'
  BY DEF Own, Undisturbed, Exchange, Asked, Answered, Busy, Inside, PCs

(* A step of p that leaves the mailbox alone, or that p makes inside.      *)
LEMMA OwnFrame ==
  ASSUME TypeOK, LockInv, OwnInv, NEW p \in Procs,
         \A q \in Procs \ {p} :
           UNCHANGED <<pc[q], rc[q], answer[q], request[q], disturbed[q]>>,
         UNCHANGED protocol,
         \/ UNCHANGED <<window, from_host, ec, result, cmd_byte>>
         \/ pc[p] \in Inside,
         Own(p)'
  PROVE  OwnInv'
  <1>1. ASSUME NEW q \in Procs \ {p} PROVE Own(q)'
    <2>1. pc[p] \in Inside => pc[q] \notin Inside
      BY DEF LockInv
    <2>2. QED
      BY <2>1, OwnOthers DEF OwnInv
  <1>2. QED
    BY <1>1 DEF OwnInv

(* Any end of a command other than with a result of 0.                     *)
LEMMA OwnEnds ==
  ASSUME NEW p \in Procs, pc'[p] = "idle", rc'[p] # 0
  PROVE  Own(p)'
  BY DEF Own, Undisturbed, Exchange

(* How a process moves its own exchange forward.                           *)
LEMMA HostOwnStep ==
  ASSUME TypeOK, LockInv, RequestInv, OwnInv, NEW p \in Procs, HostStep(p)
  PROVE  Own(p)'
  <1> USE DEF TypeOK, NoRc, Goto, Begin, ecVars, lockVars, hostVars
  <1>0. Own(p) /\ request[p] # Nothing
    BY DEF OwnInv, RequestInv, Nothing, Message
  <1>1. CASE Acquire(p)
    <2>1. rc'[p] = NoRc
      BY <1>0, <1>1 DEF Acquire, Own
    <2>2. pc'[p] \in {"detect", "ready"} \/ pc'[p] = "body"
      BY <1>1 DEF Acquire
    <2>3. pc'[p] = "body" => protocol' = 3 /\ (~disturbed'[p] => ~Busy')
      BY <1>1 DEF Acquire, Busy
    <2>4. QED
      BY <2>1, <2>2, <2>3 DEF Own, Undisturbed, Exchange
  <1>2. CASE AcquireFails(p)
    BY <1>2, OwnEnds DEF AcquireFails
  <1>3. CASE Detect(p)
    <2>1. rc'[p] = NoRc
      BY <1>0, <1>3 DEF Detect, Own
    <2>2. pc'[p] = "ready" \/ pc'[p] = "body"
      BY <1>3 DEF Detect
    <2>3. pc'[p] = "body" => protocol' = 3 /\ (~disturbed'[p] => ~Busy')
      BY <1>3 DEF Detect, Busy
    <2>4. QED
      BY <2>1, <2>2, <2>3 DEF Own, Undisturbed, Exchange
  <1>4. CASE Ready(p)
    BY <1>0, <1>4 DEF Ready, Own, Undisturbed, Exchange, Busy
  <1>5. CASE WriteBody(p)
    <2>1. rc'[p] = NoRc /\ (Undisturbed(p)' => Undisturbed(p) /\ ~Busy')
      BY <1>0, <1>5 DEF WriteBody, Own, Undisturbed, Exchange, Busy
    <2>2. window'.body = request'[p]
      BY <1>5 DEF WriteBody
    <2>3. pc'[p] = "header" \/ (pc'[p] = "command" /\ protocol' = 0)
      <3>1. Goto(p, IF protocol = 0 THEN "command" ELSE "header")
        BY <1>5 DEF WriteBody
      <3>2. protocol' = protocol
        BY <1>5 DEF WriteBody
      <3>3. QED
        BY <3>1, <3>2
    <2>4. QED
      BY <2>1, <2>2, <2>3 DEF Own, Exchange, Asked
  <1>6. CASE WriteHeader(p)
    <2>1. rc'[p] = NoRc /\ (Undisturbed(p)' => Undisturbed(p) /\ ~Busy')
      BY <1>0, <1>6 DEF WriteHeader, Own, Undisturbed, Exchange, Busy
    <2>2. window'.header = request'[p] /\ window'.body = window.body
      BY <1>6 DEF WriteHeader
    <2>3. Undisturbed(p) => window.body = request'[p]
      BY <1>0, <1>6 DEF WriteHeader, Own, Exchange
    <2>4. pc'[p] = "command"
      BY <1>6 DEF WriteHeader
    <2>5. QED
      BY <2>1, <2>2, <2>3, <2>4 DEF Own, Exchange, Asked
  <1>7. CASE WriteCommand(p)
    <2>1. rc'[p] = NoRc /\ pc'[p] = "response"
      BY <1>0, <1>7 DEF WriteCommand, Own
    <2>2. Undisturbed(p)' => ~Busy /\ Asked(p)
      BY <1>0, <1>7 DEF WriteCommand, Own, Undisturbed, Exchange
    <2>3. from_host' /\ (protocol # 3 => cmd_byte' = request'[p])
      BY <1>7 DEF WriteCommand
    <2>4. QED
      BY <1>7, <2>1, <2>2, <2>3
         DEF WriteCommand, Own, Exchange, Asked, Busy
  <1>8. CASE Response(p)
    <2>1. rc'[p] = NoRc /\ pc'[p] = "result" /\ ~Busy
      BY <1>0, <1>8 DEF Response, Own
    <2>2. Undisturbed(p)' => (result = 0 => Answered(p))
      BY <1>0, <1>8, <2>1
         DEF Response, Own, Undisturbed, Exchange, Busy
    <2>3. QED
      BY <1>8, <2>1, <2>2 DEF Response, Own, Exchange, Answered, Busy
  <1>9. CASE WaitTimesOut(p)
    BY <1>9, OwnEnds DEF WaitTimesOut, Returns
  <1>10. CASE ReadResult(p)
    <2>1. CASE result = 0
      BY <1>0, <1>10, <2>1 DEF ReadResult, Own, Undisturbed, Exchange,
         Answered, Busy
    <2>2. CASE result # 0
      BY <1>10, <2>2, OwnEnds DEF ReadResult, Returns
    <2>3. QED
      BY <2>1, <2>2
  <1>11. CASE ReadHeader(p)
    <2>1. CASE pc'[p] = "rsp_body" /\ rc' = rc
      <3>1. rc[p] = NoRc /\ (Undisturbed(p) => ~Busy /\ Answered(p))
        BY <1>0, <1>11 DEF ReadHeader, Own, Exchange
      <3>2. /\ Undisturbed(p)' => Undisturbed(p)
            /\ UNCHANGED <<window, from_host, ec, request>>
        BY <1>11, <2>1 DEF ReadHeader, Returns, Undisturbed
      <3>3. QED
        BY <2>1, <3>1, <3>2 DEF Own, Exchange, Answered, Busy
    <2>2. CASE Returns(p, -1)
      BY <2>2, OwnEnds DEF Returns
    <2>3. QED
      BY <1>11, <2>1, <2>2 DEF ReadHeader
  <1>12. CASE ReadBody(p)
    <2>1. /\ answer'[p] = window.body
          /\ pc'[p] = "idle" /\ request' = request
          /\ Undisturbed(p)' => Undisturbed(p)
      BY <1>12 DEF ReadBody, Returns, Undisturbed
    <2>2. Undisturbed(p) => Answered(p)
      BY <1>0, <1>12 DEF ReadBody, Own, Exchange
    <2>3. QED
      BY <2>1, <2>2 DEF Own, Exchange, Answered
  <1>13. QED
    BY <1>1, <1>2, <1>3, <1>4, <1>5, <1>6, <1>7, <1>8, <1>9, <1>10, <1>11,
       <1>12 DEF HostStep

(* What the EC does while p waits for it.                                  *)
LEMMA EcOwnStep ==
  ASSUME TypeOK, RequestInv, OwnInv, NEW p \in Procs, EcTakes \/ EcFinishes
  PROVE  Own(p)'
  <1>0. Own(p) /\ request[p].kind = "request" /\ request[p] # Nothing
    BY DEF OwnInv, RequestInv, Nothing, Message
  <1>1. UNCHANGED <<protocol, pc, rc, answer, request, disturbed>> /\ Busy
    BY DEF EcTakes, EcFinishes, hostVars, Busy
  <1>2. CASE EcTakes
    <2>1. ASSUME Undisturbed(p), pc[p] = "response"
          PROVE  ec' = request[p]
      <3>1. Asked(p) /\ (protocol # 3 => cmd_byte = request[p])
        BY <1>0, <1>2, <2>1 DEF EcTakes, Own, Exchange, Busy
      <3>2. protocol \in {0, 1, 3}
        BY CrosEcLpcAssumption DEF TypeOK
      <3>3. Understood = request[p]
        BY <1>0, <3>1, <3>2 DEF Understood, Asked
      <3>4. QED
        BY <1>2, <3>3 DEF EcTakes
    <2>2. QED
      BY <1>0, <1>1, <1>2, <2>1 DEF EcTakes, Own, Undisturbed, Exchange
  <1>3. CASE EcFinishes
    <2>1. ASSUME Undisturbed(p), pc[p] = "response"
          PROVE  ~Busy' /\ (result' = 0 => Answered(p)')
      <3>1. ec = request[p] /\ ~from_host
        BY <1>0, <1>3, <2>1 DEF EcFinishes, Own, Exchange, Busy
      <3>2. ~Busy'
        BY <1>3, <3>1 DEF EcFinishes, Busy
      <3>3. ASSUME result' = 0 PROVE Answered(p)'
        <4> DEFINE reply == [ec EXCEPT !.kind = "answer",
                                       !.empty = ec.empty \/ 0 # 0]
        <4>1. window' = [header |-> reply, body |-> reply]
          BY <1>3, <3>3 DEF EcFinishes
        <4>2. reply.kind = "answer" /\ reply.of = request[p].of
          BY <3>1 DEF TypeOK, Messages
        <4>3. QED
          BY <1>1, <4>1, <4>2 DEF Answered
      <3>4. QED
        BY <3>2, <3>3
    <2>2. QED
      BY <1>0, <1>1, <2>1 DEF Own, Undisturbed, Exchange
  <1>4. QED
    BY <1>2, <1>3

(* The exchange of every process is where its program counter says.        *)
LEMMA OwnStep ==
  TypeOK /\ LockInv /\ RequestInv /\ OwnInv /\ [Next]_vars => OwnInv'
  <1> SUFFICES ASSUME TypeOK, LockInv, RequestInv, OwnInv, [Next]_vars
               PROVE  OwnInv'
    OBVIOUS
  <1>1. CASE UNCHANGED vars
    <2>1. ASSUME NEW q \in Procs PROVE Own(q)'
      BY <1>1, OwnOthers DEF vars, OwnInv
    <2>2. QED
      BY <2>1 DEF OwnInv
  <1>2. ASSUME NEW p \in Procs, NEW empty \in BOOLEAN, Start(p, empty)
        PROVE  OwnInv'
    <2>1. Own(p)'
      BY <1>2 DEF Start, Goto, TypeOK, Own, Undisturbed, Exchange, NoRc
    <2>2. UNCHANGED <<protocol, window, from_host, ec, result, cmd_byte>>
      BY <1>2 DEF Start, ecVars
    <2>3. ASSUME NEW q \in Procs \ {p}
          PROVE  UNCHANGED <<pc[q], rc[q], answer[q], request[q],
                             disturbed[q]>>
      BY <1>2 DEF Start, Goto, TypeOK
    <2>4. QED
      BY <2>1, <2>2, <2>3, OwnFrame
  <1>3. ASSUME NEW p \in Procs, HostStep(p) PROVE OwnInv'
    <2>1. Own(p)'
      BY <1>3, HostOwnStep
    <2>2. /\ UNCHANGED protocol
          /\ \/ UNCHANGED <<window, from_host, ec, result, cmd_byte>>
             \/ pc[p] \in Inside
      BY <1>3 DEF HostStep, Acquire, AcquireFails, Detect, Ready, WriteBody,
         WriteHeader, WriteCommand, Response, WaitTimesOut, ReadResult,
         ReadHeader, ReadBody, Returns, ecVars, Inside, PCs
    <2>3. ASSUME NEW q \in Procs \ {p}
          PROVE  UNCHANGED <<pc[q], rc[q], answer[q], request[q],
                             disturbed[q]>>
      BY <1>3 DEF HostStep, Acquire, AcquireFails, Detect, Ready, WriteBody,
         WriteHeader, WriteCommand, Response, WaitTimesOut, ReadResult,
         ReadHeader, ReadBody, Returns, Begin, Goto, hostVars, TypeOK
    <2>4. QED
      BY <2>1, <2>2, <2>3, OwnFrame
  <1>4. ASSUME NEW p \in Procs, DetectFails(p) \/ IoFails(p) \/ Dies(p)
        PROVE  OwnInv'
    <2>1. Own(p)'
      BY <1>4, OwnEnds DEF DetectFails, IoFails, Dies, Returns, Goto, TypeOK,
         NoRc
    <2>2. UNCHANGED <<protocol, window, from_host, ec, result, cmd_byte>>
      BY <1>4 DEF DetectFails, IoFails, Dies, Returns, ecVars
    <2>3. ASSUME NEW q \in Procs \ {p}
          PROVE  UNCHANGED <<pc[q], rc[q], answer[q], request[q],
                             disturbed[q]>>
      BY <1>4 DEF DetectFails, IoFails, Dies, Returns, Goto, TypeOK
    <2>4. QED
      BY <2>1, <2>2, <2>3, OwnFrame
  <1>5. CASE EcTakes \/ EcFinishes
    BY <1>5, EcOwnStep DEF OwnInv
  <1>6. QED
    BY <1>1, <1>2, <1>3, <1>4, <1>5 DEF Next

LEMMA InitInv == Init => EcInv
  <1> SUFFICES ASSUME Init PROVE EcInv
    OBVIOUS
  <1>1. TypeOK
    <2>1. \A p \in Procs : Message("request", p, 0, FALSE) \in Messages
      <3>1. 0 \in 0 .. MaxRequests + 1 /\ FALSE \in BOOLEAN
        BY CrosEcLpcAssumption
      <3>2. QED
        BY <3>1, MessageType, Zenon
    <2>2. Nothing \in Messages
      BY MessageType
    <2>3. QED
      BY <2>1, <2>2 DEF Init, TypeOK, PCs, NoRc
  <1>2. LockInv
    BY CrosEcLpcAssumption DEF Init, LockInv, Inside, PCs
  <1>3. RequestInv
    BY DEF Init, RequestInv, Message
  <1>4. MailInv
    BY DEF Init, MailInv, Nothing, Stray, Message
  <1>5. OwnInv
    <2>1. ASSUME NEW p \in Procs PROVE pc[p] = "idle" /\ rc[p] = NoRc
      BY DEF Init
    <2>2. ASSUME NEW p \in Procs PROVE Own(p)
      <3>1. pc[p] = "idle" /\ rc[p] = NoRc /\ NoRc # 0
        BY <2>1 DEF NoRc
      <3>2. Exchange(p)
        BY <3>1 DEF Exchange
      <3>3. QED
        BY <3>1, <3>2 DEF Own
    <2>3. QED
      BY <2>2 DEF OwnInv
  <1>6. QED
    BY <1>1, <1>2, <1>3, <1>4, <1>5 DEF EcInv

LEMMA Invariant == Spec => []EcInv
  <1>1. EcInv /\ [Next]_vars => EcInv'
    BY TypeStep, LockStep, RequestStep, MailStep, OwnStep DEF EcInv
  <1>2. QED
    BY <1>1, InitInv, PTL DEF Spec
-----------------------------------------------------------------------------
(* The variables of the exchange with the EC keep their types.             *)
THEOREM TypeCorrect == Spec => []TypeOK
  <1>1. EcInv => TypeOK
    BY DEF EcInv
  <1>2. QED
    BY <1>1, Invariant, PTL

(* A command that returned 0 has the EC's answer to itself, whoever gave   *)
(* up or died before.                                                      *)
THEOREM OwnAnswers == Spec => []AnswersOwn
  <1>1. EcInv => AnswersOwn
    BY DEF EcInv, OwnInv, Own, Undisturbed, AnswersOwn
  <1>2. QED
    BY <1>1, Invariant, PTL

(* The wait before a command of protocols 0 and 1 is enough for the EC     *)
(* never to execute a mixture of two messages.                             *)
THEOREM NothingStray == Spec => []NoStray
  <1>1. EcInv => NoStray
    BY DEF EcInv, MailInv, NoStray
  <1>2. QED
    BY <1>1, Invariant, PTL

(* The exchanges of any number of processes are not mixed up.              *)
THEOREM NothingMixedUp == Spec => []NotMixedUp
  <1>1. AnswersOwn /\ NoStray => NotMixedUp
    BY DEF NotMixedUp
  <1>2. QED
    BY <1>1, OwnAnswers, NothingStray, PTL

(* Outside a command the EC lock is free, or with a process that could not *)
(* detect the EC.                                                          *)
THEOREM LockGivenBack == Spec => []LockReleased
  <1>1. EcInv => LockReleased
    BY DEF EcInv, LockInv, LockReleased
  <1>2. QED
    BY <1>1, Invariant, PTL
=============================================================================
