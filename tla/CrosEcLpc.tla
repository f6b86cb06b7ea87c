----------------------------- MODULE CrosEcLpc -----------------------------
(***************************************************************************)
(* drivers/google/cros_ec_lpc.c: mosys processes send commands to the      *)
(* ChromeOS embedded controller (EC) through one mailbox of I/O ports: a   *)
(* window for parameters, which the answer comes back in, a command byte   *)
(* and a result byte.  The memory map of the EC says which of the protocol *)
(* versions 0, 1 and 3 it speaks.  The processes exclude each other with a *)
(* lock of its own (cros_ec_lock.c); but a process may give up or die while*)
(* the EC still works on its command.                                      *)
(*                                                                         *)
(* A window has a header (struct ec_host_request, struct ec_lpc_host_args) *)
(* and a body, transferred one after the other, each holding one message.  *)
(* Checksums tell messages apart.                                          *)
(***************************************************************************)
EXTENDS Integers

CONSTANTS
  Procs,        \* mosys processes
  NoProc,       \* nobody
  Protocols,    \* the protocol versions an EC may speak
  MaxRequests,  \* bound: commands of one process
  EnvFaults     \* what may fail: subset of FaultKinds

FaultKinds == {"lock", "memmap", "io", "ec", "slow", "death"}

ASSUME CrosEcLpcAssumption ==
  /\ NoProc \notin Procs
  /\ Protocols \subseteq {0, 1, 3}
  /\ MaxRequests \in Nat
  /\ EnvFaults \subseteq FaultKinds

VARIABLES
  protocol,   \* what the memory map of this EC says
  holder,     \* who has the EC lock
  is_held,    \* cros_ec_lock.is_held of each process
  raw,        \* priv->raw is set: the protocol was detected
  pc,
  request,    \* the command of each process
  answer,     \* what it has read as its answer
  rc,         \* what cros_ec_command_lpc() returned last
  window,     \* the messages whose header and body are in the window
  cmd_byte,   \* what the command byte is for
  from_host,  \* status bit: a command byte waits for the EC
  ec,         \* what the EC is processing, or Nothing
  result,     \* the result byte: 0 is success
  disturbed   \* history: the EC was busy when this command was started

ecVars == <<window, from_host, ec, result>>
lockVars == <<holder, is_held>>
hostVars == <<raw, request, answer, rc, disturbed>>
vars == <<protocol, holder, is_held, raw, pc, request, answer, rc, window,
          cmd_byte, from_host, ec, result, disturbed>>

Message(kind, p, n, empty) == [kind |-> kind, of |-> <<p, n>>, empty |-> empty]
Nothing == Message("none", NoProc, 0, FALSE)
(* A command nobody sent, made by the EC of what it found in the window.   *)
Stray == Message("request", NoProc, 1, FALSE)
NoRc == 9

(* EC_LPC_STATUS_BUSY_MASK                                                 *)
Busy == from_host \/ ec # Nothing

PCs == {"idle", "lock", "detect", "ready", "body", "header", "command",
        "response", "result", "rsp_header", "rsp_body"}

Init ==
  /\ protocol \in Protocols
  /\ holder = NoProc
  /\ is_held = [p \in Procs |-> FALSE]
  /\ raw = [p \in Procs |-> FALSE]
  /\ pc = [p \in Procs |-> "idle"]
  /\ request = [p \in Procs |-> Message("request", p, 0, FALSE)]
  /\ answer = [p \in Procs |-> Nothing]
  /\ rc = [p \in Procs |-> NoRc]
  /\ window = [header |-> Nothing, body |-> Nothing]
  /\ cmd_byte = Nothing
  /\ from_host = FALSE
  /\ ec = Nothing
  /\ result = 0
  /\ disturbed = [p \in Procs |-> FALSE]
-----------------------------------------------------------------------------
Goto(p, l) == pc' = [pc EXCEPT ![p] = l]

(* A new command; `empty` says whether its answer carries data.            *)
Start(p, empty) ==
  /\ pc[p] = "idle"
  /\ request[p].of[2] < MaxRequests
  /\ request' = [request EXCEPT ![p] =
                   Message("request", p, @.of[2] + 1, empty)]
  /\ answer' = [answer EXCEPT ![p] = Nothing]
  /\ rc' = [rc EXCEPT ![p] = NoRc]
  /\ Goto(p, "lock")
  /\ UNCHANGED <<protocol, lockVars, raw, ecVars, cmd_byte, disturbed>>

(* Where a command starts once the protocol is known: only version 3 does  *)
(* not wait for the EC first.                                              *)
Begin(p) ==
  /\ Goto(p, IF protocol = 3 THEN "body" ELSE "ready")
  /\ disturbed' = [disturbed EXCEPT ![p] = Busy]

(* acquire_cros_ec_lock(): 0 or, when this process has it already, 1.      *)
Acquire(p) ==
  /\ pc[p] = "lock"
  /\ holder \in {NoProc, p}
  /\ holder' = p
  /\ is_held' = [is_held EXCEPT ![p] = TRUE]
  /\ IF raw[p] THEN Begin(p) ELSE Goto(p, "detect") /\ UNCHANGED disturbed
  /\ UNCHANGED <<protocol, raw, request, answer, rc, ecVars, cmd_byte>>

(* The lock is not free within CROS_EC_LOCK_TIMEOUT_SECS, or not available.*)
AcquireFails(p) ==
  /\ pc[p] = "lock"
  /\ holder # p
  /\ holder # NoProc \/ "lock" \in EnvFaults
  /\ rc' = [rc EXCEPT ![p] = -1]
  /\ Goto(p, "idle")
  /\ UNCHANGED <<protocol, lockVars, raw, request, answer, ecVars, cmd_byte,
                 disturbed>>

Detect(p) ==
  /\ pc[p] = "detect"
  /\ raw' = [raw EXCEPT ![p] = TRUE]
  /\ Begin(p)
  /\ UNCHANGED <<protocol, lockVars, request, answer, rc, ecVars, cmd_byte>>

(* No memory map, or it cannot be read: an early return that keeps the     *)
(* lock.                                                                   *)
DetectFails(p) ==
  /\ pc[p] = "detect"
  /\ "memmap" \in EnvFaults
  /\ rc' = [rc EXCEPT ![p] = -1]
  /\ Goto(p, "idle")
  /\ UNCHANGED <<protocol, lockVars, raw, request, answer, ecVars, cmd_byte,
                 disturbed>>

(* Mutant: the lock is not released when the raw command fails.            *)
Returns_KeepsLock(p, r) ==
  /\ rc' = [rc EXCEPT ![p] = r]
  /\ holder' = IF r = 0 THEN NoProc ELSE holder
  /\ is_held' = [is_held EXCEPT ![p] = (r # 0)]
  /\ Goto(p, "idle")
  /\ UNCHANGED <<protocol, raw, request, ecVars, cmd_byte, disturbed>>

(* The raw command returns r and the lock is released.                     *)
Returns(p, r) ==
  /\ rc' = [rc EXCEPT ![p] = r]
  /\ holder' = NoProc
  /\ is_held' = [is_held EXCEPT ![p] = FALSE]
  /\ Goto(p, "idle")
  /\ UNCHANGED <<protocol, raw, request, ecVars, cmd_byte, disturbed>>

(* Mutant: as in version 3, nobody waits before the parameters are written.*)
Ready_Unchecked(p) ==
  /\ pc[p] = "ready"
  /\ Goto(p, "body")
  /\ UNCHANGED <<protocol, lockVars, hostVars, ecVars, cmd_byte>>

(* wait_for_ec() before the command (versions 0 and 1).                    *)
Ready(p) ==
  /\ pc[p] = "ready"
  /\ ~Busy
  /\ Goto(p, "body")
  /\ UNCHANGED <<protocol, lockVars, hostVars, ecVars, cmd_byte>>

WriteBody(p) ==
  /\ pc[p] = "body"
  /\ window' = [window EXCEPT !.body = request[p]]
  /\ Goto(p, IF protocol = 0 THEN "command" ELSE "header")
  /\ UNCHANGED <<protocol, lockVars, hostVars, cmd_byte, from_host, ec, result>>

WriteHeader(p) ==
  /\ pc[p] = "header"
  /\ window' = [window EXCEPT !.header = request[p]]
  /\ Goto(p, "command")
  /\ UNCHANGED <<protocol, lockVars, hostVars, cmd_byte, from_host, ec, result>>

(* Version 3 always writes the same byte, the others write the command.    *)
WriteCommand(p) ==
  /\ pc[p] = "command"
  /\ cmd_byte' = IF protocol = 3 THEN Nothing ELSE request[p]
  /\ from_host' = TRUE
  /\ Goto(p, "response")
  /\ UNCHANGED <<protocol, lockVars, hostVars, window, ec, result>>

(* wait_for_ec() after the command.                                        *)
Response(p) ==
  /\ pc[p] = "response"
  /\ ~Busy
  /\ Goto(p, "result")
  /\ UNCHANGED <<protocol, lockVars, hostVars, ecVars, cmd_byte>>

(* Mutant: the wait before a command has no end.                           *)
WaitTimesOut_OnlyAfter(p) ==
  /\ pc[p] = "response"
  /\ Busy
  /\ "slow" \in EnvFaults
  /\ Returns(p, -1)
  /\ UNCHANGED answer

(* A second has passed and the EC is still busy.                           *)
WaitTimesOut(p) ==
  /\ pc[p] \in {"ready", "response"}
  /\ Busy
  /\ "slow" \in EnvFaults
  /\ Returns(p, -1)
  /\ UNCHANGED answer

(* Mutant: the result byte is not looked at.                               *)
ReadResult_Ignored(p) ==
  /\ pc[p] = "result"
  /\ Goto(p, IF protocol = 0 THEN "rsp_body" ELSE "rsp_header")
  /\ UNCHANGED <<protocol, lockVars, hostVars, ecVars, cmd_byte>>

(* The EC's result.  An error becomes -1; version 3 returns its loop       *)
(* counter, negated: sizeof(struct ec_host_request).                       *)
ReadResult(p) ==
  /\ pc[p] = "result"
  /\ \/ /\ result = 0
        /\ Goto(p, IF protocol = 0 THEN "rsp_body" ELSE "rsp_header")
        /\ UNCHANGED <<protocol, lockVars, hostVars, ecVars, cmd_byte>>
     \/ /\ result # 0
        /\ Returns(p, IF protocol = 3 THEN -8 ELSE -1)
        /\ UNCHANGED answer

(* Header of the answer.  Version 1 tells it from a request's by its flags;*)
(* in version 3 the header of a request without data looks like one.       *)
ReadHeader(p) ==
  /\ pc[p] = "rsp_header"
  /\ \/ /\ window.header.kind \in
             IF protocol = 3 THEN {"answer", "request"} ELSE {"answer"}
        /\ answer' = [answer EXCEPT ![p] = window.header]
        /\ Goto(p, "rsp_body")
        /\ UNCHANGED <<protocol, lockVars, raw, request, rc, ecVars, cmd_byte,
                       disturbed>>
     \/ /\ window.header.kind # "answer"
        /\ Returns(p, -1)
        /\ UNCHANGED answer

(* Body of the answer; with a header, the checksum covers both.            *)
ReadBody(p) ==
  /\ pc[p] = "rsp_body"
  /\ answer' = [answer EXCEPT ![p] = window.body]
  /\ Returns(p, IF protocol # 0 /\ answer[p] # window.body THEN -1 ELSE 0)

(* An access to a port fails.  Version 3 looks at the result of reads only.*)
IoFails(p) ==
  /\ "io" \in EnvFaults
  /\ \/ pc[p] \in {"ready", "response", "result", "rsp_header", "rsp_body"}
     \/ pc[p] \in {"body", "header", "command"} /\ protocol # 3
  /\ Returns(p, -1)
  /\ UNCHANGED answer

(* The process is killed; the kernel drops its lock, the EC goes on.       *)
Dies(p) ==
  /\ "death" \in EnvFaults
  /\ pc[p] # "idle" \/ is_held[p]
  /\ holder' = IF holder = p THEN NoProc ELSE holder
  /\ is_held' = [is_held EXCEPT ![p] = FALSE]
  /\ raw' = [raw EXCEPT ![p] = FALSE]
  /\ answer' = [answer EXCEPT ![p] = Nothing]
  /\ rc' = [rc EXCEPT ![p] = NoRc]
  /\ disturbed' = [disturbed EXCEPT ![p] = FALSE]
  /\ Goto(p, "idle")
  /\ UNCHANGED <<protocol, request, ecVars, cmd_byte>>
-----------------------------------------------------------------------------
(* External: what the EC takes the window for.  Versions 1 and 3 have      *)
(* checksums, version 1's over the command byte too.  But an answer without*)
(* data is a header of version 3 whose bytes sum to zero and say command 0 *)
(* (or, after an error, another): a valid request.                         *)
Understood ==
  CASE protocol = 0 -> IF window.body = cmd_byte THEN cmd_byte ELSE Stray
    [] protocol = 1 -> IF window.header = cmd_byte /\ window.body = cmd_byte
                         THEN cmd_byte ELSE Nothing
    [] protocol = 3 ->
         IF window.header.kind = "request" /\ window.body = window.header
           THEN window.header
         ELSE IF window.header.kind = "answer" /\ window.header.empty
           THEN Stray
         ELSE Nothing

(* External: the EC takes the next command once it is done with the last;  *)
(* one it does not understand is answered by an error result.              *)
EcTakes ==
  /\ from_host /\ ec = Nothing
  /\ from_host' = FALSE
  /\ ec' = Understood
  /\ result' = IF Understood = Nothing THEN 1 ELSE result
  /\ UNCHANGED <<protocol, lockVars, pc, hostVars, window, cmd_byte>>

(* External: the EC has executed the command.  Its answer goes into the    *)
(* window; for an error only version 3 has one, without data.              *)
EcFinishes ==
  /\ ec # Nothing
  /\ \E r \in IF "ec" \in EnvFaults THEN {0, 1} ELSE {0} :
       LET reply == [ec EXCEPT !.kind = "answer", !.empty = @ \/ r # 0]
       IN  /\ result' = r
           /\ window' = IF r = 0 \/ protocol = 3
                          THEN [header |-> reply, body |-> reply] ELSE window
  /\ ec' = Nothing
  /\ UNCHANGED <<protocol, lockVars, pc, hostVars, cmd_byte, from_host>>

HostStep(p) ==
  \/ Acquire(p) \/ AcquireFails(p) \/ Detect(p)
  \/ Ready(p) \/ WriteBody(p) \/ WriteHeader(p) \/ WriteCommand(p)
  \/ Response(p) \/ WaitTimesOut(p) \/ ReadResult(p)
  \/ ReadHeader(p) \/ ReadBody(p)

Next ==
  \/ \E p \in Procs :
       \/ \E empty \in BOOLEAN : Start(p, empty)
       \/ HostStep(p) \/ DetectFails(p) \/ IoFails(p) \/ Dies(p)
  \/ EcTakes \/ EcFinishes

Spec == Init /\ [][Next]_vars

(* Running processes are scheduled.  Nothing is asked of the EC: waiting   *)
(* for it ends after a second in any case.                                 *)
FairSpec == Spec /\ \A p \in Procs : WF_vars(HostStep(p))
-----------------------------------------------------------------------------
Messages ==
  [kind : {"none", "request", "answer"}, empty : BOOLEAN,
   of : (Procs \cup {NoProc}) \X (0 .. MaxRequests + 1)]

TypeOK ==
  /\ protocol \in Protocols
  /\ holder \in Procs \cup {NoProc}
  /\ is_held \in [Procs -> BOOLEAN]
  /\ raw \in [Procs -> BOOLEAN]
  /\ pc \in [Procs -> PCs]
  /\ request \in [Procs -> Messages]
  /\ answer \in [Procs -> Messages]
  /\ rc \in [Procs -> {NoRc, 0, -1, -8}]
  /\ window \in [header : Messages, body : Messages]
  /\ cmd_byte \in Messages
  /\ from_host \in BOOLEAN
  /\ ec \in Messages
  /\ result \in {0, 1}
  /\ disturbed \in [Procs -> BOOLEAN]

(* "Returns the command status code, or -1 if other error": a command that *)
(* returned 0 returned the EC's answer to this very command, whoever gave  *)
(* up or died in the middle of another one.  Version 3, which does not wait*)
(* for the EC first, promises it only if the EC was not busy.              *)
AnswersOwn ==
  \A p \in Procs :
    rc[p] = 0 /\ ~(protocol = 3 /\ disturbed[p]) =>
      answer[p].kind = "answer" /\ answer[p].of = request[p].of

(* With the wait before the command, the EC never executes what it makes   *)
(* of a message that was meant for somebody else.                          *)
NoStray == protocol # 3 => ec # Stray

(* The exchanges of two processes are not mixed up, at either end.         *)
NotMixedUp == AnswersOwn /\ NoStray

(* Outside a command nobody keeps the EC from the others, except a process *)
(* that could not detect the EC, which keeps the lock until its next       *)
(* command or its end.                                                     *)
LockReleased ==
  \A p \in Procs :
    /\ is_held[p] <=> holder = p
    /\ is_held[p] /\ pc[p] = "idle" => ~raw[p] /\ rc[p] = -1

(* A command comes back, whatever the EC does.                             *)
CommandReturns == \A p \in Procs : pc[p] # "idle" ~> pc[p] = "idle"
=============================================================================
