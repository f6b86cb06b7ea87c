---------------------------- MODULE EcTransport ----------------------------
(***************************************************************************)
(* drivers/google/cros_ec_i2c.c and cros_ec_dev.c: commands to a ChromeOS  *)
(* EC over raw I2C, where mosys frames and checks the messages itself, and *)
(* through the kernel's /dev node, in the two versions of its ioctl.  The  *)
(* commands are those of drivers/google/cros_ec.c; a structure of several  *)
(* bytes, a vboot context or a version, is one byte here.                  *)
(*                                                                         *)
(* The EC, the wires, the kernel and the death of processes are external:  *)
(* the EC may refuse a command, a byte may be damaged on the wires in each *)
(* direction, a transfer may fail before or after the EC has acted on it,  *)
(* and a kernel that does not wait for the EC says EAGAIN.                 *)
(***************************************************************************)
EXTENDS Integers, Sequences, SequencesExt

CONSTANTS
  Transports,  \* "i2c", "dev" and "dev_v2"
  Contexts,    \* vboot contexts
  Wrong,       \* what a damaged byte is read as
  Pads         \* what an EC sends that has nothing more to say

EcBytes == 0 .. 255

ASSUME EcTransportAssumption ==
  /\ Transports \subseteq {"i2c", "dev", "dev_v2"}
  /\ Contexts \cup Wrong \cup Pads \subseteq EcBytes

VARIABLES
  transport,  \* which of the functions is priv->cmd
  ec_context, \* the vboot context the EC keeps
  ec_pending, \* the command it is still busy with, or NoEcRequest
  ec_pc,      \* "idle", "sent" (on I2C, it was not answered yet), "done"
  ec_request, \* the command of this process
  fate,       \* history: what the EC did with it: "lost", "again" (not yet),
              \* "refused", "other" (it understood another one) or "done"
  ec_answer,  \* history: what it answered when it did it
  wire,       \* on I2C, the bytes of the EC's answer
  hurt,       \* history: the damaged byte: "none", "status" or another one
  indata,     \* the caller's buffer; <<>> as long as it is not filled
  ec_rc       \* what priv->cmd() returned

ecKeeps == <<ec_context, ec_pending>>
ecCall == <<ec_request, fate, ec_answer, wire, hurt, indata, ec_rc>>
ecTransportVars == <<transport, ecKeeps, ec_pc, ecCall>>

EC_CMD_HELLO == 1
EC_CMD_GET_VERSION == 2
EC_CMD_VBNV_CONTEXT == 23
EC_CMD_PD_CHIP_INFO == 283
EC_CMD_VERSION0 == 220
EC_RES_INVALID_COMMAND == 1
EC_RES_ERROR == 2
EC_RES_INVALID_CHECKSUM == 7
EECRESULT == 1000

EcRequest(command, version, outdata, insize) ==
  [command |-> command, version |-> version, outdata |-> outdata,
   insize |-> insize]
NoEcRequest == EcRequest(0, 0, <<>>, 0)
NoRc == 999

(* The requests of cros_ec.c; PD chips are only asked about over /dev.     *)
Hello == EcRequest(EC_CMD_HELLO, 0, <<192>>, 1)
GetVersion == EcRequest(EC_CMD_GET_VERSION, 0, <<>>, 1)
ReadContext == EcRequest(EC_CMD_VBNV_CONTEXT, 1, <<0>>, 1)
WriteContext(b) == EcRequest(EC_CMD_VBNV_CONTEXT, 1, <<1, b>>, 0)
PdChipInfo == EcRequest(EC_CMD_PD_CHIP_INFO, 0, <<1>>, 1)
EcCommands ==
  {Hello, GetVersion, ReadContext} \cup {WriteContext(b) : b \in Contexts}
    \cup (IF transport = "i2c" THEN {} ELSE {PdChipInfo})

IsWrite(req) == req.command = EC_CMD_VBNV_CONTEXT /\ req.outdata[1] = 1

EcInit ==
  /\ transport \in Transports
  /\ ec_context \in Contexts
  /\ ec_pending = NoEcRequest
  /\ ec_pc = "idle"
  /\ ec_request = NoEcRequest
  /\ fate = "lost"
  /\ ec_answer = <<>>
  /\ wire = <<>>
  /\ hurt = "none"
  /\ indata = <<>>
  /\ ec_rc = NoRc
-----------------------------------------------------------------------------
(* External: what the EC answers to a command it executes, ...             *)
AnswerTo(req) ==
  CASE req.command = EC_CMD_HELLO -> <<(req.outdata[1] + 4) % 256>>
    [] req.command = EC_CMD_GET_VERSION -> <<42>>
    [] req = ReadContext -> <<ec_context>>
    [] IsWrite(req) -> <<>>
    [] req.command = EC_CMD_PD_CHIP_INFO -> <<7>>

(* ... and what that changes.                                              *)
EcExecuted(req) ==
  ec_context' = IF IsWrite(req) THEN req.outdata[2] ELSE ec_context

EcDoes(req) ==
  /\ EcExecuted(req)
  /\ fate' = "done" /\ ec_answer' = AnswerTo(req)

EcDoesNot(why) == UNCHANGED ec_context /\ fate' = why /\ ec_answer' = <<>>

(* External: the EC finishes what it was busy with.                        *)
EcFinishes ==
  /\ ec_pending # NoEcRequest
  /\ EcExecuted(ec_pending)
  /\ ec_pending' = NoEcRequest
  /\ UNCHANGED <<transport, ec_pc, ecCall>>
-----------------------------------------------------------------------------
rolling8_csum(buf) == FoldLeft(LAMBDA sum, byte : (sum + byte) % 256, 0, buf)
WithSum(buf) == Append(buf, rolling8_csum(buf))

(* The bytes of a request: with a version, all of them are summed; without *)
(* one, the payload is, if there is any.                                   *)
req_buf(req) ==
  IF req.version > 0
  THEN WithSum(<<EC_CMD_VERSION0 + req.version, req.command % 256,
                 Len(req.outdata)>> \o req.outdata)
  ELSE <<req.command % 256>>
         \o (IF req.outdata = <<>> THEN <<>> ELSE WithSum(req.outdata))

resp_len(req) ==
  IF req.version > 0 THEN 3 + req.insize
  ELSE IF req.insize > 0 THEN 2 + req.insize ELSE 1

(* External: the EC's answers, of the length that mosys reads.             *)
Padded(bytes, req, pad) ==
  SubSeq(bytes \o [k \in 1 .. resp_len(req) |-> pad], 1, resp_len(req))
Accepts(req, data) ==
  IF req.version > 0 THEN WithSum(<<0, Len(data)>> \o data)
                     ELSE <<0>> \o WithSum(data)
Refuses(req, code) == IF req.version > 0 THEN <<code, 0, code>> ELSE <<code>>

(* External: byte k of the request was damaged.  The EC checks the sums;   *)
(* what they leave out, the number of a command without version, makes it  *)
(* another command.                                                        *)
Misheard(req, k, pad) ==
  IF req.version = 0 /\ k = 1
  THEN /\ EcDoesNot("other")
       /\ \E data \in Wrong : wire' = Accepts(req, <<data>>)
  ELSE /\ EcDoesNot("refused")
       /\ wire' = Padded(Refuses(req, EC_RES_INVALID_CHECKSUM), req, pad)

(* The first message of the I2C transfer.                                  *)
I2cSends(req) ==
  /\ ec_pc = "idle" /\ transport = "i2c"
  /\ ec_request' = req
  /\ ec_pc' = "sent"
  /\ \/ EcDoes(req) /\ wire' = Accepts(req, AnswerTo(req))
     \/ \E pad \in Pads :
          \/ /\ EcDoesNot("refused")
             /\ wire' = Padded(Refuses(req, EC_RES_INVALID_COMMAND), req, pad)
          \/ \E k \in 1 .. Len(req_buf(req)) : Misheard(req, k, pad)
  /\ UNCHANGED <<transport, ec_pending, hurt, indata, ec_rc>>

EcReturns(ret) == ec_rc' = ret /\ ec_pc' = "done"

(* External: the kernel could not transfer it, with or without the EC      *)
(* having seen it; or there is no handle for the bus.                      *)
I2cFails(req) ==
  /\ \/ /\ ec_pc = "idle" /\ transport = "i2c"
        /\ ec_request' = req
        /\ EcDoesNot("lost")
     \/ /\ ec_pc = "sent" /\ req = ec_request
        /\ UNCHANGED <<ec_request, ec_context, fate, ec_answer>>
  /\ EcReturns(-1)
  /\ UNCHANGED <<transport, ec_pending, wire, hurt, indata>>

(* What is made of an answer: the return value and the bytes for the       *)
(* caller, or <<>>.                                                        *)
Parsed(ret, data) == [ret |-> ret, data |-> data]

(* Mutant: the sum is computed, and not compared.                          *)
ParseNew_NoSum(buf, insize) ==
  IF buf[1] # 0 THEN Parsed(buf[1], <<>>)
  ELSE IF buf[2] # insize THEN Parsed(-1, <<>>)
  ELSE Parsed(0, SubSeq(buf, 3, 2 + insize))

(* Mutant: the result code is looked at after the answer was taken.        *)
ParseNew_NoStatus(buf, insize) ==
  IF buf[2] # insize THEN Parsed(-1, <<>>)
  ELSE IF rolling8_csum(SubSeq(buf, 1, 2 + insize)) # buf[Len(buf)]
  THEN Parsed(-1, <<>>)
  ELSE Parsed(0, SubSeq(buf, 3, 2 + insize))

(* An answer to a command with a version.                                  *)
ParseNew(buf, insize) ==
  IF buf[1] # 0 THEN Parsed(buf[1], <<>>)
  ELSE IF buf[2] # insize THEN Parsed(-1, <<>>)
  ELSE IF rolling8_csum(SubSeq(buf, 1, 2 + insize)) # buf[Len(buf)]
  THEN Parsed(-1, <<>>)
  ELSE Parsed(0, SubSeq(buf, 3, 2 + insize))

(* Mutant: the sum is computed, and not compared.                          *)
ParseOld_NoSum(buf, insize) ==
  Parsed(buf[1], IF insize = 0 THEN <<>> ELSE SubSeq(buf, 2, 1 + insize))

(* An answer to one without: the data is taken whatever the result code.   *)
ParseOld(buf, insize) ==
  IF insize = 0 THEN Parsed(buf[1], <<>>)
  ELSE IF rolling8_csum(SubSeq(buf, 2, 1 + insize)) # buf[Len(buf)]
  THEN Parsed(-1, <<>>)
  ELSE Parsed(buf[1], SubSeq(buf, 2, 1 + insize))

(* The second message, of which a byte may be damaged, and the checks.     *)
I2cReceives ==
  /\ ec_pc = "sent"
  /\ \E k \in 0 .. Len(wire), w \in Wrong :
       LET buf == IF k = 0 THEN wire ELSE [wire EXCEPT ![k] = w]
           parsed == IF ec_request.version > 0
                     THEN ParseNew(buf, ec_request.insize)
                     ELSE ParseOld(buf, ec_request.insize)
       IN  /\ hurt' = IF k = 0 THEN "none"
                      ELSE IF k = 1 THEN "status" ELSE "rest"
           /\ EcReturns(parsed.ret)
           /\ indata' = parsed.data
  /\ wire' = <<>>
  /\ UNCHANGED <<transport, ecKeeps, ec_request, fate, ec_answer>>
-----------------------------------------------------------------------------
(* Mutant: the EC's result is never looked at.                             *)
DevResult_Ignored(req, result) == 0

(* Once the kernel has transferred a command, its result counts only for   *)
(* EC_CMD_PD_CHIP_INFO.                                                    *)
DevResult(req, result) ==
  IF req.command = EC_CMD_PD_CHIP_INFO /\ result # 0
  THEN -EECRESULT - result ELSE 0

(* Mutant: what ioctl() returns is not looked at when the EC is busy.      *)
AgainResult_Zero(req) == 0

(* errno is positive, and is compared with -EAGAIN: nobody waits for the   *)
(* EC, the command fails like any other.                                   *)
AgainResult(req) == -EC_RES_ERROR

DevCommand(req) ==
  /\ ec_pc = "idle" /\ transport # "i2c"
  /\ ec_request' = req
  /\ UNCHANGED <<transport, wire, hurt>>

(* The EC did or refused it.  The kernel hands out what was received: with *)
(* the second version mosys copies that much, nothing when it was refused. *)
DevTransferred(req) ==
  /\ DevCommand(req)
  /\ ec_pending = NoEcRequest
  /\ \/ EcDoes(req) /\ indata' = AnswerTo(req) /\ EcReturns(DevResult(req, 0))
     \/ /\ EcDoesNot("refused")
        /\ EcReturns(DevResult(req, EC_RES_INVALID_COMMAND))
        /\ UNCHANGED indata
  /\ UNCHANGED ec_pending

(* ioctl() fails, before or after the EC has seen the command.             *)
DevFails(req) ==
  /\ DevCommand(req)
  /\ EcDoesNot("lost") \/ (ec_pending = NoEcRequest /\ EcDoes(req))
  /\ EcReturns(-EC_RES_ERROR)
  /\ UNCHANGED <<ec_pending, indata>>

(* EAGAIN: the EC has begun with it, or is still busy with an earlier one. *)
DevAgain(req) ==
  /\ DevCommand(req)
  /\ EcDoesNot("again")
  /\ ec_pending' = IF ec_pending = NoEcRequest THEN req ELSE ec_pending
  /\ EcReturns(AgainResult(req))
  /\ UNCHANGED indata
-----------------------------------------------------------------------------
(* The command is over, or its process was killed; another one follows.    *)
EcCommandEnds ==
  /\ ec_pc \in {"sent", "done"}
  /\ ec_pc' = "idle"
  /\ ec_request' = NoEcRequest
  /\ fate' = "lost" /\ ec_answer' = <<>> /\ wire' = <<>> /\ hurt' = "none"
  /\ indata' = <<>> /\ ec_rc' = NoRc
  /\ UNCHANGED <<transport, ecKeeps>>

EcNext ==
  \/ \E req \in EcCommands :
       I2cSends(req) \/ I2cFails(req)
         \/ DevTransferred(req) \/ DevFails(req) \/ DevAgain(req)
  \/ I2cReceives \/ EcFinishes \/ EcCommandEnds

EcSpec == EcInit /\ [][EcNext]_ecTransportVars
-----------------------------------------------------------------------------
EcTypeOK ==
  /\ transport \in Transports
  /\ ec_context \in Contexts
  /\ ec_pending \in EcCommands \cup {NoEcRequest}
  /\ ec_pc \in {"idle", "sent", "done"}
  /\ ec_request \in EcCommands \cup {NoEcRequest}
  /\ fate \in {"lost", "again", "refused", "other", "done"}
  /\ hurt \in {"none", "status", "rest"}
  /\ ec_rc \in {NoRc, -1, -EC_RES_ERROR, -EECRESULT - EC_RES_INVALID_COMMAND}
             \cup EcBytes

(* What the checks of each transport leave to chance: without a version the*)
(* sums cover neither the number of the command nor the result code, and   *)
(* over /dev the result counts for one command only (as the TODO says).    *)
Unchecked ==
  \/ transport = "i2c" /\ ec_request.version = 0
       /\ (fate = "other" \/ hurt = "status")
  \/ transport # "i2c" /\ ec_request.command # EC_CMD_PD_CHIP_INFO
       /\ fate = "refused"

(* A command that returned 0 was executed by the EC and its answer is in   *)
(* the caller's buffer, whichever byte the wires damaged, wherever the     *)
(* transfer failed and whatever the EC was still busy with                 *)
(* (cros_ec_command_i2c, cros_ec_command_dev, cros_ec_command_dev_v2).     *)
AnswerTrue ==
  /\ EcTypeOK
  /\ ec_rc = 0 /\ ~Unchecked => fate = "done" /\ indata = ec_answer
=============================================================================
