------------------------------- MODULE EcRam -------------------------------
(***************************************************************************)
(* i8042_poll_csr() of drivers/superio.c, the waits of drivers/ene/kb932.c *)
(* built on it, and read_ecram() of platform/butterfly/ec.c: mosys reads   *)
(* the EC's firmware version byte by byte, each with a command, an offset  *)
(* and an answer that pass through the one-byte buffers of a keyboard      *)
(* controller interface.  Every wait may give up, and every access to a    *)
(* port, an open(), lseek(), read() or write() and close() of /dev/port,   *)
(* may fail; read_ecram() then returns -1, which its caller ignores.       *)
(*                                                                         *)
(* The EC's byte at offset k of the version is represented by k.  Time is  *)
(* that of gettimeofday() since the wait began: whole seconds, and the     *)
(* fraction as ticks.                                                      *)
(***************************************************************************)
EXTENDS Integers

CONSTANTS
  SEC,       \* ticks in a second
  Timeouts,  \* the boards' timeouts: [s |-> timeout_s, us |-> remainder_us],
             \* the remainder in ticks; butterfly's is half a second
  MaxGap,    \* ticks between two looks at the clock, at most
  LEN        \* BUTTERFLY_ECRAM_FW_VERSION_LEN

ASSUME EcRamAssumption ==
  /\ SEC \in Nat \ {0}
  /\ MaxGap \in 1 .. SEC
  /\ \A t \in Timeouts : t.s \in Nat /\ t.us \in Nat
  /\ LEN \in Nat

VARIABLES
  timeout,  \* of this board
  ibf,      \* input buffer of the interface: what the host wrote, or Empty
  obf,      \* output buffer: an answer the host has not read, or Empty
  ec,       \* the EC: "idle", "offset" (it waits for one), or the byte it
            \* is about to answer
  ram_pc,       \* what read_ecram() waits for
  i,        \* the byte fw_version asks for
  version,  \* the buffer; Unset is its initial 0
  begin,    \* tv_usec when the wait began
  secs,     \* now.tv_sec - begin.tv_sec
  usec,     \* now.tv_usec
  gave_up   \* history: a byte was given up, or the interface was in use

ecVars == <<ibf, obf, ec>>
clock == <<begin, secs, usec>>
ramVars == <<timeout, ecVars, ram_pc, i, version, clock, gave_up>>

Empty == -2
Unset == -3
Foreign == -1   \* an answer to somebody who asked before this process
Command == -4   \* KB932_CMD_READ_ECRAM
Idle == -5
AwaitsOffset == -6

Bytes == 0 .. LEN
Ticks == 0 .. SEC - 1

RamInit ==
  /\ timeout \in Timeouts
  /\ ibf = Empty
  /\ obf \in {Empty, Foreign}
  /\ ec = Idle
  /\ ram_pc = "ibf_command"
  /\ i = 0
  /\ version = [k \in Bytes |-> Unset]
  /\ begin \in Ticks
  /\ secs = 0
  /\ usec = begin
  /\ gave_up = (obf # Empty)
-----------------------------------------------------------------------------
Abs(n) == IF n < 0 THEN -n ELSE n

(* The next wait starts its own clock.                                     *)
Restart == begin' = usec /\ secs' = 0 /\ usec' = usec

(* fw_version goes on with the next byte; ARRAY_SIZE(version) is LEN + 1.  *)
NextByte ==
  /\ i' = IF i = LEN THEN i ELSE i + 1
  /\ ram_pc' = IF i = LEN THEN "done" ELSE "ibf_command"

WriteCommand ==
  /\ ram_pc = "ibf_command" /\ ibf = Empty
  /\ ibf' = Command
  /\ ram_pc' = "ibf_offset"
  /\ Restart
  /\ UNCHANGED <<timeout, obf, ec, i, version, gave_up>>

WriteOffset ==
  /\ ram_pc = "ibf_offset" /\ ibf = Empty
  /\ ibf' = i
  /\ ram_pc' = "obf"
  /\ Restart
  /\ UNCHANGED <<timeout, obf, ec, i, version, gave_up>>

(* Mutant: the data port is read whether or not there is an answer.        *)
ReadData_NoWait ==
  /\ ram_pc = "obf"
  /\ version' = [version EXCEPT ![i] = IF obf = Empty THEN Foreign ELSE obf]
  /\ obf' = Empty
  /\ NextByte
  /\ Restart
  /\ UNCHANGED <<timeout, ibf, ec, gave_up>>

ReadData ==
  /\ ram_pc = "obf" /\ obf # Empty
  /\ version' = [version EXCEPT ![i] = obf]
  /\ obf' = Empty
  /\ NextByte
  /\ Restart
  /\ UNCHANGED <<timeout, ibf, ec, gave_up>>

Waiting ==
  \/ ram_pc \in {"ibf_command", "ibf_offset"} /\ ibf # Empty
  \/ ram_pc = "obf" /\ obf = Empty

(* i8042_poll_csr()'s test, as the code has it.                            *)
TimedOut(s, u) == s >= timeout.s /\ Abs(u - begin) >= timeout.us

(* Bound: seconds that are counted, more than TimedOut tells apart.        *)
MaxSecs == timeout.s + 2

(* The clock, d ticks later.                                               *)
Later(d) ==
  IF usec + d < SEC
  THEN [s |-> secs, us |-> usec + d]
  ELSE [s |-> IF secs < MaxSecs THEN secs + 1 ELSE secs,
        us |-> usec + d - SEC]

(* Mutant: a byte that was given up is asked for again.                    *)
Poll_Retries ==
  /\ Waiting
  /\ \E d \in 1 .. MaxGap :
       LET now == Later(d)
       IN IF TimedOut(now.s, now.us)
          THEN /\ gave_up' = TRUE
               /\ ram_pc' = "ibf_command"
               /\ begin' = now.us /\ secs' = 0 /\ usec' = now.us
               /\ UNCHANGED i
          ELSE /\ secs' = now.s /\ usec' = now.us
               /\ UNCHANGED <<ram_pc, i, begin, gave_up>>
  /\ UNCHANGED <<timeout, ecVars, version>>

(* The register does not show it yet; the clock is looked at, and the wait *)
(* goes on or read_ecram() gives the byte up.                              *)
Poll ==
  /\ Waiting
  /\ \E d \in 1 .. MaxGap :
       LET now == Later(d)
       IN IF TimedOut(now.s, now.us)
          THEN /\ gave_up' = TRUE
               /\ NextByte
               /\ begin' = now.us /\ secs' = 0 /\ usec' = now.us
          ELSE /\ secs' = now.s /\ usec' = now.us
               /\ UNCHANGED <<ram_pc, i, begin, gave_up>>
  /\ UNCHANGED <<timeout, ecVars, version>>

(* An access to the status, command or data port fails, without an effect  *)
(* on the interface: the byte is given up.                                 *)
PortFails ==
  /\ ram_pc # "done"
  /\ gave_up' = TRUE
  /\ NextByte
  /\ Restart
  /\ UNCHANGED <<timeout, ecVars, version>>

(* External: the EC takes a command or the offset that follows one; other  *)
(* data it ignores.                                                        *)
EcReads ==
  /\ ibf # Empty
  /\ ec \in {Idle, AwaitsOffset}
  /\ ibf' = Empty
  /\ ec' = IF ibf = Command THEN AwaitsOffset
           ELSE IF ec = AwaitsOffset THEN ibf
           ELSE Idle
  /\ UNCHANGED <<timeout, obf, ram_pc, i, version, clock, gave_up>>

(* External: it answers, when the buffer is free or over what is there.    *)
EcAnswers ==
  /\ ec \in Bytes
  /\ obf' = ec
  /\ ec' = Idle
  /\ UNCHANGED <<timeout, ibf, ram_pc, i, version, clock, gave_up>>

RamStep == WriteCommand \/ WriteOffset \/ ReadData \/ Poll
RamNext == RamStep \/ PortFails \/ EcReads \/ EcAnswers

(* The process runs; nothing is asked of the EC, which may be wedged.      *)
RamSpec == RamInit /\ [][RamNext]_ramVars /\ WF_ramVars(RamStep)
-----------------------------------------------------------------------------
RamTypeOK ==
  /\ timeout \in Timeouts
  /\ ibf \in Bytes \cup {Empty, Command}
  /\ obf \in Bytes \cup {Empty, Foreign}
  /\ ec \in Bytes \cup {Idle, AwaitsOffset}
  /\ ram_pc \in {"ibf_command", "ibf_offset", "obf", "done"}
  /\ i \in Bytes
  /\ version \in [Bytes -> Bytes \cup {Unset, Foreign}]
  /\ begin \in Ticks /\ usec \in Ticks
  /\ secs \in Nat
  /\ gave_up \in BOOLEAN

(* As long as no byte was given up and the output buffer was empty at the  *)
(* start, every byte read is the one that was asked for.                   *)
BytesInPlace ==
  ~gave_up => \A k \in Bytes : k < i \/ ram_pc = "done" => version[k] = k

(* After a byte that was given up the answers are shifted: a byte may be   *)
(* that of an earlier offset.  But no answer is used twice and none        *)
(* overtakes another.                                                      *)
BytesInOrder ==
  \A k, l \in Bytes :
    /\ version[l] <= l
    /\ k < l /\ version[k] # Unset /\ version[l] # Unset
         => version[k] < version[l]

(* What is read are answers of the EC, in place while no byte is given up  *)
(* and in order afterwards, however early or late the waits give up and    *)
(* whichever accesses fail (read_ecram).                                   *)
VersionBytes == BytesInPlace /\ BytesInOrder

(* The command ends with an EC that reads and answers in the end, whatever *)
(* was given up before and whenever the clock is looked at.                *)
EcAlive == WF_ramVars(EcReads) /\ WF_ramVars(EcAnswers)
VersionRead == EcAlive => <>(ram_pc = "done")
=============================================================================
