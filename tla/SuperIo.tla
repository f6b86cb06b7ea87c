------------------------------ MODULE SuperIo ------------------------------
(***************************************************************************)
(* drivers/smsc/mec1308.c, drivers/smsc/mec1308_mbx.c, get_sio_id() of     *)
(* drivers/superio.c and the EC callbacks of alex and lumpy: mosys finds an*)
(* MEC1308 behind one of two super I/O ports, reads its registers, which   *)
(* answer only in configuration mode, and talks to the EC's firmware       *)
(* through a mailbox.  Processes run one after the other; each starts with *)
(* fresh static variables, while the chip keeps its state, also of a       *)
(* process that was killed.                                                *)
(***************************************************************************)
EXTENDS Integers

CONSTANTS
  Boards,    \* subset of {"alex", "lumpy"}
  Chips,     \* the chips a machine may have: [port, id], port 0 is no chip
  MaxPolls,  \* bound: polls of mbx_wait() before it gives up
  MaxRuns    \* bound: processes

ASSUME SuperIoAssumption ==
  /\ Boards \subseteq {"alex", "lumpy"}
  /\ \A c \in Chips : c.port \in {0, 46, 78}
  /\ MaxPolls \in Nat
  /\ MaxRuns \in Nat

VARIABLES
  board, chip,     \* the machine
  mode,            \* the chip is in configuration mode
  ldn,             \* its selected logical device
  cmd,             \* mailbox: the command register; "none" is 0
  mbx_data,            \* mailbox: what the data registers hold
  job,             \* what the EC's firmware is working on
  passthru,        \* the EC passes SPI accesses through and answers nothing
  sio_pc,
  in_sio_cfgmode, port_internal, ec_port, mbx_idx,  \* static variables
  sio,             \* the static variables of get_sio_id()
  ldn_orig,        \* local of mec1308_get_iobad()
  port_try,        \* local i of mec1308_get_sioport()
  polls,           \* us_elapsed / us
  tries,           \* local i of alex's fw_version; 0 during the set-up
  mbx_version,         \* what fw_version returned
  runs,            \* bound: processes so far
  ended,           \* history: how the last process ended
  ldn_start,       \* history: ldn when the process started
  late             \* history: a wait of this process gave up

machine == <<board, chip>>
chipVars == <<mode, ldn>>
mailbox == <<cmd, mbx_data, job, passthru>>
statics == <<in_sio_cfgmode, port_internal, ec_port, mbx_idx, sio>>
sioLocals == <<ldn_orig, port_try, polls, tries, mbx_version>>
sioHistory == <<runs, ended, ldn_start, late>>
sioVars == <<machine, chipVars, mailbox, sio_pc, statics, sioLocals,
             sioHistory>>

\* 0x2e, 0x4e
ports == <<46, 78>>
\* chip ids mec1308_detect() accepts, and the smsc entries of superio_ids
DetectedIds == {"4d00", "4d01", "0402"}
superio_ids == {"2d00", "4d01", "0402"}

Unknown == "Unknown"
NoId == [done |-> FALSE, id |-> Unknown]

PCs == {"off", "probe", "detect", "select", "restore", "command", "clear",
        "send", "wait", "unwedge", "unwedge_send", "unwedge_wait",
        "destroy"}

FreshStatics ==
  /\ in_sio_cfgmode' = FALSE
  /\ port_internal' = 0
  /\ ec_port' = 0
  /\ mbx_idx' = "unset"
  /\ sio' = NoId

SioInit ==
  /\ board \in Boards
  /\ chip \in Chips
  /\ mode = FALSE
  /\ ldn = "other"
  /\ cmd = "none" /\ mbx_data = "clear" /\ job = "none"
  /\ passthru \in BOOLEAN
  /\ sio_pc = "off"
  /\ in_sio_cfgmode = FALSE /\ port_internal = 0 /\ ec_port = 0
  /\ mbx_idx = "unset" /\ sio = NoId
  /\ ldn_orig = "other" /\ port_try = 1 /\ polls = 0 /\ tries = 0
  /\ mbx_version = "unread"
  /\ runs = 0 /\ ended = "exit" /\ ldn_start = "other"
  /\ late = FALSE
-----------------------------------------------------------------------------
(* A process starts; setup_post calls the EC's set-up: mec1308_detect().   *)
SioStart ==
  /\ sio_pc = "off" /\ runs < MaxRuns
  /\ runs' = runs + 1
  /\ FreshStatics
  /\ ldn_start' = ldn
  /\ late' = FALSE
  /\ port_try' = 1 /\ polls' = 0 /\ tries' = 0 /\ mbx_version' = "unread"
  /\ sio_pc' = "probe"
  /\ UNCHANGED <<machine, chipVars, mailbox, ldn_orig, ended>>

(* mec1308_sio_enter() on `port`: the chip's mode afterwards.              *)
Entered(port) == mode \/ (~in_sio_cfgmode /\ chip.port = port)

(* mec1308_sio_exit(): chip and flag.                                      *)
(* Mutant: the flag is cleared but the key is not written.                 *)
Exited_NotWritten(port) ==
  /\ mode' = mode
  /\ in_sio_cfgmode' = FALSE

Exited(port) ==
  /\ mode' = IF in_sio_cfgmode /\ chip.port = port THEN FALSE ELSE mode
  /\ in_sio_cfgmode' = FALSE

(* Mutant: a port that did not answer is still believed entered.           *)
Probe_FlagKept ==
  /\ sio_pc = "probe"
  /\ LET port == ports[port_try]
         found == chip.port = port /\ Entered(port)
     IN /\ mode' = Entered(port)
        /\ in_sio_cfgmode' = TRUE
        /\ port_internal' = IF found THEN port ELSE port_internal
        /\ port_try' = IF found THEN port_try ELSE 2
        /\ sio_pc' = IF found THEN "detect"
                 ELSE IF port_try = 2 THEN "destroy" ELSE sio_pc
  /\ UNCHANGED <<machine, ldn, mailbox, ec_port, mbx_idx, sio, ldn_orig,
                 polls, tries, mbx_version, sioHistory>>

(* mec1308_get_sioport(): one port; the index register keeps what is       *)
(* written to it only in configuration mode.  No port: the set-up fails.   *)
Probe ==
  /\ sio_pc = "probe"
  /\ LET port == ports[port_try]
         found == chip.port = port /\ Entered(port)
     IN /\ mode' = Entered(port)
        /\ in_sio_cfgmode' = found
        /\ port_internal' = IF found THEN port ELSE port_internal
        /\ port_try' = IF found THEN port_try ELSE 2
        /\ sio_pc' = IF found THEN "detect"
                 ELSE IF port_try = 2 THEN "destroy" ELSE sio_pc
  /\ UNCHANGED <<machine, ldn, mailbox, ec_port, mbx_idx, sio, ldn_orig,
                 polls, tries, mbx_version, sioHistory>>

(* Mutant: the mode is left once the id is known.                          *)
Detect_Leaves ==
  /\ sio_pc = "detect"
  /\ mode' = FALSE /\ in_sio_cfgmode' = FALSE
  /\ IF mode /\ chip.id \in DetectedIds
     THEN sio_pc' = "select" /\ ec_port' = port_internal
     ELSE sio_pc' = "destroy" /\ UNCHANGED ec_port
  /\ UNCHANGED <<machine, ldn, mailbox, port_internal, mbx_idx, sio,
                 sioLocals, sioHistory>>

(* The chip id; mec1308_mbx_setup() follows for a chip that is known.      *)
Detect ==
  /\ sio_pc = "detect"
  /\ IF mode /\ chip.id \in DetectedIds
     THEN sio_pc' = "select" /\ ec_port' = port_internal
     ELSE sio_pc' = "destroy" /\ UNCHANGED ec_port
  /\ UNCHANGED <<machine, chipVars, mailbox, in_sio_cfgmode, port_internal,
                 mbx_idx, sio, sioLocals, sioHistory>>

(* mec1308_get_iobad(): the mailbox's logical device is selected, ...      *)
SelectLdn ==
  /\ sio_pc = "select"
  /\ ldn_orig' = ldn
  /\ ldn' = "mbx"
  /\ sio_pc' = "restore"
  /\ UNCHANGED <<machine, mode, mailbox, statics, port_try, polls, tries,
                 mbx_version, sioHistory>>

(* Mutant: the logical device is left selected.                            *)
RestoreLdn_Left ==
  /\ sio_pc = "restore"
  /\ mbx_idx' = IF mode /\ ldn = "mbx" THEN "mailbox" ELSE "garbage"
  /\ sio_pc' = IF board = "alex" THEN "unwedge" ELSE "command"
  /\ UNCHANGED <<machine, chipVars, mailbox, in_sio_cfgmode, port_internal,
                 ec_port, sio, sioLocals, sioHistory>>

(* ... its address is read, and the selection restored.  The mode stays on *)
(* because it was on before.                                               *)
RestoreLdn ==
  /\ sio_pc = "restore"
  /\ mbx_idx' = IF mode /\ ldn = "mbx" THEN "mailbox" ELSE "garbage"
  /\ ldn' = ldn_orig
  /\ sio_pc' = IF board = "alex" THEN "unwedge" ELSE "command"
  /\ UNCHANGED <<machine, mode, mailbox, in_sio_cfgmode, port_internal,
                 ec_port, sio, sioLocals, sioHistory>>

(* mec1308_sio_vendor(), mec1308_sio_name(): get_sio_id() reads the chip   *)
(* id once for the process.  An id it does not know ends the call before   *)
(* the mode is left.                                                       *)
SioName ==
  /\ sio_pc = "command"
  /\ LET entered == Entered(port_internal)
     IN /\ sio' = IF sio.done THEN sio
                  ELSE [done |-> TRUE,
                        id |-> IF entered /\ chip.id \in superio_ids
                               THEN chip.id ELSE Unknown]
        /\ in_sio_cfgmode' = (sio'.id = Unknown)
        /\ mode' = IF sio'.id # Unknown /\ chip.port = port_internal
                   THEN FALSE ELSE entered
  /\ UNCHANGED <<machine, ldn, mailbox, sio_pc, port_internal, ec_port,
                 mbx_idx, sioLocals, sioHistory>>

(* mec1308_mbx_teardown(), after a command and after a failed set-up, and  *)
(* the end of the process.                                                 *)
Destroy ==
  /\ sio_pc \in {"command", "destroy"}
  /\ Exited(ec_port)
  /\ sio_pc' = "off" /\ ended' = "exit"
  /\ UNCHANGED <<machine, ldn, mailbox, port_internal, ec_port, mbx_idx, sio,
                 sioLocals, runs, ldn_start, late>>
-----------------------------------------------------------------------------
(* The EC's fw_version callback: buffer and mailbox are cleared.           *)
FwVersion ==
  /\ sio_pc = "command"
  /\ tries' = 1
  /\ mbx_version' = "" /\ sio_pc' = "clear"
  /\ UNCHANGED <<machine, chipVars, mailbox, statics, ldn_orig, port_try,
                 polls, sioHistory>>

(* mbx_clear(): its write of 0 to the command register needs no wait.      *)
Clear ==
  /\ sio_pc = "clear"
  /\ mbx_data' = "clear" /\ cmd' = "none"
  /\ mbx_version' = "" /\ sio_pc' = "send"
  /\ UNCHANGED <<machine, chipVars, job, passthru, statics, ldn_orig,
                 port_try, polls, tries, sioHistory>>

Send ==
  /\ sio_pc = "send"
  /\ cmd' = "version"
  /\ polls' = 0 /\ sio_pc' = "wait"
  /\ UNCHANGED <<machine, chipVars, mbx_data, job, passthru, statics,
                 ldn_orig, port_try, tries, mbx_version, sioHistory>>

(* mec1308_mbx_exit_passthru_mode(): the text, then the command.           *)
Unwedge ==
  /\ sio_pc = "unwedge"
  /\ mbx_data' = "End_Mode" /\ sio_pc' = "unwedge_send"
  /\ UNCHANGED <<machine, chipVars, cmd, job, passthru, statics, sioLocals,
                 sioHistory>>

UnwedgeSend ==
  /\ sio_pc = "unwedge_send"
  /\ cmd' = "exit"
  /\ polls' = 0 /\ sio_pc' = "unwedge_wait"
  /\ UNCHANGED <<machine, chipVars, mbx_data, job, passthru, statics,
                 ldn_orig, port_try, tries, mbx_version, sioHistory>>

(* Where fw_version goes after a try: alex tries three times in any case.  *)
AfterTry == IF board = "alex" /\ tries < 3 THEN "clear" ELSE "command"
NextTry == tries' = IF board = "alex" /\ tries < 3 THEN tries + 1 ELSE tries

(* Mutant: the wait is over before the command is.                         *)
Answered_NotWaited ==
  /\ sio_pc \in {"wait", "unwedge_wait"}
  /\ mbx_version' = CASE sio_pc = "wait" /\ mbx_data = "version" -> "version"
                      [] sio_pc = "wait" /\ mbx_data # "version" -> ""
                      [] OTHER -> mbx_version
  /\ IF tries = 0 THEN sio_pc' = "command" /\ UNCHANGED tries
     ELSE sio_pc' = AfterTry /\ NextTry
  /\ UNCHANGED <<machine, chipVars, mailbox, statics, ldn_orig, port_try,
                 polls, sioHistory>>

(* mbx_wait() finds the command register cleared: the answer is read.  Only*)
(* letters and digits count, so what does not begin with one reads as "".  *)
Answered ==
  /\ \/ /\ sio_pc = "wait" /\ cmd = "none"
        /\ mbx_version' = CASE mbx_data = "version" -> "version"
                            [] mbx_data = "End_Mode" -> "End"
                            [] OTHER -> ""
        /\ sio_pc' = AfterTry /\ NextTry
     \/ /\ sio_pc = "unwedge_wait" /\ cmd = "none"
        /\ IF tries = 0 THEN sio_pc' = "command" /\ UNCHANGED tries
           ELSE sio_pc' = AfterTry /\ NextTry
        /\ UNCHANGED mbx_version
  /\ UNCHANGED <<machine, chipVars, mailbox, statics, ldn_orig, port_try,
                 polls, sioHistory>>

(* Mutant: the time slept is not added up.                                 *)
MbxPoll_NotAdded ==
  /\ sio_pc \in {"wait", "unwedge_wait"} /\ cmd # "none"
  /\ polls < MaxPolls
  /\ UNCHANGED sioVars

MbxPoll ==
  /\ sio_pc \in {"wait", "unwedge_wait"} /\ cmd # "none"
  /\ polls < MaxPolls
  /\ polls' = polls + 1
  /\ UNCHANGED <<machine, chipVars, mailbox, sio_pc, statics, ldn_orig,
                 port_try, tries, mbx_version, sioHistory>>

(* The wait gives up: alex tries to get the EC out of pass-through mode    *)
(* and, either way, tries again; lumpy returns no version.                 *)
GivesUp ==
  /\ sio_pc \in {"wait", "unwedge_wait"} /\ cmd # "none"
  /\ polls = MaxPolls
  /\ late' = TRUE
  /\ IF sio_pc = "wait" /\ board = "alex"
     THEN sio_pc' = "unwedge" /\ UNCHANGED tries
     ELSE IF tries = 0 THEN sio_pc' = "command" /\ UNCHANGED tries
     ELSE sio_pc' = AfterTry /\ NextTry
  /\ UNCHANGED <<machine, chipVars, mailbox, statics, ldn_orig, port_try,
                 polls, mbx_version, runs, ended, ldn_start>>

(* External: the EC's firmware sees a command; in pass-through mode only   *)
(* the one that ends it.                                                   *)
MbxTakes ==
  /\ job = "none" /\ cmd # "none"
  /\ passthru => cmd = "exit"
  /\ job' = cmd
  /\ UNCHANGED <<machine, chipVars, cmd, mbx_data, passthru, sio_pc, statics,
                 sioLocals, sioHistory>>

(* External: it answers and clears the command register, whatever is in it *)
(* by now.                                                                 *)
MbxAnswers ==
  /\ job # "none"
  /\ mbx_data' = IF job = "version" THEN "version" ELSE "result"
  /\ passthru' = (passthru /\ job # "exit")
  /\ cmd' = "none" /\ job' = "none"
  /\ UNCHANGED <<machine, chipVars, sio_pc, statics, sioLocals, sioHistory>>

(* The process is killed; the chip stays as it is.                         *)
SioKilled ==
  /\ sio_pc # "off"
  /\ sio_pc' = "off" /\ ended' = "killed"
  /\ UNCHANGED <<machine, chipVars, mailbox, statics, sioLocals, runs,
                 ldn_start, late>>

SioStep ==
  \/ Probe \/ Detect \/ SelectLdn \/ RestoreLdn \/ SioName \/ Destroy
  \/ FwVersion \/ Clear \/ Send \/ Unwedge \/ UnwedgeSend
  \/ Answered \/ MbxPoll \/ GivesUp

SioNext == SioStart \/ SioStep \/ MbxTakes \/ MbxAnswers \/ SioKilled

SioSpec == SioInit /\ [][SioNext]_sioVars
-----------------------------------------------------------------------------
SioTypeOK ==
  /\ board \in Boards /\ chip \in Chips
  /\ mode \in BOOLEAN /\ ldn \in {"other", "mbx"}
  /\ cmd \in {"none", "version", "exit"}
  /\ mbx_data \in {"clear", "version", "End_Mode", "result"}
  /\ job \in {"none", "version", "exit"}
  /\ passthru \in BOOLEAN
  /\ sio_pc \in PCs
  /\ in_sio_cfgmode \in BOOLEAN
  /\ port_internal \in {0, 46, 78} /\ ec_port \in {0, 46, 78}
  /\ mbx_idx \in {"unset", "mailbox", "garbage"}
  /\ sio \in [done : BOOLEAN, id : superio_ids \cup {Unknown}]
  /\ ldn_orig \in {"other", "mbx"} /\ ldn_start \in {"other", "mbx"}
  /\ port_try \in {1, 2}
  /\ polls \in 0 .. MaxPolls
  /\ tries \in 0 .. 3
  /\ mbx_version \in {"unread", "", "version", "End"}
  /\ runs \in 0 .. MaxRuns
  /\ ended \in {"exit", "killed"}
  /\ late \in BOOLEAN

(* A process that comes to its end leaves the chip out of configuration    *)
(* mode, whatever was asked in which order and even when a killed process  *)
(* had left it there; only a chip that mec1308_detect() does not know stays*)
(* in it, since ec_port is still 0 when the teardown wants to leave.       *)
ConfigLeft ==
  sio_pc = "off" /\ ended = "exit" /\ chip.id \in DetectedIds => ~mode

(* A chip at either port is found and used, also by a process that finds it*)
(* in configuration mode already.                                          *)
NoChipMissed ==
  sio_pc = "destroy" => chip.port = 0 \/ chip.id \notin DetectedIds

(* The selection of the logical device, which firmware relies on, is as    *)
(* the process found it, also after a failed set-up.                       *)
SelectionRestored == sio_pc = "off" /\ ended = "exit" => ldn = ldn_start

(* What was read of the configuration registers was read in configuration  *)
(* mode: the mailbox is where the chip says, and the id cached for the     *)
(* process is the chip's.                                                  *)
ReadInMode ==
  /\ mbx_idx # "garbage"
  /\ sio.done => sio.id = IF chip.id \in superio_ids THEN chip.id ELSE Unknown

(* What a process does to a chip others use, too (mec1308.c): it finds it, *)
(* reads it in configuration mode and gives it back as it was.             *)
ChipKept == NoChipMissed /\ ReadInMode /\ ConfigLeft /\ SelectionRestored

(* The version is the EC's own when every wait of the process saw its      *)
(* command end, also when the EC still worked for a process that was       *)
(* killed; late answers to commands this one abandoned can make it empty   *)
(* but never something else.                                               *)
VersionTrue ==
  /\ mbx_version \in {"unread", "", "version"}
  /\ sio_pc = "command" /\ ~late => mbx_version # ""

(* The set-up, a mailbox command and the clean-up end, with an EC that     *)
(* never answers too.                                                      *)
SioReturns == sio_pc \notin {"off", "command"} ~> sio_pc \in {"off", "command"}
=============================================================================
