----------------------------- MODULE MosysMain -----------------------------
(***************************************************************************)
(* One mosys process from mosys_main() to exit(): the big lock, the search *)
(* for the platform (mosys_platform_setup), the set-up of the board and of *)
(* its ChromeOS EC devices, one command, the teardown and the exit status. *)
(* The boards are those of module Boards; a build has a list of them.      *)
(*                                                                         *)
(* A device callback (ec_cb) is usable once its priv is set and priv->cmd  *)
(* points to a transport: priv and cmd are the sets of devices for which   *)
(* that is so.  MOSYS_CHECK(priv) aborts; a call through a null cmd or a   *)
(* null callback crashes.                                                  *)
(***************************************************************************)
EXTENDS Integers, Sequences, SequencesExt

CONSTANTS
  Builds,      \* the platform_intf_list of each build looked at
  Garbage,     \* what an uninitialized int may hold
  CommandRcs   \* what a transport command returns besides 0

ASSUME MosysMainAssumption ==
  /\ Garbage \subseteq Int
  /\ CommandRcs \subseteq {-r : r \in 1..14} \cup {-1000 - r : r \in 1..14}

ENOSYS == 38
EINVAL == 22
EIO == 5        \* stands for any errno a device or a file leaves behind

Devices == {"ec", "pd", "fp"}

\* A platform_intf, cut down as module Boards explains.
PlatformIntf ==
  [name : STRING, by_name : BOOLEAN, must : BOOLEAN, config : BOOLEAN,
   post : {"none", "dev", "lpc", "dev_i2c", "legacy"}, devs : Seq(Devices),
   cb : SUBSET (Devices \cup {"legacy_ec"}), optional : SUBSET Devices,
   closes : SUBSET Devices, tested : BOOLEAN,
   vboot : {"none", "ec", "flash", "fdt", "variant"},
   version : {"ec", "other"}, sub : SUBSET STRING]

\* What the ways of setting a board up take for granted about its tables.
WellFormed(b) ==
  /\ \A i, j \in DOMAIN b.devs : b.devs[i] = b.devs[j] => i = j
  /\ Range(b.devs) \subseteq b.cb
  /\ b.post \in {"none", "legacy"} => b.devs = << >> /\ "ec" \notin b.cb
  /\ b.post \in {"lpc", "dev_i2c"} => b.devs = <<"ec">>
  /\ b.must => b.post \in {"dev_i2c", "legacy"}
  /\ b.vboot \in {"fdt", "variant"} => b.post = "dev"
  /\ b.optional \subseteq Range(b.devs)
  /\ b.optional # {} => b.post = "dev"
  /\ b.closes \subseteq b.cb
  /\ b.tested \/ b.closes \cap b.optional = {}
  /\ b.vboot \in {"ec", "fdt"} \/ b.version = "ec" =>
       "ec" \in b.cb \ b.optional
  /\ b.vboot = "variant" => "ec" \in b.cb

ASSUME BuildsAssumption ==
  /\ Builds \subseteq Seq(PlatformIntf)
  /\ \A l \in Builds : \A i \in DOMAIN l : WellFormed(l[i])

VARIABLES
  pc,        \* where mosys_main is
  list,      \* platform_intf_list of this build
  hw,        \* the machine: a board's name, or one nobody knows
  p_opt,     \* the argument of -p, or NoName
  forced,    \* -f
  locked,    \* this process holds the big lock
  idx,       \* the board being looked at; the one found, afterwards
  full,      \* has_ec or has_pd of the variant found
  roots,     \* i2c sys_root and dev_root: "unset", "set", "freed"
  todo,      \* devices setup_post still has to set up
  cb,        \* callbacks of the board that are not null
  sub,       \* its commands
  priv,      \* devices whose ec_cb has a priv
  cmd,       \* devices whose priv->cmd is set
  found,     \* devices that answered HELLO
  fds,       \* devices whose /dev node is open
  dtor,      \* devices whose ec_cb->destroy is set
  vboot,     \* medium of the nvram callbacks
  asked,     \* history: devices the command sent something to
  rc, errsv, \* as in mosys_main
  saved,     \* history: errsv was assigned
  status     \* exit status, or one of the three below

vars == <<pc, list, hw, p_opt, forced, locked, idx, full, roots, todo, cb, sub,
          priv, cmd, found, fds, dtor, vboot, asked, rc, errsv, saved, status>>
given == <<list, hw, p_opt, forced>>
board == <<idx, full>>
devs == <<cb, sub, priv, cmd, found, fds, dtor, vboot>>
result == <<asked, rc, errsv, saved, status>>

NoName == "none"

\* Values of status that no exit status has.
Running == -1
Crash == -2     \* SIGSEGV
Abort == -3     \* SIGABRT, from MOSYS_CHECK
intf == list[idx]

PCs == {"lock", "probe", "setup", "post", "ready", "destroy", "unlock",
        "exit", "end"}

TypeOK ==
  /\ pc \in PCs
  /\ locked \in BOOLEAN /\ full \in BOOLEAN /\ saved \in BOOLEAN
  /\ idx \in 1 .. Len(list) + 1
  /\ roots \in {"unset", "set", "freed"}
  /\ todo \in Seq(Devices)
  /\ cb \subseteq Devices \cup {"legacy_ec"}
  /\ cmd \subseteq priv /\ priv \subseteq Devices
  /\ found \subseteq cmd /\ fds \subseteq dtor /\ dtor \subseteq cmd
  /\ vboot \in {"none", "ec", "flash", "fdt", "variant"}
  /\ asked \subseteq Devices
  /\ rc \in {0} \cup CommandRcs \cup {-1}
  /\ errsv \in {0, ENOSYS, EINVAL, EIO}
  /\ status \in 0..255 \cup {Running, Crash, Abort}

NamesOf(l) == {b.name : b \in Range(l)}

Init ==
  /\ pc = "lock" /\ locked = FALSE
  /\ list \in Builds
  /\ hw \in NamesOf(list) \cup {"unknown"}
  /\ p_opt \in NamesOf(list) \cup {NoName}
  /\ forced \in BOOLEAN
  /\ idx = 1 /\ full = TRUE /\ roots = "unset" /\ todo = << >>
  /\ cb = {} /\ sub = {} /\ priv = {} /\ cmd = {} /\ found = {}
  /\ fds = {} /\ dtor = {} /\ vboot = "none" /\ asked = {}
  /\ rc = 0 /\ errsv = 0 /\ saved = FALSE /\ status = Running

-----------------------------------------------------------------------------
(* The lock and the search for the platform.                               *)

\* Mutant: the result of mosys_acquire_big_lock() is not looked at.
Lock_Unchecked ==
  /\ pc = "lock"
  /\ locked' \in BOOLEAN /\ pc' = "probe"
  /\ UNCHANGED <<given, board, roots, todo, devs, result>>

\* mosys_acquire_big_lock() succeeds, gives up after its time, or is skipped.
Lock ==
  /\ pc = "lock"
  /\ \/ /\ forced
        /\ pc' = "probe" /\ UNCHANGED <<locked, rc>>
     \/ /\ ~forced
        /\ locked' = TRUE /\ pc' = "probe" /\ UNCHANGED rc
     \/ /\ ~forced
        /\ rc' = -1 /\ pc' = "exit" /\ UNCHANGED locked
  /\ UNCHANGED <<given, board, roots, todo, devs, asked, errsv, saved, status>>

\* The board looked at is the one -p names, or probe() recognizes the machine.
Matches == IF p_opt = NoName THEN intf.name = hw
           ELSE intf.by_name /\ intf.name = p_opt

\* Mutant: the loop does not advance past a board that does not match.
NextBoard_Stays ==
  /\ pc = "probe" /\ idx <= Len(list)
  /\ Matches => p_opt = NoName
  /\ UNCHANGED vars

\* No match; or probe() reports an error, which only skips the board.
NextBoard ==
  /\ pc = "probe" /\ idx <= Len(list)
  /\ Matches => p_opt = NoName
  /\ idx' = idx + 1
  /\ UNCHANGED <<pc, given, locked, full, roots, todo, devs, result>>

NotFound ==
  /\ pc = "probe" /\ idx = Len(list) + 1
  /\ rc' = -1 /\ pc' = "unlock"
  /\ UNCHANGED <<given, locked, board, roots, todo, devs, asked, errsv, saved,
                 status>>

\* The static data of the board found come into use.  A board found by name
\* has not been probed: which variant it takes itself for is arbitrary.
Found ==
  /\ pc = "probe" /\ idx <= Len(list) /\ Matches
  /\ full' \in IF intf.optional = {} THEN {TRUE} ELSE BOOLEAN
  /\ cb' = intf.cb /\ sub' = intf.sub /\ vboot' = intf.vboot
  /\ todo' = intf.devs
  /\ priv' = (IF intf.post = "lpc" THEN {"ec"} ELSE {}) /\ cmd' = priv'
  /\ pc' = "setup"
  /\ UNCHANGED <<given, locked, idx, roots, found, fds, dtor, result>>

-----------------------------------------------------------------------------
(* Teardown, which failing set-ups use too.                                *)

\* Mutant: no board tests the device pointer before it looks at it.
NullDestroy_Untested == ~(intf.closes \subseteq cb)

\* The board's destroy dereferences a device pointer that has become null.
NullDestroy == ~intf.tested /\ ~(intf.closes \subseteq cb)

\* Mutant: the board's destroy is not called.
DestroyBoard_Skipped == UNCHANGED fds

\* The board's destroy calls the destroy callbacks that are set.
DestroyBoard == fds' = fds \ (intf.closes \cap cb \cap dtor)

intf_op_destroy == roots' = "freed"

\* A signal ends the process; the kernel drops the lock.
Killed(signal) == status' = signal /\ pc' = "end" /\ locked' = FALSE

\* mosys_platform_setup() returns null.
SetupFails == rc' = -1 /\ pc' = "unlock"

-----------------------------------------------------------------------------
(* intf_op_setup() and setup_post.                                         *)

OpSetup ==
  /\ pc = "setup"
  /\ roots' = "set"
  /\ pc' = IF intf.post = "none" THEN "ready" ELSE "post"
  /\ UNCHANGED <<given, locked, board, todo, devs, result>>

\* Port I/O is not available.
OpSetupFails ==
  /\ pc = "setup"
  /\ DestroyBoard /\ intf_op_destroy
  /\ SetupFails
  /\ UNCHANGED <<given, locked, board, todo, cb, sub, priv, cmd, found, dtor,
                 vboot, asked, errsv, saved, status>>

\* The variant has no such device: its pointer and its command go.
Dropped(d) == d \in intf.optional /\ ~full

DropDevice ==
  /\ pc = "post" /\ intf.post = "dev" /\ todo # << >> /\ Dropped(Head(todo))
  /\ cb' = cb \ {Head(todo)} /\ sub' = sub \ {Head(todo)}
  /\ todo' = Tail(todo)
  /\ UNCHANGED <<pc, given, locked, board, roots, priv, cmd, found, fds, dtor,
                 vboot, result>>

\* cros_{ec,pd,fp}_setup(): the /dev node cannot be opened.  The EC keeps its
\* callbacks, without a transport; the PD and the FP lose theirs.
OpenFails ==
  /\ pc = "post" /\ intf.post = "dev" /\ todo # << >> /\ ~Dropped(Head(todo))
  /\ priv' = priv \cup {Head(todo)}
  /\ cb' = cb \ ({Head(todo)} \ {"ec"})
  /\ todo' = Tail(todo)
  /\ UNCHANGED <<pc, given, locked, board, roots, sub, cmd, found, fds, dtor,
                 vboot, result>>

\* The node is opened, and the device answers HELLO or does not.
OpenDevice ==
  /\ pc = "post" /\ intf.post = "dev" /\ todo # << >> /\ ~Dropped(Head(todo))
  /\ priv' = priv \cup {Head(todo)} /\ cmd' = cmd \cup {Head(todo)}
  /\ fds' = fds \cup {Head(todo)} /\ dtor' = dtor \cup {Head(todo)}
  /\ \E answers \in SUBSET {Head(todo)} : found' = found \cup answers
  /\ todo' = Tail(todo)
  /\ UNCHANGED <<pc, given, locked, board, roots, cb, sub, vboot, result>>

\* The end of a setup_post: the nvram callbacks are chosen.
PostDone ==
  /\ pc = "post" /\ intf.post = "dev" /\ todo = << >>
  /\ vboot' \in CASE vboot = "fdt" -> {"ec", "flash"}
                  [] vboot = "variant" -> {IF full THEN "ec" ELSE "flash"}
                  [] OTHER -> {vboot}
  /\ pc' = "ready"
  /\ UNCHANGED <<given, locked, board, roots, todo, cb, sub, priv, cmd, found,
                 fds, dtor, result>>

\* The EC on the LPC bus: not finding it is not an error.
PostLpc ==
  /\ pc = "post" /\ intf.post = "lpc"
  /\ found' \in SUBSET {"ec"}
  /\ todo' = << >> /\ pc' = "ready"
  /\ UNCHANGED <<given, locked, board, roots, cb, sub, priv, cmd, fds, dtor,
                 vboot, result>>

\* Mutant: the set-up of the board only fails on a negative result.
PostI2c_MayMiss ==
  /\ pc = "post" /\ intf.post = "dev_i2c"
  /\ priv' = {"ec"} /\ cmd' = {"ec"}
  /\ fds' \in SUBSET {"ec"} /\ dtor' = fds'
  /\ todo' = << >>
  /\ found' \in SUBSET {"ec"} /\ pc' = "ready"
  /\ UNCHANGED <<given, locked, board, roots, cb, sub, vboot, result>>

\* The EC through its /dev node or, failing that, through raw I2C.
PostI2c ==
  /\ pc = "post" /\ intf.post = "dev_i2c"
  /\ priv' = {"ec"} /\ cmd' = {"ec"}
  /\ fds' \in SUBSET {"ec"} /\ dtor' = fds'
  /\ todo' = << >>
  /\ \/ /\ found' = {"ec"} /\ pc' = "ready" /\ UNCHANGED rc
     \/ /\ found' = {} /\ SetupFails
  /\ UNCHANGED <<given, locked, board, roots, cb, sub, vboot, asked, errsv,
                 saved, status>>

\* EEPROM callbacks, and an EC or super I/O chip that may have to be there.
PostLegacy ==
  /\ pc = "post" /\ intf.post = "legacy"
  /\ \/ pc' = "ready" /\ UNCHANGED rc
     \/ intf.must /\ SetupFails
  /\ UNCHANGED <<given, locked, board, roots, todo, devs, asked, errsv, saved,
                 status>>

\* The board configuration is unknown, or the device tree does not say where
\* vboot's data are.  The board is destroyed, the operations are not.
PostFails ==
  /\ pc = "post"
  /\ \/ intf.config /\ todo = intf.devs
     \/ intf.vboot = "fdt" /\ todo = << >>
  /\ DestroyBoard
  /\ SetupFails
  /\ UNCHANGED <<given, locked, board, roots, todo, cb, sub, priv, cmd, found,
                 dtor, vboot, asked, errsv, saved, status>>

-----------------------------------------------------------------------------
(* The command.                                                            *)

\* The handler returns r with errno e.
Finish(r, e) ==
  /\ rc' = r /\ errsv' = e /\ saved' = TRUE
  /\ pc' = "destroy"
  /\ UNCHANGED status

KeepsBoard == UNCHANGED <<given, board, roots, todo, devs>>

ShowTree ==
  /\ pc = "ready"
  /\ rc' = 0 /\ pc' = "destroy"
  /\ KeepsBoard /\ UNCHANGED <<locked, asked, errsv, saved, status>>

\* intf_main() does not find the command.
NotSupported ==
  /\ pc = "ready"
  /\ Finish(-1, ENOSYS)
  /\ KeepsBoard /\ UNCHANGED <<locked, asked>>

\* sub_main(): help, or a missing or unknown sub-command.
SubMenu ==
  /\ pc = "ready"
  /\ Finish(0, 0) \/ Finish(-1, 0) \/ Finish(-1, EINVAL)
  /\ KeepsBoard /\ UNCHANGED <<locked, asked>>

\* A handler sends commands to device d: it ends with a result from Results,
\* or with a signal if the device was never set up.
Ask(d, Results) ==
  /\ asked' = asked \cup {d}
  /\ IF d \in cmd
     THEN /\ \E r \in Results, e \in {0, EIO} : Finish(r, e)
          /\ UNCHANGED locked
     ELSE /\ Killed(IF d \in priv THEN Crash ELSE Abort)
          /\ UNCHANGED <<rc, errsv, saved>>

\* ec_info(), pd_info(), fp_info(): what a device does not answer is left out
\* of the output, and the command succeeds.
Info ==
  /\ pc = "ready"
  /\ \E d \in sub \cap Devices :
       \/ /\ d \in cb
          /\ Ask(d, {0})
       \/ /\ d = "ec" /\ "legacy_ec" \in cb
          /\ Finish(0, EIO) /\ UNCHANGED <<locked, asked>>
       \/ /\ d \notin cb /\ ~(d = "ec" /\ "legacy_ec" \in cb)
          /\ Finish(-1, ENOSYS) /\ UNCHANGED <<locked, asked>>
  /\ KeepsBoard

\* pd_chip_info() asks the EC, whose result code it returns.
Chip ==
  /\ pc = "ready" /\ "pd" \in sub
  /\ IF "ec" \in cb THEN Ask("ec", {0} \cup CommandRcs)
     ELSE Finish(-1, 0) /\ UNCHANGED <<locked, asked>>
  /\ KeepsBoard

\* nvram_vboot_read().  Reading the flash runs flashrom, around which the big
\* lock is given away; it may not be had again.
Vboot ==
  /\ pc = "ready" /\ "nvram" \in sub
  /\ \/ vboot = "none" /\ Finish(-1, ENOSYS) /\ UNCHANGED <<locked, asked>>
     \/ vboot = "ec" /\ Ask("ec", {0, -1})
     \/ /\ vboot = "flash" /\ UNCHANGED asked
        /\ \/ Finish(0, 0) /\ UNCHANGED locked
           \/ Finish(-1, EIO) /\ locked' \in {locked, FALSE}
  /\ KeepsBoard

\* "platform version": the EC's board version, "Unknown" if it has none.
Version ==
  /\ pc = "ready" /\ "platform" \in sub
  /\ IF intf.version = "ec" THEN Ask("ec", {0})
     ELSE Finish(0, 0) \/ Finish(-1, EIO)
  /\ intf.version # "ec" => UNCHANGED <<locked, asked>>
  /\ KeepsBoard

-----------------------------------------------------------------------------
(* The end.                                                                *)

\* mosys_platform_destroy().
Destroy ==
  /\ pc = "destroy"
  /\ IF NullDestroy
     THEN Killed(Crash) /\ UNCHANGED <<fds, roots>>
     ELSE /\ DestroyBoard /\ intf_op_destroy
          /\ pc' = "unlock" /\ UNCHANGED <<locked, status>>
  /\ UNCHANGED <<given, board, todo, cb, sub, priv, cmd, found, dtor, vboot,
                 asked, rc, errsv, saved>>

Unlock ==
  /\ pc = "unlock"
  /\ locked' = FALSE /\ pc' = "exit"
  /\ UNCHANGED <<given, board, roots, todo, devs, result>>

\* Mutant: errno is the exit status of every failure, also when it is 0.
ExitStatus_AnyErrno(r, e) == (IF r < 0 THEN e ELSE r) % 256

\* exit() keeps the low eight bits.  errsv is uninitialized unless a command
\* was run.
ExitStatus(r, e) == (IF r < 0 /\ e > 0 THEN e ELSE r) % 256

Exit ==
  /\ pc = "exit"
  /\ \E e \in (IF saved THEN {errsv} ELSE Garbage) :
       status' = ExitStatus(rc, e)
  /\ pc' = "end"
  /\ UNCHANGED <<given, locked, board, roots, todo, devs, asked, rc, errsv,
                 saved>>

Next ==
  \/ Lock \/ NextBoard \/ NotFound \/ Found \/ OpSetup \/ OpSetupFails
  \/ DropDevice \/ OpenFails \/ OpenDevice \/ PostDone \/ PostLpc \/ PostI2c
  \/ PostLegacy \/ PostFails \/ ShowTree \/ NotSupported \/ SubMenu \/ Info
  \/ Chip \/ Vboot \/ Version \/ Destroy \/ Unlock \/ Exit

\* A process that is not waiting for anybody keeps running; the wait for the
\* lock is bounded by its time-out.
Spec == Init /\ [][Next]_vars /\ WF_vars(Next)

-----------------------------------------------------------------------------
(* Properties.                                                             *)

\* A command only ever runs on the board that -p names or that the machine
\* is, under the big lock unless -f was given, with the i2c paths in place,
\* with every device of the board either probed or gone from its callbacks,
\* and with the part the board cannot do without found.
ReadyForCommand ==
  pc = "ready" =>
    /\ intf.name = IF p_opt = NoName THEN hw ELSE p_opt
    /\ locked \/ forced
    /\ roots = "set"
    /\ todo = << >>
    /\ Range(intf.devs) \cap cb \subseteq priv
    /\ Range(intf.devs) \cap cb \subseteq cmd \cup {"ec"}
    /\ intf.must /\ "ec" \in cb => "ec" \in found
    /\ vboot \in {"none", "ec", "flash"}

\* A process only dies of a signal when the board has a device that its
\* variant is supposed to have and that could not be opened or was never set
\* up: a variant without an EC or a PD never brings mosys down.
SignalNeedsMissingDevice ==
  status \in {Crash, Abort} =>
    \E d \in intf.cb : d \notin cmd /\ ~Dropped(d)

\* The exit status of a command tells whether its handler succeeded: no
\* failure, whatever its code and its errno, ends in status 0.
StatusTells ==
  saved /\ pc = "end" /\ status \notin {Crash, Abort} =>
    (status = 0 <=> rc = 0)

\* A process that ends by itself leaves nothing locked; and when its command
\* was run, the i2c paths are freed and no device that the board closes is
\* left open.
TornDown ==
  /\ pc = "end" => ~locked
  /\ pc = "end" /\ saved /\ status \notin {Crash, Abort} =>
       roots = "freed" /\ fds \cap intf.closes = {}

\* Devices are only opened, probed and asked under the big lock or with -f.
DevicesUnderLock ==
  [][ ~(fds' \cup found' \cup asked' \subseteq fds \cup found \cup asked)
      => locked \/ forced ]_vars

\* Every run of mosys comes to an end.
Ends == <>(pc = "end")

\* cros_ec_dev.c: "Allow PD probe to fail if not present on a board".  So a
\* board whose EC is there and whose PD is not still works.
PdMayBeMissing ==
  status \in {Crash, Abort} =>
    ~("pd" \in Range(intf.devs) /\ "pd" \notin cb /\ "ec" \in cmd)
=============================================================================
