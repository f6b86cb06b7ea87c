# A verification project for mosys

mosys is a command line tool that reads and changes firmware-level state of a
machine: the event log, vboot's non-volatile data, VPD, SMBIOS, GPIOs, the
embedded controller (EC).  One process runs one command and exits.  Several
processes run at the same time, next to other firmware utilities, and what they
touch is shared: flash regions, the EC's mailbox, I2C buses.  What can go wrong
lies in how processes exclude each other, in what happens while a process has
given the lock away to a tool it runs, in set-ups that fail half-way, and in
pollers and parsers that trust what hardware returns.

1. [Inventory](#inventory)
2. [Modules](#modules) and how they correspond to the code
3. [Runs](#runs): what TLC checks, the bounds, the fairness
4. [Theorems](#theorems): what TLAPS proves, and how
5. [Disagreements found](#disagreements-found)
6. [Not modelled](#not-modelled)
7. [Plan](#plan)

## Inventory

Paths are below `src/`.

| component | source | state it keeps | operations | hard because of | correct when |
|---|---|---|---|---|---|
| file lock, the default `ipc_lock` | `core/file_lock.c` | owner of the flock, PID in the lockfile, `struct ipc_lock` of each process | `mosys_lock`, `mosys_unlock` | polling with a countdown, EINTR, deaths, two system calls to write a PID | one holder, bounded wait, nothing leaked, the PID file names the holder |
| SysV lock, the other `ipc_lock` | `core/ipc_lock.c`, `core/csem.c` | semaphore value, `sem_otime`, undo counts | the same | creation races with use, the creator may die | one holder, never used before initialised, units conserved |
| big lock, EC lock | `core/big_lock.c`, `drivers/google/cros_ec_lock.c` | one `ipc_lock` each | acquire and release | given away around child processes | released on every path |
| running tools | `lib/flashrom/flashrom.c` `do_cmd` | child, pipe, lock | run a command | flashrom takes the lock mosys had; a failed exec leaves a second mosys | lock restored, success means it ran |
| flashrom wrappers | `lib/flashrom/flashrom.c` | temporary files, buffers | read and write by region name | fall-backs between regions, error paths that free | one region in, one region out |
| vboot nvram in flash | `lib/vbnv/vbnv_flash.c` | a flash region used as a log of 16-byte blocks | read, write | read-modify-write over two unlocked flash accesses | one register to all processes |
| event log | `lib/eventlog/elog.c`, `elog_smbios.c` | a flash region of entries of varying length | list, add, clear | three fetches per add, shrinking | order kept, nothing lost, the new entry is last |
| EC over LPC | `drivers/google/cros_ec_lpc.c` | parameter window, command and result bytes, EC lock | commands of protocol 0, 1, 3 | polls with time-outs, the EC works on | the answer belongs to the command |
| EC over /dev or I2C | `drivers/google/cros_ec_dev.c`, `cros_ec_i2c.c` | file descriptors, `priv`, caches | set-up, command | damaged bytes, refusals, an EC still busy, optional devices | what returns 0 was executed and brought its own answer; opened devices get closed |
| main program, platform core | `mosys.c`, `core/platform.c`, `core/intf_list.c` | lock, board, callbacks, exit status | set up, run a command, tear down | error paths over half-done set-ups | commands run on a complete board; everything is taken down; the status tells |
| boards | `platform/*` | static tables | `probe`, `setup_post`, `destroy` | 31 variations of the same code | as above, for each of them |
| super I/O, EC mailbox | `drivers/superio.c`, `drivers/smsc`, `drivers/ite`, `platform/alex`, `platform/lumpy` | configuration mode, selected device, cached chip id, the mailbox | probe, read, mailbox command | exits in the middle of a mode, processes killed in it, commands given up while the EC works on them | chip found, read in the mode and left as it was; no answer taken for another |
| keyboard controller | `drivers/superio.c`, `drivers/ene/kb932.c`, `platform/butterfly/ec.c` | one-byte buffers of the interface, the clock | read the EC's RAM | poll arithmetic, port accesses and polls that fail, errors that callers ignore | bytes in place, in order after an error |
| VPD, SMBIOS iterators | `lib/vpd/vpd.c`, `lib/smbios/smbios.c` | position in a table | set up, next, find | malformed tables, reads before a check of what is left | the first usable entry point and the table asked for are found |
| I2C access | `intf/i2c.c` | table of handles, word mode | open, transfer, close | table full, chunks | bytes in place, no handle leaked |
| port, memory, PCI access | `intf/io.c`, `intf/mmio.c`, `intf/pci.c` | mappings | read, write | - | one access each |
| commands | `core/command/*` | - | per topic | which callbacks a board has | missing callbacks are refused |
| strap pins | `drivers/samsung/gpio.c`, `platform/daisy`, `spring`, `skate`, `peach` | pull registers, the board's configuration | read a pin with both pulls | killed or failed between two pulls | no board taken for another, pulls given back |
| SPD, memory commands | `core/command/memory_spd.c`, `lib/spd/spd.c`, `platform/*/memory.c` | blob read by flashrom, DIMM counters | print, dump | a read that failed and is not repeated, fall-backs between regions, DIMM counts from straps | each DIMM's own entry, once |
| sensors, storage, battery, other GPIOs, EEPROM | `drivers/*`, `lib/eeprom` | registers of devices | read, some writes | - | decoding |
| output, log, lists, strings, math | `core/kv_pair.c`, `core/log.c`, `lib/*` | - | print, parse | - | sequential helpers |

The components meet in four places.  The *big lock* orders whole commands, but
`do_cmd()` hands it to flashrom in the middle of one.  The *flash* is therefore
accessed by processes that hold no lock while they think.  The *EC* is guarded
by a lock of its own, against processes that give up waiting for it.  And what a
*killed process* leaves in a device, a mode, a command in a mailbox, a pull
on a pin, is where the next one starts.  The hazards that follow, each at its line, are listed in `PROJECT.json`.

## Modules

```
IpcLock  <|-- FileLock, SysvLock            (implements; ImplementsIpcLock)
   \___ assumed by DoCmd, FlashAccess
FlashAccess <- VbnvFlash, EventLog          (EXTENDS)
NvRegister <|-- VbnvFlash                   (implements; ImplementsRegister)
CrosEcLpc
Boards, MosysMain                           (composed in MCMosysMain)
SuperIo, EcRam, VpdSearch, TableIter,
  I2cHandles, Straps, SpdRead, EcTransport  (composed in Devices)
```

Each of these has an MC module that instantiates it for TLC; the devices share that
of `Devices`.  The theorems are in
`FileLockProofs`, `SysvLockProofs`, `DoCmdProofs`, `CrosEcLpcProofs`,
`MosysMainProofs`, `FirmwareProofs` (VbnvFlash, SpdRead), `DevicesProofs` (SuperIo,
EcRam, VpdSearch, Straps, I2cHandles) and `DataProofs` (EcTransport, EventLog,
TableIter), which has the proofs by induction over sequences.

**IpcLock** is what the comments over `mosys_lock()` and `mosys_unlock()`
promise: granted, already held, or refused; one holder.

**FileLock** (`core/file_lock.c`) has one action per system call that others can
see or that can fail: `open`, each `flock` attempt, each `nanosleep` (completed,
interrupted after any part of it, or rejected), `ftruncate` and `write` of the
PID, and the two halves of a release.  `pc` is the next system call.
`msecs_remaining` and `sleep_interval` are the code's; `waited` is a history
variable with the time really slept.  A death may come anywhere and drops the
flock.

**SysvLock** (`core/ipc_lock.c`, `core/csem.c`): one action per `semget`,
`semctl`, `semop`, with `sem_otime` as the flag that `csem_create()` sets last and
`csem_get()` waits for, `SEM_UNDO`, and the abandoned semaphores of creators
that failed.

**DoCmd** (`do_cmd`): parent, child, pipe and lock.  The child becomes the tool,
or, when `execv()` fails, the second copy of mosys that the code makes of it,
which takes the lock and returns to the caller.  flashrom takes the same lock.
A process of `VpdProcs` also asks for VPD values as `_get_vpd_value()` of
`lib/misc/sku.c` does: the lock is given to a tool that is *not* waited for, so
that taking it back races with the end of the tool, and the function goes on
without the lock when that fails.

**FlashAccess** is what `do_cmd()` means for a command that reads or writes a
flash region: the lock is given away, the tool works on the whole region in one
step while nobody has the lock, the lock is taken back or not.

**VbnvFlash** (`lib/vbnv/vbnv_flash.c`): the region is a sequence of blocks,
`Blank` is 16 bytes of 0xff.  A write is a read of the region, `PrepareWrite` in
memory, and a write of the region, with others in between.  **NvRegister** is one
atomic register.

**EventLog** (`lib/eventlog/elog.c`, the iterator of `elog_smbios.c`): an image
is a set of entries `[off, len, id]`; what no entry covers is 0xff.  `stage` says
what an access to the flash is for: the image to change (`fetch`), a second image
to count what is used (`size`), a third to copy from when the log is too long
(`copy`), the write.  `add` includes the shrinking and the note of it that
the code adds by calling itself, `clear` goes on when it cannot read.  Lengths are
one byte.  The log that a run starts from is one that firmware leaves
(`InitialLogsAssumption`): entries whose lengths are those of an event, maybe a last one
of length 0, that end before the region does.  Types are told apart as far as
readers do: `eventlog add` takes any, also `SMBIOS_EVENT_TYPE_ENDLOG` (0xff), whose
entry, here with the id `EndLog`, ends every walk over the log (`Walk`) as the blank
rest does.  `EndLogSize` is a bound: such an event has no data.  One with data is not
modelled: a shorter event put in its place leaves bytes of it behind, which
are then read as an entry.

**CrosEcLpc** (`drivers/google/cros_ec_lpc.c`): processes, the window, the
command and result bytes and the EC as an actor.  A window has a header and a
body, written one after the other; a message is told apart by who sent it, which
is what its checksum does.  `Stray` is what the EC makes of halves that do not
belong together.

**Boards** has one record for each of the 31 `platform_*` interfaces with what
`mosys_main()` and the EC commands see of it, and the lists of an x86 and of an
ARM build.  **MosysMain** is one process: lock, search, set-up of the board's
devices one by one, one command, teardown, exit status.  `priv`, `cmd`, `cb`, `fds`,
`dtor` are the sets of devices whose `ec_cb->priv`, `priv->cmd`, callback,
descriptor and `destroy` are set; following a null pointer or failing a
`MOSYS_CHECK` ends the process with a signal.  `WellFormed` states what the
set-up code takes for granted about a board's tables; it is an assumption that
TLC evaluates on all boards.

**SuperIo** (`drivers/smsc/mec1308.c`, `mec1308_mbx.c`, `get_sio_id()`, the EC
callbacks of alex and lumpy): processes come one after the other, each with fresh
static variables, to a chip that keeps its configuration mode, its selected
logical device and its mailbox, and to an EC that may still work on a command
whose sender gave up or was killed.  Every access that changes one of these is an
action, and the process may be killed between any two of them.

**EcRam** (`i8042_poll_csr()`, the waits of `kb932.c`, butterfly's `read_ecram()`):
command, offset and answer pass through one-byte buffers; a poll compares seconds
and, separately, the absolute difference of the microsecond fields, and the clock
advances by up to `MaxGap` ticks between two looks, each of which opens, seeks in,
reads and closes `/dev/port`.  Any of these accesses may fail (`PortFails`), and what
`read_ecram()` then returns is ignored by its caller.  Nothing is assumed of timeouts and gaps.  The EC's byte at offset k is
k, so that a byte in the wrong place shows.

**VpdSearch** (`vpd_itr_setup()`): a region is a row of places of 16 bytes, each an entry
point with a table that can be used or not, and a length, or none.  The code copies the 31
bytes of an entry point and adds up as many as it says it is long, up to 255, without
comparing with what is left of the region: for one that lies across the end
(`Overhangs`) memory behind the region is read (`beyond`), or the process dies of it
(`"crashed"`).  **TableIter** (the iterator of
`lib/smbios/smbios.c`, which `lib/vpd/vpd.c` repeats): tables are bytes in memory,
written by `Memory` as firmware does, and walked over as the code does; the entry
point's length may be too short.  `TableIterAssumption` says what a table is: it has the
length of a header at least, and no string in it is empty.

**I2cHandles** (`intf/i2c.c`): the table of handles, the kernel's descriptors, and
reads by words that fall back to bytes for the rest of the process.

**Straps** (`drivers/samsung/gpio.c`, daisy, spring, skate, peach): one action per
pull that is set, with the level the pin then shows; `pud` outlives the process.
The tables from strappings to configurations are the code's.

**SpdRead** (`core/command/memory_spd.c`, `lib/spd/spd.c`, the boards'
`memory.c`, `flashrom_read_host_firmware_region()`): four passes over the DIMMs,
two calls for each, with `fw` as the static variables that remember what flashrom
has read; any read may fail.

**EcTransport** (`cros_ec_i2c.c`, `cros_ec_dev.c`, `i2c_transfer()`, the requests of
`cros_ec.c`): over I2C a message is the bytes the code builds and checks, for
both kinds of command, and a byte of it may be damaged on the wires; a structure of
several bytes is one byte.  Over `/dev` the kernel transfers a command, fails, or
says EAGAIN while the EC goes on with it; `AgainResult` is what the code makes of that.
The EC keeps a vboot context.

**Devices** puts these eight next to each other: `device` is the one that the command
uses, the others keep an initial state.  They share no variable in the code
either, so nothing is lost, and one run asks all of them.

A type invariant `TypeOK` (in the modules of Devices `SioTypeOK`, `RamTypeOK`, ...)
belongs to each module; see [Theorems](#theorems) for where it is shown.
`PROJECT.json` maps every definition to its lines.

## Runs

| run | expected | bounds | states |
|---|---|---|---|
| `file_lock` | pass | 2 processes; timeouts -1, 0, 3, 4 with an interval of 2 | 2 732 |
| `file_lock_forever` | violation | timeout -1 only, no faults | |
| `sysv_lock` | pass | 3 processes, 2 semaphores, 2 rounds of waiting for `sem_otime` | 33 248 |
| `do_cmd` | pass | 2 processes, one of which also asks for VPD values, both directions of a pipe, 1 unit of output, a pipe of 1 | 41 043 |
| `do_cmd_exec_fails` | violation | 1 process whose caller recovers from errors | |
| `vbnv` | pass | 2 processes, 2 block values, a region of 2 blocks | 87 873 |
| `event_log` | pass | 1 process at a time, a region of 136 bytes, 6 events of 9 to 260 bytes and of the end type, three initial logs | 782 261 |
| `event_log_hidden` | violation | 2 processes, a region of 64 bytes, entries of 13 bytes | |
| `cros_ec_lpc` | pass | 2 processes, protocols 0, 1 and 3, 2 requests at a time | 313 447 |
| `mosys_main` | pass | all 31 boards in two builds, an unknown machine, every `-p` | 101 980 |
| `mosys_main_pd` | violation | the three boards with a PD pointer that may go | |
| `devices` | pass | one device at a time, see below | 229 384 |

What they show, and why the bounds are enough:

* `file_lock`: `OneHolder` (exclusion, and no leaked lock), the bound on the wait and the ownership
  of the PID file under deaths, interrupted sleeps and failing system calls.
  3 and 4 lie on both sides of a multiple of the interval, 0 and -1 are the two
  special timeouts.  Two processes are a holder and a waiter, and a third adds
  nothing to a lock without a queue (the theorems are for any number).
* `sysv_lock`: three processes are a creator that dies, one that found its
  semaphore and one that creates the next.  `OneUnit` has exclusion
  and says that SEM_UNDO balances: there is one unit, and what a death would give
  back is what the process took.  A semaphore whose creator died stays unusable: the code has no
  recovery and nothing promises one.
* `do_cmd`: the parent's belief about the lock (`HeldMeansOwner`,
  `LockRestored`), that 0 means the tool ran, and that nobody waits in a circle,
  also while a VPD tool that nobody waits for has the lock.
  `DoCmdReturns` excepts `PIPE_OUT`, which does hang in the code (the parent
  waits for the child before it writes what the child reads) and which no caller
  uses.  One unit of output and a pipe of one make both a full and an empty pipe.
* `vbnv`: a region of two blocks is half full, full and cleared; two processes
  interleave all accesses.  `ImplementsRegister` is linearizability: a
  read-modify-write that loses another's write is still a register, as long as
  the region stays well-formed and a read returns what was there.
* `event_log`: one process at a time, because what happens otherwise is the
  subject of the next run.  136 bytes have a threshold (102) that several of the lengths
  pass at different places, 260 wraps in the length byte, and there is an initial
  log with an entry of length 0.  A region shorter than 4 * (255 + 13) bytes can
  have an entry of a quarter of its length creep up to its end; `EventSizes`
  leaves that length (34) out, real regions are larger.  `InBuffer` and `LogKept` cover
  events of the end type as well: they hide nothing that was listed, and what is added
  next takes their place.  `AddedIsLast` excepts the add of such an event itself: it
  returns 0 and is not listed (see [below](#disagreements-found)).
* `cros_ec_lpc`: two requests per process are an abandoned one and the next.
  `NotMixedUp` excepts version 3 commands sent while the EC was busy: the code
  does not wait before it writes them.
* `mosys_main`: `Garbage` has 256, a nonzero value whose low byte is 0, for the
  uninitialized `errsv`; `CommandRcs` has a plain and a shifted EC result code.
  Every board goes through every outcome of its set-up.
* `devices`, for each of them:
  - super I/O: alex and lumpy, no chip or one at either port with an id that
    both, one or no list of ids has, two processes of which the first may be
    killed anywhere, one poll before a wait gives up.  The second process is the
    one that meets what the first left; a third could meet nothing new, as a process
    leaves either the state of a killed one or that of one that ended.
  - the EC's RAM: butterfly's timeout of half a second, with 6 ticks to a second and
    up to 2 ticks between looks at the clock; two bytes and the one the loop reads
    beyond; any access failing.
    `VersionBytes` does not depend on when a wait ends, and
    no property says that a wait lasts as long as its timeout, as it does not.
  - VPD: every region of 4 places, with entry points shorter and longer than the 31
    bytes that are copied in any case, the last ones across the end of the region.  Two
    obstacles before a usable entry need 3 places.  `VpdFound` says what is mapped, what is read behind
    the region and for which entry points, and which table is taken: the first usable one,
    and none behind two obstacles.
  - tables: up to 3 tables of 2 types with 0, 1 or 2 strings, cut by 0, 1 or 8
    bytes, and any sequence of calls.
  - I2C: two devices, a table with room for both, registers that wrap, a read
    one longer than the longest; a register that does not answer; opens that fail.
  - straps: all wirings of Snow's two pins, chosen ones of the other boards, every
    row of the tables of Pit and Pi, three initial pulls, one abandoned pin.
  - EC over I2C and `/dev`: the five requests mosys has, two contexts, one damaged
    byte in each direction, read as any byte that occurs in a message or next to one;
    an EC that fills what is read too much with 0 or 255.  `AnswerTrue` excepts what
    the code leaves to chance: without a version, the result code and the number of
    the command are in no sum; over `/dev` the result counts for one command only.
  - SPD: Link, three boards whose straps differ in what the EC's board version
    makes of them, and one that looks for part numbers, known, unknown and
    repeated; every DIMM asked for by itself, all, and dumps past the end; two
    reads that fail.

*Fairness.*  `FileLock`, `CrosEcLpc`, `MosysMain`: weak fairness of the steps of a
running process; nothing is asked of other processes or of the EC, as all waits have an
end of their own.  `SysvLock` adds that holders finish (`SF_vars(Unlock)`) and
that `semop()` serves its waiters, which the kernel does in order of arrival.
`DoCmd` adds that the lock is obtained when it is free again and again, which
stands for a polling of 50000 seconds, and that tools, the VPD tool among them,
finish.  `Devices`: weak fairness of the steps that the process takes by
itself, for each of the eight devices; no start, death, failure, and no step of a chip or an
EC is fair.  `CommandsEnd` says that the calls to every device end.  For six that is so whatever the
device does.  The other two may keep a command for ever, and the property names when:
`i8042_poll_csr()` may look past its timeout again and again, so that the EC's RAM is
read under the hypothesis that the EC reads and answers in the end (`EcAlive`), and the
search for the VPD is only claimed to end with at most one unusable entry point before the first
usable one.  This is the exact border: `VpdFound` says that with two the search is never
done with a table, so that it goes on for ever unless a mapping fails or a read kills the process.
`VbnvFlash` and `EventLog` are checked for safety only.

Deadlock is checked in all runs but `mosys_main` and `mosys_main_pd`, where a
process has exited, `devices`, where a command is over, and `cros_ec_lpc`, where the requests are used up or both
processes are dead.  `vbnv` uses
symmetry of the processes; it checks no liveness.

Each property has a mutant in `PROJECT.json`, a property with named parts usually one
for each part: a definition of the model changed the way a plausible bug would
change the code, which makes TLC report the property.

## Theorems

TLAPS proves, for every value of the constants under the named assumptions of
the modules:

**FileLockProofs**, from `FileLockAssumption` (a positive interval, any set of
processes, any integers as timeouts): `OneAtATime`, `BoundedWait`,
`LockfileCorrect`, `PidOwnership` and `Implementation` (FileLock implements
IpcLock; exclusion follows from that once more).  The invariant is `FileLockInv == TypeOK /\ LockInv /\ WaitInv /\
LockfileNamesHolder`.  `LockInv` ties the kernel's owner to the lines of the
program; `MutualExclusion` alone is not inductive, as it does not know that a
process between `flock` and its return owns the flock already.  `WaitInv` carries
the sum of what was slept and what the countdown still allows, with one interval of
slack in the middle of a sleep, because the countdown is reduced when the sleep ends.

**SysvLockProofs**, for any set of processes, any timeouts, any number of semaphores
ever created, any faults: `TypeCorrect`, `OnlyInitialised`, `UnitKept`,
`Implementation`.  The invariant is `TypeOK /\ PlaceInv /\ BirthInv /\ UnitInv`.
`BirthInv` says that a semaphore has one creator and that nobody else has it in his
lock structure until `sem_otime` is set; without it a second `csem_setval()`
could add a unit.  `PlaceInv` ties `is_held`, `lock_sem` and the kernel's
adjustment to the lines of the program, `UnitInv` says where the unit is.

**DoCmdProofs**, for any processes, pipes and faults: `TypeCorrect`, `Ownership`,
`Restores`, and `SuccessHonest` under `~CallerRecovers`, as the code needs.
`OwnerInv` says which of process, child and VPD tool may own the lock at which line;
`HeldMeansOwner` alone does not know that a process that has a child does not hold
the lock, so that the child's acquisition would break it.  `RestoreInv` is
what `re_acquire_lock` remembers between the two accesses to the lock, `RanInv`
that a status of 0 is only on its way when the tool has run.

**FirmwareProofs**, for `VbnvFlash`, any number of blocks and processes, and for every set of
blocks that does not contain the blank one: `TypeCorrect`, `StaysUsable`,
`WriteIsVisible`, `NothingRefused`, `Implementation` (VbnvFlash implements
NvRegister).  The invariant is `TypeOK /\ Usable(flash) /\ Buffers /\ Written`:
the region is a row of blocks followed by blanks, so is every buffer on its way to or
from it, and what a process wrote is the newest block from the write of the
region on, not only from the return of the command.
`Blank \notin Blocks` is needed: the code cannot store a block of 0xff, and says
0 when it is asked to.

**MosysMainProofs**, for any lists of well-formed boards (`BuildsAssumption`), any
garbage and EC result codes 1 to 14, plain or shifted: `TypeCorrect`,
`CommandsAreReady`, `ExitStatusTells`, `TeardownComplete`, `DevicesLocked`,
`SignalsExplained`.  The invariant adds to the properties where the lock is held (`Locking`), what has not
happened yet (`Early`), that an open device still has its callback, so that
destroy finds it (`Handles`), and how far the set-up has come (`SettingUp`): what
is still on the list is closed and has its callbacks, the list names no device
twice, and all others have what a command needs.  The proof has a lemma for each
group of steps; those that reach the command share `ReachesCommand`, those that
fail share `SetupFailsStep`, all commands share `CommandEnds`.  For the signals the
invariant is strengthened by `Explained`: a callback that a board lost never has a
transport, a device the variant is not to have keeps its callbacks only until its
turn comes, and vboot's data are only looked for in an EC that is to be there.  It
needs of the tables what the last conjuncts of `WellFormed` say, above all that a
`destroy` which does not test its pointers closes no optional device.  TLC has
checked both invariants on all boards.

**CrosEcLpcProofs**, for any set of processes, of protocols and of requests:
`TypeCorrect`, `NothingMixedUp`, `LockGivenBack`.  The invariant is `TypeOK /\
LockInv /\ RequestInv /\ MailInv /\ OwnInv`.  `MailInv` is about the mailbox whoever
wrote it, also a process that died since: with protocols 0 and 1 the command byte
belongs to what is in the window.  `OwnInv` carries, for a process that met an EC
that was not busy, how far its exchange is (`Exchange`): in the window, with
the EC, or back in the window.

**DevicesProofs**: `RamTypeCorrect`, `VersionBytesRead`, for any timeouts, ticks and
gaps, and any accesses that fail (`EcRamAssumption` only says that they are numbers and
that a gap is at most a second); `TableOfVpd`, for any region of any length with any number
of entry points, and whatever is behind it; `SioTypeCorrect`, `ChipGivenBack`, `TrueVersion`, for any chips, polls and
processes.  For the bytes, `OrderInv` puts everything between host
and EC, input buffer, EC, output buffer and what is read, into one ascending
row; `PlaceInv` says where the byte asked for is as long as nothing was given up.  For the search, `VpdInv` says that what
is mapped is the rest of the region, that no usable entry point was passed by, and that reads behind
the region come from an entry point across its end that the search had to look at (`SearchBeyond`).
`SecondInv` says that no search gets past the second entry point of the region, because the next one starts
at it or before: hence `NonePastTwo` (`StuckAtSecond`).
For the super I/O, `ModeInv` says that the flag of a process that found the chip
is the chip's mode, although the process started with a cleared flag and
maybe a chip in that mode; `LdnInv` where the selection differs from the
one found; `MailboxInv` where the text that ends the pass-through mode may be.

For the straps, for any wirings, `StrapsTypeCorrect` and `StrapsRead`: `PullsInv` adds to
`PullsKept` that the register value to be written back agrees with the firmware's but
for abandoned pins; `LevelsInv` that each level read is one that the pin may show under
both pulls.  For I2C, `I2cReads`, for any devices, registers, lengths and size of the
table: the invariant adds `ReadInv`, that a read in progress uses a descriptor whose
slave is the device asked for.

**FirmwareProofs** also has SpdRead, for any boards, straps, parts and blobs:
`SpdTypeCorrect`, `SpdRightlyPrinted` and `SpdAllPrinted`.  `StrapsFw` and `PartsFw`
relate the static variables, the place in the program and how often flashrom was run;
`RangeInv` bounds the DIMM a callback is asked for.  `AllPrinted` looks at the end of a
print only; `ProgressInv` says of every step that what is printed is exactly what lies
behind the process in the order of passes and DIMMs, under the condition that `AllPrinted`
has too.

**DataProofs** is about the modules whose data are walked over.

* `EcAnswerTrue`, for every transport, vboot context, padding and damaged byte.
  `EcSent` says what is on the wires between the two messages of a transfer: the EC's
  answer to this very request with its sum, or a refusal, or, for a command without a
  version, whose number no sum covers, the answer to another one (`OldOnWire`,
  `NewOnWire`).
* `ElogFits`, `ElogAddedIsLast`, `ElogKeepsLog`, for every length of the region, initial
  log and size of event, with events of every type, under two hypotheses.  `Procs = {p}`: commands come one after
  the other; `event_log_hidden` shows that the properties are lost otherwise.
  `RoomForNote`: an event that the code accepts leaves room in what shrinking frees for the
  note that entries have gone.  Accepted events have at most 255 bytes, so this holds in
  every region of at least 4 * (255 + 13) bytes, and in that of the run.  The
  invariant `ElogInv` relates the three fetches of an add (`ReadInv`: nothing has changed
  since the first), the image to write (`WriteInv`: a log in order that ends with the
  event, be it of the end type, and lacks only what made room), and the flash (`FlashInv`).  Below it are
  lemmas on what the iterator visits of a row of entries (`WalkOfRow`), of which only the last
  can be of the end type (`EndedLog`), on appending to a row and on taking the oldest entries from it.
* `TableFoundIsWritten`, for every list of tables, any number of strings of any length, and
  every cut of the length (a caller asks for one of two instances or one of three strings).
  `TablesInv` says that the iterator is at the start of a table it may see, and that
  `instance` and the tables of that type before it add up to the one asked for.  Below it is
  what the memory looks like: where each table starts (`FlatParts`), where its strings are
  (`EncodedShape`, `StringsInMemory`), and that the two walks of the code, to the double
  null byte and to the n-th string, end where firmware put them (`EndOfStringsAt`,
  `GetStringAt`).

The inductions there are over sets of numbers: of the places at which what is to be shown
fails there would be a least one (`LeastElement`, from the library's `WFMin`), but
there it follows from the place before.  What the folds of the community modules
compute is shown the same way (`FoldSteps`, `FlatOfChain`).

Type correctness is a theorem or a part of the inductive invariant of every module
with theorems; where no run lists it, TLC checks it as a part of `InBuffer`,
`TablesFound` and `ReadsOfDevice`.

Every safety invariant that a passing run checks is stated by a theorem.  Only
model-checked: all liveness (`CallsReturn`, `WaitersServed`, `DoCmdReturns`,
`CommandReturns`, `Ends`, `CommandsEnd`), which is out of the prover's reach.  The theorems
about the event log say nothing of several mosys at a time, for which the properties
do not hold.

## Disagreements found

Checked by a run each:

* `file_lock_forever`: "timeout <0 = no timeout (try forever)"
  (`core/file_lock.c:225`), but the first sleep is shortened to the negative
  timeout, `nanosleep()` rejects it and the call fails at the first contention.
* `do_cmd_exec_fails`: a failed `execv()` falls through to the end of `do_cmd()` in
  the child; if the caller recovers, the copy exits with 0 and the parent's
  `do_cmd()` reports success.
* `event_log_hidden`: an add whose fetches are separated by another process's clear
  puts its event where `eventlog list` does not show it last, and returns 0.
* `mosys_main_pd`: `samus_destroy()` dereferences the PD pointer that
  `cros_pd_setup_dev()` clears when the PD is missing.

Seen while modelling, visible in the models, without a run of their own:
`eventlog add 0xff` by a process alone returns 0 (`elog.c:986`, `993`: "add an event",
"0 on success"), but its entry is the end of the log to every reader
(`elog_smbios.c:176`): it is not listed, and the next add is written over it; two adds
at the same time lose one event; in an event log region of less than 1072 bytes an
event of nearly a quarter of it makes every add shrink the log by less than it writes with
the note, so that the log creeps towards its end, until an event reported as added is not
listed (TLC: 136 bytes, events of 34); a version 3 EC command does not wait for a busy EC;
a `/dev` node of the EC that cannot be opened leaves `priv->cmd` null for every later
command; `pd` and `fp` commands on Fizz abort, as only its EC is set up; `-p oak`
indexes a table with -1; the exit status after a failed lock or set-up comes from
an uninitialized variable; `ec info` succeeds when the EC answers nothing; boards
whose set-up is called "late, not critical to core functionality" become unsupported
when it fails.

In the devices: `mec1308.c:193` leaves the super I/O in configuration mode when it
does not know the chip, until the next call or the clean-up; `get_sioport()` of
`it8772.c` never clears its flag, so that a chip at the second port is not found;
alex makes three tries to read the version in any case, and a third that fails erases
what an earlier one read; butterfly's version loop reads one byte more than the version
has, and puts the terminating zero behind its buffer; `read_ecram()`'s failures
are ignored, so that late answers shift the bytes.  `i8042_poll_csr()` compares seconds and,
separately, the absolute difference of microseconds (`superio.c:94`): with butterfly's 500 ms a wait
that begins at x.9 s is given up at the first look after the full second, before its time, and one that
begins at x.5 s goes on until a look falls on a full second exactly.  The search in
`vpd.c:310` repeats itself for ever behind two unusable entry points, although "if a sanity check
fails, continue to search for a valid entry point" (`vpd.c:300`): the next search starts at the offset of
the last one, added to the base of the region (`NonePastTwo`).  `vpd_find_entry()`
(`vpd.c:204`-`208`) reads behind the region for an entry point across its end.  A full table of
I2C handles refuses devices that are open already (`i2c.c:89`; modelled, no property calls it wrong).  A strap pin whose read fails
keeps the pull it was given; Kirby has no SPD at all; the comments of `skate.c`
contradict its table in order and in the number for Z.  `dimm > count` lets
`memory spd dump` print the DIMM behind the last on boards with straps;
`first_run` is cleared before flashrom has read anything, so that after a
failure the next read parses an unfilled buffer; an FMAP that lists neither region
makes `flashrom_read_host_firmware_region()` return success with a null buffer.
`_get_vpd_value()` goes on without the big lock when it cannot have it back.

`errno == -EAGAIN` is never true in `cros_ec_dev.c:133` and `220`: on EAGAIN a command
fails at once while the EC goes on with it, although the comment at line 55 says that
the EC is then asked until it is finished; over `/dev` what the EC answered is not
looked at but for one command (a TODO says so).

In code that is not modelled: `smbus_write16_dev()` compares what a library call
returns, 0, with the length of a chunk; the flashrom wrappers keep two descriptors
open per call, unlink a name that is not set when there is no flashrom, and do not
notice that an argument could not be appended.

## Not modelled

* Formatting, logging, usage texts and option parsing.
* Decoding: of SMBIOS tables, SPD bytes, VPD blobs, EEPROM headers and EC answers,
  with the tables behind it (`jedec_id.c`, `nonspd_modules.c`, `cros_ec_commands.h`,
  the FRU tables of `eeprom_enet.c`).  By lines this is most of the repository;
  it keeps no state that two steps share, each row is a constant, and a model of it
  would repeat it.  That is why the mapped lines are a small share of the whole.
* Register tables of GPIOs, sensors and chipsets, where a read or a write is one or
  two accesses; sysfs readers for batteries and storage.
* The wrappers around `do_cmd()` that make temporary files, the search for SMBIOS's
  entry point, the ITE, ENE and Nuvoton drivers beyond what EcRam has.
* Sequential containers and string helpers; how flashrom itself erases and writes.
* Faults without an effect a caller could see: a failing `semop()` in the creator's
  `csem_down()` (`csem.c:127`) and in the release (`ipc_lock.c:134`), whose value and undo
  count leave the kernel no reason to fail.
* Malformed contents: SMBIOS and VPD structures shorter than their header
  (`smbios.c:399`), SPD entries of an unsupported type or length (`spd.c:218`-`226`), for
  which `AllPrinted` assumes an entry that can be decoded.
* What follows from undefined behaviour is modelled, not the access itself: `-p oak`'s
  index -1, the unset `errsv`.  `TornDown` and `LockReleased` say nothing of the devices that a
  half set-up leaves open (`platform.c:112`) and of the EC lock after a failing
  `cros_ec_lpc.c:414`.
* The build system (Kconfig, third party) and the host tool that encodes a VPD, which
  are not part of the program.

`PROJECT.json` gives the reason for each component.

## Plan

Done, in this order: the lock and what depends on it (FileLock, SysvLock, DoCmd), what
is kept in flash under it (VbnvFlash, EventLog), the EC, the main program; then the
devices a process drives alone, with the proofs of all safety invariants, those of EventLog
and of the tables last.

What is left and would be worth it: the temporary files of the flashrom wrappers
around `DoCmd`; the fall-backs of the search for SMBIOS's entry point; the U100's
read-modify-write of a PHY page.

Small sequential modules share MC modules and runs, so that a run stays a question
about a group of components.
