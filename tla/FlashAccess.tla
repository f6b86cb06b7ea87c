---------------------------- MODULE FlashAccess ----------------------------
(***************************************************************************)
(* How commands reach a flash region: read_by_name() and write_by_name()   *)
(* of an eeprom end in flashrom_read_by_name() and                         *)
(* flashrom_write_by_name(), each of which runs flashrom in a child with   *)
(* the big lock released (module DoCmd).  A whole region is transferred in *)
(* a temporary file of its own, so to other processes one access is one    *)
(* atomic step, taken while nobody holds the big lock.  The `which` run    *)
(* before it only makes the same window longer.                            *)
(***************************************************************************)
CONSTANTS
  Procs,       \* mosys processes
  NoProc,      \* nobody holds the lock
  EnvFaults    \* what may fail: subset of FaultKinds

FaultKinds == {"lock", "read", "write", "clock"}

ASSUME FlashAccessAssumption ==
  /\ NoProc \notin Procs
  /\ EnvFaults \subseteq FaultKinds

VARIABLES
  holder,      \* which process has the big lock
  is_held,     \* is_held of the big lock in each process
  re_acquire,  \* re_acquire_lock of the do_cmd() in progress
  flash        \* the contents of the region

lockVars == <<holder, is_held, re_acquire>>

LockInit ==
  /\ holder = NoProc
  /\ is_held = [p \in Procs |-> FALSE]
  /\ re_acquire = [p \in Procs |-> FALSE]

LockTypeOK ==
  /\ holder \in Procs \cup {NoProc}
  /\ is_held \in [Procs -> BOOLEAN]
  /\ re_acquire \in [Procs -> BOOLEAN]

(* mosys_main() takes the big lock ...                                     *)
CommandLocks(p) ==
  /\ holder = NoProc
  /\ holder' = p
  /\ is_held' = [is_held EXCEPT ![p] = TRUE]
  /\ UNCHANGED re_acquire

(* ... and releases it at the end if it still has it.                      *)
CommandUnlocks(p) ==
  /\ holder' = IF is_held[p] THEN NoProc ELSE holder
  /\ is_held' = [is_held EXCEPT ![p] = FALSE]
  /\ UNCHANGED re_acquire

(* do_cmd() before the child: the lock is given away.                      *)
LockDropped(p) ==
  /\ re_acquire' = [re_acquire EXCEPT ![p] = is_held[p]]
  /\ holder' = IF is_held[p] THEN NoProc ELSE holder
  /\ is_held' = [is_held EXCEPT ![p] = FALSE]

(* flashrom takes the same lock for as long as it accesses the chip.       *)
ToolMayRun == holder = NoProc

(* do_cmd() after the child: the lock comes back if it was held ...        *)
LockRetaken(p) ==
  /\ re_acquire[p] => holder = NoProc
  /\ holder' = IF re_acquire[p] THEN p ELSE holder
  /\ is_held' = [is_held EXCEPT ![p] = re_acquire[p]]
  /\ UNCHANGED re_acquire

(* ... or does not in time, and do_cmd() fails.                            *)
LockLost(p) ==
  /\ re_acquire[p]
  /\ "lock" \in EnvFaults
  /\ UNCHANGED lockVars
=============================================================================
