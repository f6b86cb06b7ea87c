------------------------------ MODULE FileLock ------------------------------
(***************************************************************************)
(* core/file_lock.c: the lock mosys processes exclude each other with, an  *)
(* flock() on a lockfile that is created on demand and never removed.      *)
(*                                                                         *)
(* One action per system call that another process can observe or that can *)
(* fail: opening the lockfile, each flock() attempt, each nanosleep(), the *)
(* truncation and the write of the PID, the two halves of a release.  The  *)
(* kernel drops the flock of a process that dies.  Times are milliseconds, *)
(* or any unit in which SLEEP_INTERVAL_MS is given.                        *)
(***************************************************************************)
EXTENDS Integers

CONSTANTS
  Procs,              \* the mosys processes
  NoProc,             \* nobody: the owner of a free lock, an empty lockfile
  Timeouts,           \* the timeout_msecs arguments callers use
  SLEEP_INTERVAL_MS,  \* time between two attempts
  EnvFaults           \* environment failures: subset of FaultKinds

FaultKinds == {"open", "flock", "pid"}

ASSUME FileLockAssumption ==
  /\ NoProc \notin Procs
  /\ Timeouts \subseteq Int
  /\ SLEEP_INTERVAL_MS \in Nat \ {0}
  /\ EnvFaults \subseteq FaultKinds

VARIABLES
  owner,            \* kernel: the process whose descriptor holds the flock
  lockfile,         \* the PID in the lockfile
  is_held,          \* lock->is_held of each process
  fd_open,          \* whether lock->fd is open
  pc,               \* where each process is
  timeout_msecs,    \* the argument of the current or last mosys_lock() call
  msecs_remaining,  \* file_lock_get(): what is left of the timeout
  sleep_interval,   \* file_lock_get(): the next nanosleep()
  ret,              \* the value the last call returned
  waited            \* history: time the current call has slept

kernelVars == <<owner, lockfile>>
waitVars == <<timeout_msecs, msecs_remaining, sleep_interval, waited>>
vars == <<owner, lockfile, is_held, fd_open, pc, timeout_msecs,
          msecs_remaining, sleep_interval, ret, waited>>

NoRet == 9
RetValues == {0, 1, -1, NoRet}

(* "out" and "in" are outside any call of this file: without and with the  *)
(* lock.                                                                   *)
PCs == {"out", "flock", "nanosleep", "timed_out", "ftruncate",
        "write", "in", "close"}

Init ==
  /\ owner = NoProc
  /\ lockfile = NoProc
  /\ is_held = [p \in Procs |-> FALSE]
  /\ fd_open = [p \in Procs |-> FALSE]
  /\ pc = [p \in Procs |-> "out"]
  /\ timeout_msecs = [p \in Procs |-> 0]
  /\ msecs_remaining = [p \in Procs |-> 0]
  /\ sleep_interval = [p \in Procs |-> 0]
  /\ ret = [p \in Procs |-> NoRet]
  /\ waited = [p \in Procs |-> 0]
-----------------------------------------------------------------------------
Goto(p, l) == pc' = [pc EXCEPT ![p] = l]
Returns(p, r) == ret' = [ret EXCEPT ![p] = r]

(* file_lock_get() returns: its local variables are gone.                  *)
LocalsGone(p) ==
  /\ timeout_msecs' = [timeout_msecs EXCEPT ![p] = 0]
  /\ msecs_remaining' = [msecs_remaining EXCEPT ![p] = 0]
  /\ sleep_interval' = [sleep_interval EXCEPT ![p] = 0]
  /\ waited' = [waited EXCEPT ![p] = 0]

(* Mutant: the lockfile is opened with O_TRUNC.                            *)
LockOpens_Truncates(p, t) ==
  /\ pc[p] = "out"
  /\ ~is_held[p]
  /\ lockfile' = NoProc
  /\ fd_open' = [fd_open EXCEPT ![p] = TRUE]
  /\ timeout_msecs' = [timeout_msecs EXCEPT ![p] = t]
  /\ msecs_remaining' = [msecs_remaining EXCEPT ![p] = t]
  /\ sleep_interval' = [sleep_interval EXCEPT ![p] = SLEEP_INTERVAL_MS]
  /\ waited' = [waited EXCEPT ![p] = 0]
  /\ Goto(p, "flock")
  /\ Returns(p, NoRet)
  /\ UNCHANGED <<owner, is_held>>

(* file_lock_open_or_create() succeeds and file_lock_get() starts.         *)
LockOpens(p, t) ==
  /\ pc[p] = "out"
  /\ ~is_held[p]
  /\ fd_open' = [fd_open EXCEPT ![p] = TRUE]
  /\ timeout_msecs' = [timeout_msecs EXCEPT ![p] = t]
  /\ msecs_remaining' = [msecs_remaining EXCEPT ![p] = t]
  /\ sleep_interval' = [sleep_interval EXCEPT ![p] = SLEEP_INTERVAL_MS]
  /\ waited' = [waited EXCEPT ![p] = 0]
  /\ Goto(p, "flock")
  /\ Returns(p, NoRet)
  /\ UNCHANGED <<kernelVars, is_held>>

(* No usable lockfile directory, or the open itself fails.                 *)
LockOpenFails(p) ==
  /\ pc[p] = "out"
  /\ ~is_held[p]
  /\ "open" \in EnvFaults
  /\ Returns(p, -1)
  /\ UNCHANGED <<kernelVars, is_held, fd_open, pc, waitVars>>

(* Mutant: a nested acquisition is treated as a conflict.                 *)
LockAlreadyHeld_Refused(p) ==
  /\ pc[p] \in {"in", "out"}
  /\ is_held[p]
  /\ Returns(p, -1)
  /\ UNCHANGED <<kernelVars, is_held, fd_open, pc, waitVars>>

(* mosys_lock() when this process holds the lock already.                  *)
LockAlreadyHeld(p) ==
  /\ pc[p] \in {"in", "out"}
  /\ is_held[p]
  /\ Returns(p, 1)
  /\ UNCHANGED <<kernelVars, is_held, fd_open, pc, waitVars>>

(* Mutant: the descriptor of a failed attempt is not closed.               *)
LockFails_KeepsFd(p) ==
  /\ is_held' = [is_held EXCEPT ![p] = FALSE]
  /\ Goto(p, "out")
  /\ Returns(p, -1)
  /\ LocalsGone(p)
  /\ UNCHANGED <<kernelVars, fd_open>>

(* mosys_lock() gives up: is_held is cleared and the descriptor closed.    *)
LockFails(p) ==
  /\ is_held' = [is_held EXCEPT ![p] = FALSE]
  /\ fd_open' = [fd_open EXCEPT ![p] = FALSE]
  /\ Goto(p, "out")
  /\ Returns(p, -1)
  /\ LocalsGone(p)
  /\ UNCHANGED kernelVars

(* Mutant: the flock() result is ignored.                                  *)
FlockGranted_Unchecked(p) ==
  /\ pc[p] = "flock"
  /\ owner' = p
  /\ is_held' = [is_held EXCEPT ![p] = TRUE]
  /\ Goto(p, "ftruncate")
  /\ LocalsGone(p)
  /\ UNCHANGED <<lockfile, fd_open, ret>>

FlockGranted(p) ==
  /\ pc[p] = "flock"
  /\ owner = NoProc
  /\ owner' = p
  /\ is_held' = [is_held EXCEPT ![p] = TRUE]
  /\ Goto(p, "ftruncate")
  /\ LocalsGone(p)
  /\ UNCHANGED <<lockfile, fd_open, ret>>

(* EWOULDBLOCK with a timeout of 0, or any other error of flock().         *)
FlockRefused(p) ==
  /\ pc[p] = "flock"
  /\ \/ owner # NoProc /\ timeout_msecs[p] = 0
     \/ "flock" \in EnvFaults
  /\ LockFails(p)

(* Mutant: the last sleep is not shortened to what is left.                *)
FlockWouldBlock_FullSleep(p) ==
  /\ pc[p] = "flock"
  /\ owner # NoProc
  /\ timeout_msecs[p] # 0
  /\ Goto(p, "nanosleep")
  /\ UNCHANGED <<kernelVars, is_held, fd_open, waitVars, ret>>

(* EWOULDBLOCK: sleep, no longer than what is left of the timeout.         *)
FlockWouldBlock(p) ==
  /\ pc[p] = "flock"
  /\ owner # NoProc
  /\ timeout_msecs[p] # 0
  /\ sleep_interval' = [sleep_interval EXCEPT ![p] =
       IF msecs_remaining[p] < SLEEP_INTERVAL_MS THEN msecs_remaining[p] ELSE @]
  /\ Goto(p, "nanosleep")
  /\ UNCHANGED <<kernelVars, is_held, fd_open, timeout_msecs,
                 msecs_remaining, ret, waited>>

(* nanosleep() refuses a negative interval with EINVAL.                    *)
SleepInvalid(p) ==
  /\ pc[p] = "nanosleep"
  /\ sleep_interval[p] < 0
  /\ LockFails(p)

(* EINTR: the remainder, shorter than the interval, becomes the interval,  *)
(* and stays it for the later iterations.                                  *)
SleepInterrupted(p) ==
  /\ pc[p] = "nanosleep"
  /\ \E rem \in 0 .. sleep_interval[p] - 1 :
       /\ waited' = [waited EXCEPT ![p] = @ + (sleep_interval[p] - rem)]
       /\ sleep_interval' = [sleep_interval EXCEPT ![p] = rem]
  /\ UNCHANGED <<kernelVars, is_held, fd_open, pc, timeout_msecs,
                 msecs_remaining, ret>>

(* Mutant: the timeout is not counted down.                                *)
SleepDone_NoCountdown(p) ==
  /\ pc[p] = "nanosleep"
  /\ sleep_interval[p] >= 0
  /\ Goto(p, "flock")
  /\ UNCHANGED <<kernelVars, is_held, fd_open, waitVars, ret>>

(* The sleep ends; a timeout counts down by the full interval whatever the *)
(* sleep took, and when it falls below 0 there is no further attempt.      *)
SleepDone(p) ==
  LET left == msecs_remaining[p] - SLEEP_INTERVAL_MS
      forever == timeout_msecs[p] < 0
  IN
  /\ pc[p] = "nanosleep"
  /\ sleep_interval[p] >= 0
  /\ waited' = [waited EXCEPT ![p] = @ + sleep_interval[p]]
  /\ msecs_remaining' = [msecs_remaining EXCEPT ![p] =
                           IF forever THEN @ ELSE left]
  /\ Goto(p, IF ~forever /\ left < 0 THEN "timed_out" ELSE "flock")
  /\ UNCHANGED <<kernelVars, is_held, fd_open, timeout_msecs,
                 sleep_interval, ret>>

(* The loop was left by its break.                                         *)
TimedOut(p) ==
  /\ pc[p] = "timed_out"
  /\ LockFails(p)

(* file_lock_write_pid(): failures are logged and otherwise ignored.       *)
WritePidTruncates(p) ==
  /\ pc[p] = "ftruncate"
  /\ lockfile' = NoProc
  /\ Goto(p, "write")
  /\ UNCHANGED <<owner, is_held, fd_open, ret, waitVars>>

WritePidWrites(p) ==
  /\ pc[p] = "write"
  /\ lockfile' = p
  /\ Goto(p, "in")
  /\ Returns(p, 0)
  /\ UNCHANGED <<owner, is_held, fd_open, waitVars>>

WritePidFails(p) ==
  /\ pc[p] \in {"ftruncate", "write"}
  /\ "pid" \in EnvFaults
  /\ Goto(p, "in")
  /\ Returns(p, 0)
  /\ UNCHANGED <<kernelVars, is_held, fd_open, waitVars>>

(* mosys_unlock(): flock(LOCK_UN), then close() and is_held = 0.           *)
UnlockFlock(p) ==
  /\ pc[p] = "in"
  /\ is_held[p]
  /\ owner' = IF owner = p THEN NoProc ELSE owner
  /\ Goto(p, "close")
  /\ Returns(p, NoRet)
  /\ UNCHANGED <<lockfile, is_held, fd_open, waitVars>>

UnlockCloses(p) ==
  /\ pc[p] = "close"
  /\ is_held' = [is_held EXCEPT ![p] = FALSE]
  /\ fd_open' = [fd_open EXCEPT ![p] = FALSE]
  /\ Goto(p, "out")
  /\ Returns(p, 0)
  /\ UNCHANGED <<kernelVars, waitVars>>

(* mosys_unlock() without the lock changes nothing and says so.            *)
UnlockNotHeld(p) ==
  /\ pc[p] = "out"
  /\ ~is_held[p]
  /\ Returns(p, -1)
  /\ UNCHANGED <<kernelVars, is_held, fd_open, pc, waitVars>>

(* The process dies anywhere; the kernel closes its descriptor.  The next  *)
(* process of that slot starts with a fresh struct ipc_lock.               *)
Dies(p) ==
  /\ owner' = IF owner = p THEN NoProc ELSE owner
  /\ is_held' = [is_held EXCEPT ![p] = FALSE]
  /\ fd_open' = [fd_open EXCEPT ![p] = FALSE]
  /\ Goto(p, "out")
  /\ Returns(p, NoRet)
  /\ LocalsGone(p)
  /\ UNCHANGED lockfile

(* The steps a running call takes by itself.                               *)
Step(p) ==
  \/ FlockGranted(p) \/ FlockRefused(p) \/ FlockWouldBlock(p)
  \/ SleepInvalid(p) \/ SleepInterrupted(p) \/ SleepDone(p) \/ TimedOut(p)
  \/ WritePidTruncates(p) \/ WritePidWrites(p) \/ WritePidFails(p)
  \/ UnlockCloses(p)

(* The calls a process may make.                                           *)
Call(p) ==
  \/ \E t \in Timeouts : LockOpens(p, t)
  \/ LockOpenFails(p)
  \/ LockAlreadyHeld(p)
  \/ UnlockFlock(p)
  \/ UnlockNotHeld(p)

Next == \E p \in Procs : Step(p) \/ Call(p) \/ Dies(p)

Spec == Init /\ [][Next]_vars

(* A running process is scheduled.                                         *)
FairSpec == Spec /\ \A p \in Procs : WF_vars(Step(p))
-----------------------------------------------------------------------------
TypeOK ==
  /\ owner \in Procs \cup {NoProc}
  /\ lockfile \in Procs \cup {NoProc}
  /\ is_held \in [Procs -> BOOLEAN]
  /\ fd_open \in [Procs -> BOOLEAN]
  /\ pc \in [Procs -> PCs]
  /\ timeout_msecs \in [Procs -> Int]
  /\ msecs_remaining \in [Procs -> Int]
  /\ sleep_interval \in [Procs -> Int]
  /\ ret \in [Procs -> RetValues]
  /\ waited \in [Procs -> Nat]

(* Two processes are never both between a mosys_lock() that returned 0 and *)
(* the mosys_unlock() that gives the lock up, whatever died or timed out.  *)
MutualExclusion ==
  \A p, q \in Procs : pc[p] = "in" /\ pc[q] = "in" => p = q

(* A lock is never lost: a descriptor is open exactly while its process is *)
(* inside a call or holds the lock, and an flock somebody owns is owned by *)
(* a process that will release it.                                         *)
NoLeakedLock ==
  /\ \A p \in Procs : fd_open[p] <=> pc[p] # "out"
  /\ owner # NoProc => pc[owner] \in {"ftruncate", "write", "in"}

(* The lock has at most one holder and is not lost with any of them.       *)
OneHolder == MutualExclusion /\ NoLeakedLock

(* Only the process that owns the flock touches the PID in the lockfile,   *)
(* between taking the lock and returning: opening the file for a contended *)
(* attempt leaves the holder's PID alone.                                  *)
PidWrittenByHolder ==
  [][lockfile' # lockfile =>
       /\ owner # NoProc
       /\ pc[owner] \in {"ftruncate", "write"}
       /\ lockfile' \in {owner, NoProc}]_vars

(* When PIDs can be written, the lockfile names the process that holds the *)
(* lock: truncation and write are not interleaved with another process's.  *)
LockfileNamesHolder ==
  "pid" \notin EnvFaults =>
    \A p \in Procs : pc[p] = "in" => lockfile = p

(* "timeout >0 = wait up to $timeout milliseconds": with any sequence of   *)
(* attempts and interrupted sleeps the call never sleeps longer.           *)
WaitBounded ==
  \A p \in Procs : timeout_msecs[p] >= 0 => waited[p] <= timeout_msecs[p]

(* "timeout <0 = no timeout (try forever)": in an environment without      *)
(* failures a call without timeout is never refused.                       *)
TriesForever ==
  [][\A p \in Procs :
       timeout_msecs[p] < 0 /\ pc[p] # "out" /\ pc'[p] = "out"
         => ret'[p] # -1]_vars

(* A call that has started comes back, however long others hold the lock.  *)
CallsReturn ==
  \A p \in Procs : pc[p] \notin {"in", "out"} ~> pc[p] \in {"in", "out"}

(* Detailed implements abstract.                                           *)
Holders == {p \in Procs : pc[p] = "in"}
Ipc == INSTANCE IpcLock WITH holders <- Holders

(* Every step is one mosys_lock()/mosys_unlock() promise or invisible.     *)
ImplementsIpcLock == Ipc!Spec
=============================================================================
