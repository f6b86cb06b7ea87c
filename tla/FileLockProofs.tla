--------------------------- MODULE FileLockProofs ---------------------------
(***************************************************************************)
(* FileLock for any set of processes, any timeouts and any sleep interval. *)
(***************************************************************************)
EXTENDS FileLock, TLAPS

(* Which lines a process that owns the flock can be at, and what its own   *)
(* struct ipc_lock says there.                                             *)
Owning == {"ftruncate", "write", "in"}

LockInv ==
  \A p \in Procs :
    /\ fd_open[p] <=> pc[p] # "out"
    /\ is_held[p] <=> pc[p] \in Owning \cup {"close"}
    /\ owner = p <=> pc[p] \in Owning
    /\ pc[p] = "close" => ret[p] = NoRet

(* The time slept so far and what the countdown still allows never exceed  *)
(* the timeout together.                                                   *)
WaitInv ==
  \A p \in Procs : timeout_msecs[p] >= 0 =>
    /\ pc[p] \notin {"flock", "nanosleep", "timed_out"} => waited[p] = 0
    /\ pc[p] = "flock" =>
         /\ msecs_remaining[p] >= 0
         /\ waited[p] + msecs_remaining[p] <= timeout_msecs[p]
         /\ sleep_interval[p] \in 0 .. SLEEP_INTERVAL_MS
    /\ pc[p] = "nanosleep" =>
         /\ waited[p] + sleep_interval[p] <= timeout_msecs[p]
         /\ waited[p] + sleep_interval[p] + msecs_remaining[p]
              <= timeout_msecs[p] + SLEEP_INTERVAL_MS
         /\ sleep_interval[p] \in 0 .. SLEEP_INTERVAL_MS
    /\ pc[p] = "timed_out" => waited[p] <= timeout_msecs[p]

(* The conjunction the proofs are by induction on.                         *)
FileLockInv == TypeOK /\ LockInv /\ WaitInv /\ LockfileNamesHolder
-----------------------------------------------------------------------------
(* Every variable keeps its type under every step.                         *)
LEMMA TypeStep == TypeOK /\ [Next]_vars => TypeOK'
  <1> SUFFICES ASSUME TypeOK, [Next]_vars PROVE TypeOK'
    OBVIOUS
  <1> USE FileLockAssumption DEF TypeOK, PCs, RetValues, NoRet, Goto, Returns,
        LocalsGone, kernelVars, waitVars
  <1>1. CASE UNCHANGED vars
    BY <1>1 DEF vars
  <1>2. ASSUME NEW p \in Procs, Step(p) PROVE TypeOK'
    <2>1. CASE FlockGranted(p)
      BY <2>1 DEF FlockGranted
    <2>2. CASE FlockRefused(p) \/ SleepInvalid(p) \/ TimedOut(p)
      <3>1. LockFails(p)
        BY <2>2 DEF FlockRefused, SleepInvalid, TimedOut
      <3>2. QED
        BY <3>1 DEF LockFails
    <2>3. CASE FlockWouldBlock(p)
      BY <2>3 DEF FlockWouldBlock
    <2>4. CASE SleepInterrupted(p)
      <3>1. PICK rem \in 0 .. sleep_interval[p] - 1 :
              /\ waited' = [waited EXCEPT ![p] = @ + (sleep_interval[p] - rem)]
              /\ sleep_interval' = [sleep_interval EXCEPT ![p] = rem]
        BY <2>4 DEF SleepInterrupted
      <3>2. waited[p] + (sleep_interval[p] - rem) \in Nat
        BY <3>1
      <3>3. QED
        BY <3>1, <3>2, <2>4 DEF SleepInterrupted
    <2>5. CASE SleepDone(p)
      BY <2>5 DEF SleepDone
    <2>6. CASE WritePidTruncates(p) \/ WritePidWrites(p) \/ WritePidFails(p)
      BY <2>6 DEF WritePidTruncates, WritePidWrites, WritePidFails
    <2>7. CASE UnlockCloses(p)
      BY <2>7 DEF UnlockCloses
    <2>8. QED
      BY <1>2, <2>1, <2>2, <2>3, <2>4, <2>5, <2>6, <2>7 DEF Step
  <1>3. ASSUME NEW p \in Procs, Call(p) PROVE TypeOK'
    <2>1. ASSUME NEW t \in Timeouts, LockOpens(p, t) PROVE TypeOK'
      BY <2>1 DEF LockOpens
    <2>2. CASE LockOpenFails(p) \/ LockAlreadyHeld(p) \/ UnlockNotHeld(p)
      BY <2>2 DEF LockOpenFails, LockAlreadyHeld, UnlockNotHeld
    <2>3. CASE UnlockFlock(p)
      BY <2>3 DEF UnlockFlock
    <2>4. QED
      BY <1>3, <2>1, <2>2, <2>3 DEF Call
  <1>4. ASSUME NEW p \in Procs, Dies(p) PROVE TypeOK'
    BY <1>4 DEF Dies
  <1>5. QED
    BY <1>1, <1>2, <1>3, <1>4 DEF Next

(* Ownership of the flock follows the program counter of one process.      *)
LEMMA LockStep == TypeOK /\ LockInv /\ [Next]_vars => LockInv'
  <1> SUFFICES ASSUME TypeOK, LockInv, [Next]_vars PROVE LockInv'
    OBVIOUS
  <1> USE FileLockAssumption DEF TypeOK, LockInv, Owning, PCs, Goto, Returns,
        NoRet, kernelVars
  <1>1. CASE UNCHANGED vars
    BY <1>1 DEF vars
  <1>2. ASSUME NEW p \in Procs, Step(p) PROVE LockInv'
    <2>1. CASE FlockGranted(p)
      BY <2>1 DEF FlockGranted
    <2>2. CASE FlockRefused(p) \/ SleepInvalid(p) \/ TimedOut(p)
      BY <2>2 DEF FlockRefused, SleepInvalid, TimedOut, LockFails
    <2>3. CASE FlockWouldBlock(p) \/ SleepInterrupted(p) \/ SleepDone(p)
      BY <2>3 DEF FlockWouldBlock, SleepInterrupted, SleepDone
    <2>4. CASE WritePidTruncates(p) \/ WritePidWrites(p) \/ WritePidFails(p)
      BY <2>4 DEF WritePidTruncates, WritePidWrites, WritePidFails
    <2>5. CASE UnlockCloses(p)
      BY <2>5 DEF UnlockCloses
    <2>6. QED
      BY <1>2, <2>1, <2>2, <2>3, <2>4, <2>5 DEF Step
  <1>3. ASSUME NEW p \in Procs, Call(p) PROVE LockInv'
    <2>1. ASSUME NEW t \in Timeouts, LockOpens(p, t) PROVE LockInv'
      BY <2>1 DEF LockOpens
    <2>2. CASE LockOpenFails(p) \/ LockAlreadyHeld(p) \/ UnlockNotHeld(p)
      BY <2>2 DEF LockOpenFails, LockAlreadyHeld, UnlockNotHeld
    <2>3. CASE UnlockFlock(p)
      BY <2>3 DEF UnlockFlock
    <2>4. QED
      BY <1>3, <2>1, <2>2, <2>3 DEF Call
  <1>4. ASSUME NEW p \in Procs, Dies(p) PROVE LockInv'
    BY <1>4 DEF Dies
  <1>5. QED
    BY <1>1, <1>2, <1>3, <1>4 DEF Next

(* The countdown covers every sleep.                                       *)
LEMMA WaitStep == TypeOK /\ WaitInv /\ [Next]_vars => WaitInv'
  <1> SUFFICES ASSUME TypeOK, WaitInv, [Next]_vars PROVE WaitInv'
    OBVIOUS
  <1> USE FileLockAssumption DEF TypeOK, WaitInv, PCs, Goto, LocalsGone,
        waitVars
  <1>1. CASE UNCHANGED vars
    BY <1>1 DEF vars
  <1>2. ASSUME NEW p \in Procs, Step(p) PROVE WaitInv'
    <2>1. CASE FlockGranted(p)
      BY <2>1 DEF FlockGranted
    <2>2. CASE FlockRefused(p) \/ SleepInvalid(p) \/ TimedOut(p)
      <3>1. LockFails(p)
        BY <2>2 DEF FlockRefused, SleepInvalid, TimedOut
      <3>2. QED
        BY <3>1 DEF LockFails
    <2>3. CASE FlockWouldBlock(p)
      BY <2>3 DEF FlockWouldBlock
    <2>4. CASE SleepInterrupted(p)
      <3>1. PICK rem \in 0 .. sleep_interval[p] - 1 :
              /\ waited' = [waited EXCEPT ![p] = @ + (sleep_interval[p] - rem)]
              /\ sleep_interval' = [sleep_interval EXCEPT ![p] = rem]
        BY <2>4 DEF SleepInterrupted
      <3>2. QED
        BY <3>1, <2>4 DEF SleepInterrupted
    <2>5. CASE SleepDone(p)
      BY <2>5 DEF SleepDone
    <2>6. CASE WritePidTruncates(p) \/ WritePidWrites(p) \/ WritePidFails(p)
      BY <2>6 DEF WritePidTruncates, WritePidWrites, WritePidFails
    <2>7. CASE UnlockCloses(p)
      BY <2>7 DEF UnlockCloses
    <2>8. QED
      BY <1>2, <2>1, <2>2, <2>3, <2>4, <2>5, <2>6, <2>7 DEF Step
  <1>3. ASSUME NEW p \in Procs, Call(p) PROVE WaitInv'
    <2>1. ASSUME NEW t \in Timeouts, LockOpens(p, t) PROVE WaitInv'
      BY <2>1 DEF LockOpens
    <2>2. CASE LockOpenFails(p) \/ LockAlreadyHeld(p) \/ UnlockNotHeld(p)
      BY <2>2 DEF LockOpenFails, LockAlreadyHeld, UnlockNotHeld
    <2>3. CASE UnlockFlock(p)
      BY <2>3 DEF UnlockFlock
    <2>4. QED
      BY <1>3, <2>1, <2>2, <2>3 DEF Call
  <1>4. ASSUME NEW p \in Procs, Dies(p) PROVE WaitInv'
    BY <1>4 DEF Dies
  <1>5. QED
    BY <1>1, <1>2, <1>3, <1>4 DEF Next

(* Only the owner of the flock changes the lockfile.                       *)
LEMMA LockfileStep ==
  TypeOK /\ LockInv /\ LockfileNamesHolder /\ [Next]_vars
    => LockfileNamesHolder'
  <1> SUFFICES ASSUME TypeOK, LockInv, LockfileNamesHolder, [Next]_vars,
                      "pid" \notin EnvFaults,
                      NEW q \in Procs, pc'[q] = "in"
               PROVE  lockfile' = q
    BY DEF LockfileNamesHolder
  <1> USE DEF TypeOK, LockInv, LockfileNamesHolder, Owning, PCs, Goto,
        kernelVars
  <1>1. CASE UNCHANGED vars
    BY <1>1 DEF vars
  <1>2. ASSUME NEW p \in Procs, Step(p) PROVE lockfile' = q
    <2>1. CASE FlockGranted(p)
      BY <2>1 DEF FlockGranted
    <2>2. CASE FlockRefused(p) \/ SleepInvalid(p) \/ TimedOut(p)
      BY <2>2 DEF FlockRefused, SleepInvalid, TimedOut, LockFails
    <2>3. CASE FlockWouldBlock(p) \/ SleepInterrupted(p) \/ SleepDone(p)
      BY <2>3 DEF FlockWouldBlock, SleepInterrupted, SleepDone
    <2>4. CASE WritePidTruncates(p) \/ WritePidWrites(p) \/ WritePidFails(p)
      BY <2>4 DEF WritePidTruncates, WritePidWrites, WritePidFails
    <2>5. CASE UnlockCloses(p)
      BY <2>5 DEF UnlockCloses
    <2>6. QED
      BY <1>2, <2>1, <2>2, <2>3, <2>4, <2>5 DEF Step
  <1>3. ASSUME NEW p \in Procs, Call(p) PROVE lockfile' = q
    BY <1>3 DEF Call, LockOpens, LockOpenFails, LockAlreadyHeld, UnlockFlock,
         UnlockNotHeld
  <1>4. ASSUME NEW p \in Procs, Dies(p) PROVE lockfile' = q
    BY <1>4 DEF Dies
  <1>5. QED
    BY <1>1, <1>2, <1>3, <1>4 DEF Next

(* The inductive invariant holds in every reachable state.                 *)
THEOREM Invariant == Spec => []FileLockInv
  <1>1. Init => FileLockInv
    BY FileLockAssumption DEF Init, FileLockInv, TypeOK, LockInv, WaitInv,
      LockfileNamesHolder, Owning, PCs, RetValues, NoRet
  <1>2. FileLockInv /\ [Next]_vars => FileLockInv'
    BY TypeStep, LockStep, WaitStep, LockfileStep DEF FileLockInv
  <1>3. QED
    BY <1>1, <1>2, PTL DEF Spec

(* Two mosys processes are never both inside the section the lock guards,  *)
(* for any number of processes, timeouts, interruptions and deaths.        *)
THEOREM Exclusion == Spec => []MutualExclusion
  <1>1. FileLockInv => MutualExclusion
    BY DEF FileLockInv, LockInv, MutualExclusion, Owning
  <1>2. QED
    BY <1>1, Invariant, PTL

(* No failure path of mosys_lock() and no death leaves the flock owned by  *)
(* a process that does not know it, or a descriptor open.                  *)
THEOREM NoLeak == Spec => []NoLeakedLock
  <1>1. FileLockInv => NoLeakedLock
    BY FileLockAssumption
       DEF FileLockInv, TypeOK, LockInv, NoLeakedLock, Owning
  <1>2. QED
    BY <1>1, Invariant, PTL

(* The lock has at most one holder, and is not lost with any of them.      *)
THEOREM OneAtATime == Spec => []OneHolder
  <1>1. MutualExclusion /\ NoLeakedLock => OneHolder
    BY DEF OneHolder
  <1>2. QED
    BY <1>1, Exclusion, NoLeak, PTL

(* mosys_lock() never sleeps longer than its timeout, for any timeout and  *)
(* any sleep interval, whether or not one divides the other.               *)
THEOREM BoundedWait == Spec => []WaitBounded
  <1>1. FileLockInv => WaitBounded
    <2> SUFFICES ASSUME FileLockInv, NEW p \in Procs, timeout_msecs[p] >= 0
                 PROVE  waited[p] <= timeout_msecs[p]
      BY DEF WaitBounded
    <2> USE FileLockAssumption DEF FileLockInv, TypeOK, WaitInv, PCs
    <2>1. CASE pc[p] = "flock"
      BY <2>1
    <2>2. CASE pc[p] = "nanosleep"
      BY <2>2
    <2>3. CASE pc[p] \notin {"flock", "nanosleep"}
      BY <2>3
    <2>4. QED
      BY <2>1, <2>2, <2>3
  <1>2. QED
    BY <1>1, Invariant, PTL

(* The lockfile names the holder whenever PIDs can be written.             *)
THEOREM LockfileCorrect == Spec => []LockfileNamesHolder
  <1>1. FileLockInv => LockfileNamesHolder
    BY DEF FileLockInv
  <1>2. QED
    BY <1>1, Invariant, PTL

(* Nobody but the owner of the flock changes the PID in the lockfile, also *)
(* when truncating or writing it fails half way.                           *)
THEOREM PidOwnership == Spec => PidWrittenByHolder
  <1> DEFINE Kept == /\ owner # NoProc
                     /\ pc[owner] \in {"ftruncate", "write"}
                     /\ lockfile' \in {owner, NoProc}
  <1>1. FileLockInv /\ [Next]_vars => [lockfile' # lockfile => Kept]_vars
    <2> SUFFICES ASSUME FileLockInv, Next PROVE lockfile' # lockfile => Kept
      OBVIOUS
    <2> USE FileLockAssumption DEF FileLockInv, LockInv, Owning, kernelVars
    <2>1. ASSUME NEW p \in Procs, WritePidTruncates(p) \/ WritePidWrites(p)
          PROVE  Kept
      BY <2>1 DEF WritePidTruncates, WritePidWrites
    <2>2. ASSUME NEW p \in Procs, Step(p),
                 ~WritePidTruncates(p), ~WritePidWrites(p)
          PROVE  lockfile' = lockfile
      BY <2>2 DEF Step, FlockGranted, FlockRefused, FlockWouldBlock,
           SleepInvalid, SleepInterrupted, SleepDone, TimedOut, LockFails,
           WritePidFails, UnlockCloses
    <2>3. ASSUME NEW p \in Procs, Call(p) \/ Dies(p)
          PROVE  lockfile' = lockfile
      BY <2>3 DEF Call, LockOpens, LockOpenFails, LockAlreadyHeld,
           UnlockFlock, UnlockNotHeld, Dies
    <2>4. QED
      BY <2>1, <2>2, <2>3 DEF Next
  <1>2. QED
    BY <1>1, Invariant, PTL DEF Spec, PidWrittenByHolder

(* How a step changes the set of processes inside the section.             *)
LEMMA HoldersStep ==
  ASSUME TypeOK, NEW p \in Procs, NEW l \in PCs, Goto(p, l)
  PROVE  Holders' = IF l = "in" THEN Holders \cup {p} ELSE Holders \ {p}
  BY DEF Holders, Goto, TypeOK

(* One step of file_lock.c is one step of the abstract lock or none.       *)
LEMMA Simulation ==
  FileLockInv /\ [Next]_vars => [Ipc!Next]_(Ipc!ipcVars)
  <1> SUFFICES ASSUME FileLockInv, [Next]_vars
               PROVE  Ipc!Next \/ UNCHANGED Ipc!ipcVars
    OBVIOUS
  <1> TypeOK /\ LockInv
    BY DEF FileLockInv
  <1> USE DEF NoRet, Ipc!NoRet, Returns
  <1>1. CASE UNCHANGED vars
    BY <1>1 DEF vars, Ipc!ipcVars, Holders
  <1>2. ASSUME NEW p \in Procs, Step(p) PROVE Ipc!Next \/ UNCHANGED Ipc!ipcVars
    <2>1. CASE FlockGranted(p) \/ FlockWouldBlock(p) \/ SleepInterrupted(p)
               \/ SleepDone(p) \/ WritePidTruncates(p)
      BY <2>1 DEF FlockGranted, FlockWouldBlock, SleepInterrupted, SleepDone,
           WritePidTruncates, Goto, Holders, TypeOK, Ipc!ipcVars
    <2>2. CASE FlockRefused(p) \/ SleepInvalid(p) \/ TimedOut(p)
      <3>1. LockFails(p) /\ pc[p] # "in"
        BY <2>2 DEF FlockRefused, SleepInvalid, TimedOut
      <3>2. p \notin Holders /\ Holders' = Holders
        BY <3>1 DEF LockFails, Goto, Holders, TypeOK
      <3>3. Ipc!Refused(p)
        BY <3>1, <3>2 DEF LockFails, Ipc!Refused
      <3>4. QED
        BY <3>3 DEF Ipc!Next
    <2>3. CASE WritePidWrites(p) \/ WritePidFails(p)
      <3>1. pc[p] \in {"ftruncate", "write"} /\ Goto(p, "in") /\ Returns(p, 0)
        BY <2>3 DEF WritePidWrites, WritePidFails
      <3>2. Holders = {}
        BY <3>1 DEF LockInv, Owning, Holders
      <3>3. Holders' = {p}
        BY <3>1, <3>2, HoldersStep DEF PCs
      <3>4. Ipc!Granted(p)
        BY <3>1, <3>2, <3>3 DEF Ipc!Granted
      <3>5. QED
        BY <3>4 DEF Ipc!Next
    <2>4. CASE UnlockCloses(p)
      <3>1. p \notin Holders /\ Holders' = Holders
        BY <2>4 DEF UnlockCloses, Goto, Holders, TypeOK
      <3>2. Ipc!Released(p)
        BY <2>4, <3>1 DEF UnlockCloses, LockInv, Ipc!Released
      <3>3. QED
        BY <3>2 DEF Ipc!Next
    <2>5. QED
      BY <1>2, <2>1, <2>2, <2>3, <2>4 DEF Step
  <1>3. ASSUME NEW p \in Procs, Call(p) PROVE Ipc!Next \/ UNCHANGED Ipc!ipcVars
    <2>1. ASSUME NEW t \in Timeouts, LockOpens(p, t) PROVE Ipc!Called(p)
      BY <2>1 DEF LockOpens, Goto, Holders, TypeOK, Ipc!Called
    <2>2. CASE LockOpenFails(p) \/ UnlockNotHeld(p)
      <3>1. p \notin Holders /\ Holders' = Holders
        BY <2>2 DEF LockOpenFails, UnlockNotHeld, Holders
      <3>2. Ipc!Refused(p)
        BY <2>2, <3>1 DEF LockOpenFails, UnlockNotHeld, Ipc!Refused
      <3>3. QED
        BY <3>2 DEF Ipc!Next
    <2>3. CASE LockAlreadyHeld(p)
      <3>1. p \in Holders /\ Holders' = Holders
        BY <2>3 DEF LockAlreadyHeld, LockInv, Owning, Holders
      <3>2. Ipc!AlreadyHeld(p)
        BY <2>3, <3>1 DEF LockAlreadyHeld, Ipc!AlreadyHeld
      <3>3. QED
        BY <3>2 DEF Ipc!Next
    <2>4. CASE UnlockFlock(p)
      <3>1. p \in Holders /\ Holders' = Holders \ {p}
        BY <2>4, HoldersStep DEF UnlockFlock, Holders, PCs
      <3>2. Ipc!GivenUp(p)
        BY <2>4, <3>1 DEF UnlockFlock, Ipc!GivenUp
      <3>3. QED
        BY <3>2 DEF Ipc!Next
    <2>5. QED
      BY <1>3, <2>1, <2>2, <2>3, <2>4 DEF Call, Ipc!Next
  <1>4. ASSUME NEW p \in Procs, Dies(p) PROVE Ipc!Next \/ UNCHANGED Ipc!ipcVars
    <2>1. Holders' = Holders \ {p} /\ Returns(p, NoRet)
      BY <1>4, HoldersStep DEF Dies, PCs
    <2>2. CASE p \in Holders
      BY <2>1, <2>2 DEF Ipc!GivenUp, Ipc!Next
    <2>3. CASE p \notin Holders
      BY <2>1, <2>3 DEF Ipc!Called, Ipc!Next
    <2>4. QED
      BY <2>2, <2>3
  <1>5. QED
    BY <1>1, <1>2, <1>3, <1>4 DEF Next

(* file_lock.c implements the abstract lock: mutual exclusion and the      *)
(* returned values, for any number of processes.                           *)
THEOREM Implementation == Spec => ImplementsIpcLock
  <1>1. Init => Ipc!Init
    BY DEF Init, Ipc!Init, Holders, NoRet, Ipc!NoRet
  <1>2. QED
    BY <1>1, Simulation, Invariant, PTL DEF Spec, ImplementsIpcLock, Ipc!Spec
=============================================================================
