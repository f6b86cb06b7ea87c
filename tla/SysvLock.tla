------------------------------ MODULE SysvLock ------------------------------
(***************************************************************************)
(* core/ipc_lock.c over core/csem.c: the same lock built on a System V     *)
(* semaphore.  Whoever comes first creates the semaphore, and nobody       *)
(* removes it, so creation races with use.  A semaphore is born with value *)
(* 0 and sem_otime 0; csem_create() brings it to its value and, last, makes*)
(* sem_otime non-zero, which is what csem_get() waits for.                 *)
(*                                                                         *)
(* SEM_UNDO makes the kernel add undo[p] to the value when p dies.         *)
(***************************************************************************)
EXTENDS Integers

CONSTANTS
  Procs,            \* the mosys processes
  Timeouts,         \* the timeout_msecs arguments callers use
  NeedOtimeHack,    \* need_otime_hack: SETVAL does not set sem_otime here
  MAX_OTIME_LOOPS,  \* attempts of csem_get() to see sem_otime set
  MaxSems,          \* bound: semaphores ever created
  EnvFaults         \* failing calls: subset of FaultKinds

FaultKinds == {"probe", "semget", "setval", "semop"}

ASSUME SysvLockAssumption ==
  /\ Timeouts \subseteq Int
  /\ NeedOtimeHack \in BOOLEAN
  /\ MAX_OTIME_LOOPS \in Nat \ {0}
  /\ MaxSems \in Nat \ {0}
  /\ EnvFaults \subseteq FaultKinds

VARIABLES
  sem,              \* kernel: the semaphore of the key; id 0 is none
  last_id,          \* kernel: the newest semaphore id given out
  undo,             \* kernel: SEM_UNDO adjustment of each process
  lock_sem,         \* lock->sem of each process; 0 is the -1 of the code
  sem_id,           \* the local sem_id of csem_create() and csem_get()
  is_held,          \* lock->is_held
  loops,            \* csem_get(): the loop counter i
  timeout_msecs,    \* the argument of the current call
  pc,
  ret

vars == <<sem, last_id, undo, lock_sem, sem_id, is_held, loops,
          timeout_msecs, pc, ret>>
kernelVars == <<sem, last_id, undo>>

NoRet == 9
RetValues == {0, 1, -1, NoRet}
NoSem == [id |-> 0, val |-> 0, otime |-> FALSE]
PCs == {"out", "create", "setval", "otime_down", "get", "otime", "check",
        "semop", "in"}

Init ==
  /\ sem = NoSem
  /\ last_id = 0
  /\ undo = [p \in Procs |-> 0]
  /\ lock_sem = [p \in Procs |-> 0]
  /\ sem_id = [p \in Procs |-> 0]
  /\ is_held = [p \in Procs |-> FALSE]
  /\ loops = [p \in Procs |-> 0]
  /\ timeout_msecs = [p \in Procs |-> 0]
  /\ pc = [p \in Procs |-> "out"]
  /\ ret = [p \in Procs |-> NoRet]
-----------------------------------------------------------------------------
Goto(p, l) == pc' = [pc EXCEPT ![p] = l]
Returns(p, r) == ret' = [ret EXCEPT ![p] = r]

(* The call ends without the lock; the locals of csem.c are gone.          *)
LockFails(p) ==
  /\ sem_id' = [sem_id EXCEPT ![p] = 0]
  /\ loops' = [loops EXCEPT ![p] = 0]
  /\ timeout_msecs' = [timeout_msecs EXCEPT ![p] = 0]
  /\ Goto(p, "out")
  /\ Returns(p, -1)

(* mosys_lock(): lock_init() comes first, even when the lock is held.      *)
Lock(p, t) ==
  /\ pc[p] \in {"out", "in"}
  /\ timeout_msecs' = [timeout_msecs EXCEPT ![p] = t]
  /\ Goto(p, IF lock_sem[p] = 0 THEN "create" ELSE "check")
  /\ Returns(p, NoRet)
  /\ UNCHANGED <<kernelVars, lock_sem, sem_id, is_held, loops>>

(* csem_create(): semget(IPC_CREAT|IPC_EXCL) of a key nobody has used.     *)
Create(p) ==
  /\ pc[p] = "create"
  /\ sem.id = 0
  /\ last_id < MaxSems
  /\ last_id' = last_id + 1
  /\ sem' = [NoSem EXCEPT !.id = last_id + 1]
  /\ sem_id' = [sem_id EXCEPT ![p] = last_id + 1]
  /\ Goto(p, "setval")
  /\ UNCHANGED <<undo, lock_sem, is_held, loops, timeout_msecs, ret>>

(* EEXIST: csem_get_or_create() falls back to csem_get().                  *)
CreateExists(p) ==
  /\ pc[p] = "create"
  /\ sem.id # 0
  /\ Goto(p, "get")
  /\ UNCHANGED <<kernelVars, lock_sem, sem_id, is_held, loops,
                 timeout_msecs, ret>>

(* The platform probe or semget() fails for another reason.                *)
CreateFails(p) ==
  /\ pc[p] = "create"
  /\ \/ "probe" \in EnvFaults
     \/ "semget" \in EnvFaults
  /\ LockFails(p)
  /\ UNCHANGED <<kernelVars, lock_sem, is_held>>

(* lock_init() succeeded.                                                  *)
Initialised(p, id) ==
  /\ lock_sem' = [lock_sem EXCEPT ![p] = id]
  /\ sem_id' = [sem_id EXCEPT ![p] = 0]
  /\ loops' = [loops EXCEPT ![p] = 0]
  /\ Goto(p, "check")

(* csem_setval(): one unit, and one more when csem_down() has to touch     *)
(* sem_otime.                                                              *)
Setval(p) ==
  /\ pc[p] = "setval"
  /\ sem.id = sem_id[p]
  /\ sem' = [sem EXCEPT !.val = IF NeedOtimeHack THEN 2 ELSE 1,
                        !.otime = ~NeedOtimeHack]
  /\ IF NeedOtimeHack
       THEN Goto(p, "otime_down") /\ UNCHANGED <<lock_sem, sem_id, loops>>
       ELSE Initialised(p, sem_id[p])
  /\ UNCHANGED <<last_id, undo, is_held, timeout_msecs, ret>>

(* csem_setval() fails: the semaphore is destroyed again.                  *)
SetvalFails(p) ==
  /\ pc[p] = "setval"
  /\ "setval" \in EnvFaults
  /\ sem' = IF sem.id = sem_id[p] THEN NoSem ELSE sem
  /\ LockFails(p)
  /\ UNCHANGED <<last_id, undo, lock_sem, is_held>>

(* Mutant: the extra unit of csem_setval() is not taken back.              *)
OtimeDown_KeepsExtra(p) ==
  /\ pc[p] = "otime_down"
  /\ sem' = [sem EXCEPT !.otime = TRUE]
  /\ Initialised(p, sem_id[p])
  /\ UNCHANGED <<last_id, undo, is_held, timeout_msecs, ret>>

(* csem_down() of the creator: no SEM_UNDO, and its result is not checked. *)
OtimeDown(p) ==
  /\ pc[p] = "otime_down"
  /\ sem.val > 0
  /\ sem' = [sem EXCEPT !.val = @ - 1, !.otime = TRUE]
  /\ Initialised(p, sem_id[p])
  /\ UNCHANGED <<last_id, undo, is_held, timeout_msecs, ret>>

(* csem_get(): the semaphore may have been destroyed in the meantime.      *)
Get(p) ==
  /\ pc[p] = "get"
  /\ IF sem.id = 0
       THEN LockFails(p)
       ELSE /\ sem_id' = [sem_id EXCEPT ![p] = sem.id]
            /\ Goto(p, "otime")
            /\ UNCHANGED <<loops, timeout_msecs, ret>>
  /\ UNCHANGED <<kernelVars, lock_sem, is_held>>

(* Mutant: csem_get() does not wait for the initialisation.                *)
OtimeSet_Unchecked(p) ==
  /\ pc[p] = "otime"
  /\ sem.id = sem_id[p]
  /\ Initialised(p, sem_id[p])
  /\ UNCHANGED <<kernelVars, is_held, timeout_msecs, ret>>

(* One iteration of the loop of csem_get(): sem_otime is set.              *)
OtimeSet(p) ==
  /\ pc[p] = "otime"
  /\ sem.id = sem_id[p]
  /\ sem.otime
  /\ Initialised(p, sem_id[p])
  /\ UNCHANGED <<kernelVars, is_held, timeout_msecs, ret>>

(* Not set yet: retry, at most MAX_OTIME_LOOPS times.                      *)
OtimeUnset(p) ==
  /\ pc[p] = "otime"
  /\ sem.id = sem_id[p]
  /\ ~sem.otime
  /\ IF loops[p] + 1 < MAX_OTIME_LOOPS
       THEN /\ loops' = [loops EXCEPT ![p] = @ + 1]
            /\ UNCHANGED <<sem_id, timeout_msecs, pc, ret>>
       ELSE LockFails(p)
  /\ UNCHANGED <<kernelVars, lock_sem, is_held>>

(* IPC_STAT of a semaphore that was destroyed.                             *)
OtimeFails(p) ==
  /\ pc[p] = "otime"
  /\ sem.id # sem_id[p]
  /\ LockFails(p)
  /\ UNCHANGED <<kernelVars, lock_sem, is_held>>

(* Mutant: a lock that is held already is reported as newly acquired.      *)
Check_AsNew(p) ==
  /\ pc[p] = "check"
  /\ IF is_held[p]
       THEN /\ Goto(p, "in")
            /\ Returns(p, 0)
            /\ timeout_msecs' = [timeout_msecs EXCEPT ![p] = 0]
       ELSE Goto(p, "semop") /\ UNCHANGED <<ret, timeout_msecs>>
  /\ UNCHANGED <<kernelVars, lock_sem, sem_id, is_held, loops>>

(* mosys_lock() after lock_init().                                         *)
Check(p) ==
  /\ pc[p] = "check"
  /\ IF is_held[p]
       THEN /\ Goto(p, "in")
            /\ Returns(p, 1)
            /\ timeout_msecs' = [timeout_msecs EXCEPT ![p] = 0]
       ELSE Goto(p, "semop") /\ UNCHANGED <<ret, timeout_msecs>>
  /\ UNCHANGED <<kernelVars, lock_sem, sem_id, is_held, loops>>

(* Mutant: the semaphore is taken without SEM_UNDO.                        *)
Semop_NoUndo(p) ==
  /\ pc[p] = "semop"
  /\ sem.id = lock_sem[p]
  /\ sem.val > 0
  /\ sem' = [sem EXCEPT !.val = @ - 1, !.otime = TRUE]
  /\ is_held' = [is_held EXCEPT ![p] = TRUE]
  /\ timeout_msecs' = [timeout_msecs EXCEPT ![p] = 0]
  /\ Goto(p, "in")
  /\ Returns(p, 0)
  /\ UNCHANGED <<last_id, undo, lock_sem, sem_id, loops>>

(* csem_down_timeout_undo(): semtimedop() takes the unit.                  *)
Semop(p) ==
  /\ pc[p] = "semop"
  /\ sem.id = lock_sem[p]
  /\ sem.val > 0
  /\ sem' = [sem EXCEPT !.val = @ - 1, !.otime = TRUE]
  /\ undo' = [undo EXCEPT ![p] = @ + 1]
  /\ is_held' = [is_held EXCEPT ![p] = TRUE]
  /\ timeout_msecs' = [timeout_msecs EXCEPT ![p] = 0]
  /\ Goto(p, "in")
  /\ Returns(p, 0)
  /\ UNCHANGED <<last_id, lock_sem, sem_id, loops>>

(* EAGAIN when the timeout ends; a negative one has no timespec and does   *)
(* not end.                                                                *)
SemopTimesOut(p) ==
  /\ pc[p] = "semop"
  /\ timeout_msecs[p] >= 0 /\ sem.val = 0
  /\ LockFails(p)
  /\ UNCHANGED <<kernelVars, lock_sem, is_held>>

(* Another error, EINTR included.                                          *)
SemopFails(p) ==
  /\ pc[p] = "semop"
  /\ "semop" \in EnvFaults
  /\ LockFails(p)
  /\ UNCHANGED <<kernelVars, lock_sem, is_held>>

(* Mutant: csem_up() instead of csem_up_undo().                            *)
Unlock_NoUndo(p) ==
  /\ pc[p] = "in"
  /\ is_held[p]
  /\ is_held' = [is_held EXCEPT ![p] = FALSE]
  /\ sem' = [sem EXCEPT !.val = @ + 1, !.otime = TRUE]
  /\ Goto(p, "out")
  /\ Returns(p, 0)
  /\ UNCHANGED <<last_id, undo, lock_sem, sem_id, loops, timeout_msecs>>

(* Mutant: is_held is cleared and the unit kept.                           *)
Unlock_KeepsUnit(p) ==
  /\ pc[p] = "in"
  /\ is_held[p]
  /\ is_held' = [is_held EXCEPT ![p] = FALSE]
  /\ Goto(p, "out")
  /\ Returns(p, 0)
  /\ UNCHANGED <<kernelVars, lock_sem, sem_id, loops, timeout_msecs>>

(* mosys_unlock(): is_held is cleared, then csem_up_undo().                *)
Unlock(p) ==
  /\ pc[p] = "in"
  /\ is_held[p]
  /\ is_held' = [is_held EXCEPT ![p] = FALSE]
  /\ sem' = [sem EXCEPT !.val = @ + 1, !.otime = TRUE]
  /\ undo' = [undo EXCEPT ![p] = @ - 1]
  /\ Goto(p, "out")
  /\ Returns(p, 0)
  /\ UNCHANGED <<last_id, lock_sem, sem_id, loops, timeout_msecs>>

UnlockNotHeld(p) ==
  /\ pc[p] = "out"
  /\ ~is_held[p]
  /\ Returns(p, -1)
  /\ UNCHANGED <<kernelVars, lock_sem, sem_id, is_held, loops,
                 timeout_msecs, pc>>

(* The process dies anywhere; the kernel applies its undo adjustment.  The *)
(* next process of that slot starts from SYSV_IPC_LOCK_INIT.               *)
Dies(p) ==
  /\ sem' = [sem EXCEPT !.val = @ + undo[p]]
  /\ undo' = [undo EXCEPT ![p] = 0]
  /\ lock_sem' = [lock_sem EXCEPT ![p] = 0]
  /\ sem_id' = [sem_id EXCEPT ![p] = 0]
  /\ is_held' = [is_held EXCEPT ![p] = FALSE]
  /\ loops' = [loops EXCEPT ![p] = 0]
  /\ timeout_msecs' = [timeout_msecs EXCEPT ![p] = 0]
  /\ Goto(p, "out")
  /\ Returns(p, NoRet)
  /\ UNCHANGED last_id

Step(p) ==
  \/ Create(p) \/ CreateExists(p) \/ Setval(p) \/ OtimeDown(p)
  \/ Get(p) \/ OtimeSet(p) \/ OtimeUnset(p) \/ OtimeFails(p)
  \/ Check(p) \/ Semop(p) \/ SemopTimesOut(p)

(* The failing calls, which no fairness asks for.                          *)
Fault(p) == CreateFails(p) \/ SetvalFails(p) \/ SemopFails(p)

Next ==
  \E p \in Procs :
    \/ Step(p) \/ Fault(p)
    \/ \E t \in Timeouts : Lock(p, t)
    \/ Unlock(p) \/ UnlockNotHeld(p)
    \/ Dies(p)

Spec == Init /\ [][Next]_vars

(* Running processes are scheduled, the holder of the lock finishes its    *)
(* command, and semop() serves its waiters in order of arrival.            *)
FairSpec ==
  /\ Spec
  /\ \A p \in Procs : WF_vars(Step(p)) /\ SF_vars(Unlock(p))
                      /\ SF_vars(Semop(p))
-----------------------------------------------------------------------------
TypeOK ==
  /\ sem \in [id : 0 .. MaxSems, val : Nat, otime : BOOLEAN]
  /\ last_id \in 0 .. MaxSems
  /\ undo \in [Procs -> {0, 1}]
  /\ lock_sem \in [Procs -> 0 .. MaxSems]
  /\ sem_id \in [Procs -> 0 .. MaxSems]
  /\ is_held \in [Procs -> BOOLEAN]
  /\ loops \in [Procs -> 0 .. MAX_OTIME_LOOPS - 1]
  /\ timeout_msecs \in [Procs -> Int]
  /\ pc \in [Procs -> PCs]
  /\ ret \in [Procs -> RetValues]

(* The processes between a granting mosys_lock() and the mosys_unlock().   *)
Holders == {p \in Procs : is_held[p]}

(* Whoever created the semaphore, and whoever died, two processes never    *)
(* hold the lock together.                                                 *)
MutualExclusion == \A p, q \in Holders : p = q

(* No process works with a semaphore that is not fully initialised or that *)
(* was destroyed: the point of the sem_otime protocol of csem.c.           *)
UsedOnlyInitialised ==
  \A p \in Procs : lock_sem[p] # 0 => sem.id = lock_sem[p] /\ sem.otime

(* No unit is lost or invented: an initialised semaphore is 1 when free and*)
(* 0 when held, also after deaths, which give back what the kernel has     *)
(* noted for the process: one unit if it holds the lock, none otherwise.   *)
UnitConserved ==
  /\ sem.otime => sem.val = IF Holders = {} THEN 1 ELSE 0
  /\ \A p \in Procs : undo[p] = IF is_held[p] THEN 1 ELSE 0

(* There is one unit, and so one holder, whoever created the semaphore.    *)
OneUnit == MutualExclusion /\ UnitConserved

(* "timeout <0 = no timeout (try forever)": a process that waits without   *)
(* timeout is served in the end, or dies.                                  *)
WaitersServed ==
  \A p \in Procs : pc[p] = "semop" ~> pc[p] \in {"in", "out"}

Ipc == INSTANCE IpcLock WITH holders <- Holders

(* Every step is one the abstract lock allows.                             *)
ImplementsIpcLock == Ipc!Spec
=============================================================================
