--------------------------- MODULE SysvLockProofs ---------------------------
(***************************************************************************)
(* SysvLock for any set of processes, any timeouts, any number of          *)
(* semaphores ever created and any set of faults.                          *)
(***************************************************************************)
EXTENDS SysvLock, TLAPS

(* Where a process is says what it knows of a semaphore and whether it can *)
(* hold the lock; the kernel's adjustment is what its death would give     *)
(* back.                                                                   *)
PlaceInv ==
  \A p \in Procs :
    /\ is_held[p] => pc[p] \in {"check", "in"}
    /\ pc[p] = "in" => is_held[p]
    /\ pc[p] \in {"check", "semop", "in"} => lock_sem[p] # 0
    /\ pc[p] \in {"create", "setval", "otime_down", "get", "otime"} =>
         lock_sem[p] = 0
    /\ undo[p] = IF is_held[p] THEN 1 ELSE 0
    /\ pc[p] \notin {"out", "in"} => ret[p] = NoRet

(* Only one process brings a semaphore to life, and until sem_otime is set *)
(* nobody else has it in its lock structure.                               *)
Creating == {"setval", "otime_down"}

BirthInv ==
  /\ sem.otime => sem.id # 0
  /\ \A p \in Procs :
       /\ pc[p] \in Creating =>
            sem_id[p] # 0 /\ sem.id = sem_id[p] /\ ~sem.otime
       /\ pc[p] = "otime_down" => sem.val = 2
       /\ lock_sem[p] # 0 => sem.id = lock_sem[p] /\ sem.otime
  /\ \A p, q \in Procs :
       pc[p] \in Creating /\ pc[q] \in Creating => p = q

(* The one unit is in the semaphore or with the one holder.                *)
UnitInv ==
  /\ \A p, q \in Procs : is_held[p] /\ is_held[q] => p = q
  /\ sem.otime =>
       \/ sem.val = 0 /\ \E p \in Procs : is_held[p]
       \/ sem.val = 1 /\ \A p \in Procs : ~is_held[p]

(* The conjunction the proofs are by induction on.                         *)
SysvInv == TypeOK /\ PlaceInv /\ BirthInv /\ UnitInv
-----------------------------------------------------------------------------
Semaphores == [id : 0 .. MaxSems, val : Nat, otime : BOOLEAN]

(* What the calls make of a semaphore is one again.                        *)
LEMMA SemUpdates ==
  ASSUME NEW s \in Semaphores, NEW v \in Nat, NEW b \in BOOLEAN,
         NEW i \in 0 .. MaxSems
  PROVE  /\ [s EXCEPT !.val = v] \in Semaphores
         /\ [s EXCEPT !.val = v, !.otime = b] \in Semaphores
         /\ [NoSem EXCEPT !.id = i] \in Semaphores
         /\ NoSem \in Semaphores
  <1>1. [s EXCEPT !.val = v] \in Semaphores
    BY DEF Semaphores
  <1>2. [s EXCEPT !.val = v, !.otime = b] \in Semaphores
    BY Zenon DEF Semaphores
  <1>3. NoSem \in Semaphores
    BY SysvLockAssumption DEF Semaphores, NoSem
  <1>4. [NoSem EXCEPT !.id = i] \in Semaphores
    BY <1>3 DEF Semaphores
  <1>5. QED
    BY <1>1, <1>2, <1>3, <1>4

(* Every variable keeps its type under every step.                         *)
LEMMA TypeStep == TypeOK /\ PlaceInv /\ [Next]_vars => TypeOK'
  <1> SUFFICES ASSUME TypeOK, PlaceInv, [Next]_vars PROVE TypeOK'
    OBVIOUS
  <1> USE SysvLockAssumption DEF TypeOK, PCs, RetValues, NoRet, NoSem, Goto,
        Returns, kernelVars, LockFails, Initialised
  <1>0. sem \in Semaphores
    BY DEF Semaphores
  <1>1. CASE UNCHANGED vars
    BY <1>1 DEF vars
  <1>2. ASSUME NEW p \in Procs, Step(p) PROVE TypeOK'
    <2>1. CASE Create(p)
      <3>1. sem' \in Semaphores
        <4>1. /\ last_id + 1 \in 0 .. MaxSems
              /\ sem' = [NoSem EXCEPT !.id = last_id + 1]
          BY <2>1 DEF Create
        <4>2. QED
          BY <4>1, SemUpdates DEF Semaphores
      <3>2. QED
        BY <2>1, <3>1 DEF Create, Semaphores
    <2>2. CASE CreateExists(p) \/ OtimeSet(p) \/ OtimeFails(p)
      BY <2>2 DEF CreateExists, OtimeSet, OtimeFails
    <2>3. CASE Setval(p)
      <3>1. sem' \in Semaphores
        BY <1>0, <2>3, SemUpdates DEF Setval
      <3>2. QED
        BY <2>3, <3>1 DEF Setval, Semaphores
    <2>4. CASE OtimeDown(p)
      <3>1. sem.val - 1 \in Nat
        BY <2>4 DEF OtimeDown
      <3>2. sem' \in Semaphores
        BY <1>0, <2>4, <3>1, SemUpdates DEF OtimeDown
      <3>3. QED
        BY <2>4, <3>2 DEF OtimeDown, Semaphores
    <2>5. CASE Get(p)
      BY <2>5 DEF Get
    <2>6. CASE OtimeUnset(p)
      BY <2>6 DEF OtimeUnset
    <2>7. CASE Check(p) \/ SemopTimesOut(p)
      BY <2>7 DEF Check, SemopTimesOut
    <2>8. CASE Semop(p)
      <3>1. sem.val - 1 \in Nat /\ undo[p] = 0
        BY <2>8 DEF Semop, PlaceInv
      <3>2. sem' \in Semaphores
        BY <1>0, <2>8, <3>1, SemUpdates DEF Semop
      <3>3. QED
        BY <2>8, <3>1, <3>2 DEF Semop, Semaphores
    <2>9. QED
      BY <1>2, <2>1, <2>2, <2>3, <2>4, <2>5, <2>6, <2>7, <2>8 DEF Step
  <1>3. ASSUME NEW p \in Procs, Fault(p) PROVE TypeOK'
    <2>1. sem' \in Semaphores
      BY <1>0, <1>3, SemUpdates DEF Fault, CreateFails, SetvalFails, SemopFails
    <2>2. QED
      BY <1>3, <2>1
         DEF Fault, CreateFails, SetvalFails, SemopFails, Semaphores
  <1>4. ASSUME NEW p \in Procs, NEW t \in Timeouts, Lock(p, t) PROVE TypeOK'
    BY <1>4 DEF Lock
  <1>5. ASSUME NEW p \in Procs, Unlock(p) \/ UnlockNotHeld(p) PROVE TypeOK'
    <2>1. CASE Unlock(p)
      <3>1. sem.val + 1 \in Nat /\ undo[p] = 1
        BY <2>1 DEF Unlock, PlaceInv
      <3>2. sem' \in Semaphores
        BY <1>0, <2>1, <3>1, SemUpdates DEF Unlock
      <3>3. QED
        BY <2>1, <3>1, <3>2 DEF Unlock, Semaphores
    <2>2. CASE UnlockNotHeld(p)
      BY <2>2 DEF UnlockNotHeld
    <2>3. QED
      BY <1>5, <2>1, <2>2
  <1>6. ASSUME NEW p \in Procs, Dies(p) PROVE TypeOK'
    BY <1>6 DEF Dies
  <1>7. QED
    BY <1>1, <1>2, <1>3, <1>4, <1>5, <1>6 DEF Next

(* What a process may know and hold follows its program counter.           *)
LEMMA PlaceStep ==
  TypeOK /\ BirthInv /\ PlaceInv /\ [Next]_vars => PlaceInv'
  <1> SUFFICES ASSUME TypeOK, BirthInv, PlaceInv, [Next]_vars PROVE PlaceInv'
    OBVIOUS
  <1> USE DEF TypeOK, PlaceInv, PCs, NoRet, Goto, Returns, kernelVars,
        LockFails, Initialised
  <1>1. CASE UNCHANGED vars
    BY <1>1 DEF vars
  <1>2. ASSUME NEW p \in Procs, Step(p) PROVE PlaceInv'
    <2>1. CASE Create(p) \/ CreateExists(p)
      BY <2>1 DEF Create, CreateExists
    <2>2. CASE OtimeSet(p)
      BY <2>2 DEF OtimeSet, BirthInv
    <2>3. CASE Setval(p)
      BY <2>3 DEF Setval, BirthInv, Creating
    <2>4. CASE OtimeDown(p)
      BY <2>4 DEF OtimeDown, BirthInv, Creating
    <2>5. CASE Get(p) \/ OtimeUnset(p) \/ OtimeFails(p)
      BY <2>5 DEF Get, OtimeUnset, OtimeFails
    <2>6. CASE Check(p) \/ SemopTimesOut(p)
      BY <2>6 DEF Check, SemopTimesOut
    <2>7. CASE Semop(p)
      BY <2>7 DEF Semop
    <2>8. QED
      BY <1>2, <2>1, <2>2, <2>3, <2>4, <2>5, <2>6, <2>7 DEF Step
  <1>3. ASSUME NEW p \in Procs, Fault(p) PROVE PlaceInv'
    BY <1>3 DEF Fault, CreateFails, SetvalFails, SemopFails
  <1>4. ASSUME NEW p \in Procs, NEW t \in Timeouts, Lock(p, t) PROVE PlaceInv'
    BY <1>4 DEF Lock
  <1>5. ASSUME NEW p \in Procs, Unlock(p) \/ UnlockNotHeld(p) PROVE PlaceInv'
    BY <1>5 DEF Unlock, UnlockNotHeld
  <1>6. ASSUME NEW p \in Procs, Dies(p) PROVE PlaceInv'
    BY <1>6 DEF Dies
  <1>7. QED
    BY <1>1, <1>2, <1>3, <1>4, <1>5, <1>6 DEF Next

(* A semaphore is born by one process and used by the others only then.    *)
LEMMA BirthStep ==
  TypeOK /\ PlaceInv /\ BirthInv /\ [Next]_vars => BirthInv'
  <1> SUFFICES ASSUME TypeOK, PlaceInv, BirthInv, [Next]_vars PROVE BirthInv'
    OBVIOUS
  <1> USE DEF TypeOK, BirthInv, Creating, PCs, NoSem, Goto, Returns,
        kernelVars, LockFails, Initialised
  <1>1. CASE UNCHANGED vars
    BY <1>1 DEF vars
  <1>2. ASSUME NEW p \in Procs, Step(p) PROVE BirthInv'
    <2>1. CASE Create(p)
      BY <2>1 DEF Create
    <2>2. CASE CreateExists(p) \/ OtimeFails(p) \/ OtimeUnset(p)
      BY <2>2 DEF CreateExists, OtimeFails, OtimeUnset
    <2>3. CASE OtimeSet(p)
      BY <2>3 DEF OtimeSet
    <2>4. CASE Setval(p)
      <3>1. /\ sem'.id = sem.id /\ sem.id = sem_id[p] /\ sem.id # 0
            /\ sem'.otime = ~NeedOtimeHack
            /\ \A q \in Procs : lock_sem[q] = 0
            /\ \A q \in Procs : pc[q] \in Creating => q = p
        BY <2>4 DEF Setval
      <3>2. CASE NeedOtimeHack
        <4>1. ~sem'.otime /\ sem'.val = 2 /\ UNCHANGED <<lock_sem, sem_id>>
          BY <2>4, <3>1, <3>2 DEF Setval
        <4>2. Goto(p, "otime_down")
          BY <2>4, <3>2 DEF Setval
        <4>3. QED
          BY <3>1, <4>1, <4>2
      <3>3. CASE ~NeedOtimeHack
        <4>1. sem'.otime
          BY <3>1, <3>3
        <4>2. Initialised(p, sem_id[p])
          BY <2>4, <3>3 DEF Setval
        <4>3. QED
          BY <3>1, <4>1, <4>2
      <3>4. QED
        BY <3>2, <3>3
    <2>5. CASE OtimeDown(p)
      BY <2>5 DEF OtimeDown
    <2>6. CASE Get(p)
      BY <2>6 DEF Get
    <2>7. CASE Check(p) \/ SemopTimesOut(p)
      BY <2>7 DEF Check, SemopTimesOut
    <2>8. CASE Semop(p)
      BY <2>8 DEF Semop, PlaceInv
    <2>9. QED
      BY <1>2, <2>1, <2>2, <2>3, <2>4, <2>5, <2>6, <2>7, <2>8 DEF Step
  <1>3. ASSUME NEW p \in Procs, Fault(p) PROVE BirthInv'
    BY <1>3 DEF Fault, CreateFails, SetvalFails, SemopFails
  <1>4. ASSUME NEW p \in Procs, NEW t \in Timeouts, Lock(p, t) PROVE BirthInv'
    BY <1>4 DEF Lock
  <1>5. ASSUME NEW p \in Procs, Unlock(p) \/ UnlockNotHeld(p) PROVE BirthInv'
    <2>1. CASE Unlock(p)
      <3>1. sem.otime /\ \A q \in Procs : pc[q] \notin Creating
        BY <2>1 DEF Unlock, PlaceInv
      <3>2. /\ sem'.id = sem.id /\ sem'.otime
            /\ UNCHANGED <<lock_sem, sem_id>>
            /\ Goto(p, "out")
        BY <2>1 DEF Unlock
      <3>3. QED
        BY <3>1, <3>2
    <2>2. CASE UnlockNotHeld(p)
      BY <2>2 DEF UnlockNotHeld
    <2>3. QED
      BY <1>5, <2>1, <2>2
  <1>6. ASSUME NEW p \in Procs, Dies(p) PROVE BirthInv'
    BY <1>6 DEF Dies, PlaceInv
  <1>7. QED
    BY <1>1, <1>2, <1>3, <1>4, <1>5, <1>6 DEF Next

(* The unit is neither lost nor doubled, also when a holder dies.          *)
LEMMA UnitStep ==
  TypeOK /\ PlaceInv /\ BirthInv /\ UnitInv /\ [Next]_vars => UnitInv'
  <1> SUFFICES ASSUME TypeOK, PlaceInv, BirthInv, UnitInv, [Next]_vars
               PROVE  UnitInv'
    OBVIOUS
  <1> USE DEF TypeOK, UnitInv, PCs, kernelVars
  <1>1. CASE UNCHANGED vars
    BY <1>1 DEF vars
  <1>2. ASSUME NEW p \in Procs, Step(p) PROVE UnitInv'
    <2>1. CASE Create(p)
      BY <2>1 DEF Create, NoSem
    <2>2. CASE CreateExists(p) \/ OtimeFails(p) \/ OtimeUnset(p)
               \/ OtimeSet(p) \/ Get(p) \/ Check(p) \/ SemopTimesOut(p)
      BY <2>2 DEF CreateExists, OtimeFails, OtimeUnset, OtimeSet, Get, Check,
           SemopTimesOut
    <2>3. CASE Setval(p)
      <3>1. \A q \in Procs : lock_sem[q] = 0
        BY <2>3 DEF Setval, BirthInv, Creating
      <3>2. \A q \in Procs : ~is_held[q]
        BY <3>1 DEF PlaceInv
      <3>3. sem'.val = 1 \/ ~sem'.otime
        BY <2>3 DEF Setval
      <3>4. is_held' = is_held
        BY <2>3 DEF Setval
      <3>5. QED
        BY <3>2, <3>3, <3>4
    <2>4. CASE OtimeDown(p)
      <3>1. \A q \in Procs : lock_sem[q] = 0
        BY <2>4 DEF OtimeDown, BirthInv, Creating
      <3>2. \A q \in Procs : ~is_held[q]
        BY <3>1 DEF PlaceInv
      <3>3. sem'.val = 1 /\ is_held' = is_held
        BY <2>4 DEF OtimeDown, BirthInv
      <3>4. QED
        BY <3>2, <3>3
    <2>5. CASE Semop(p)
      <3>1. sem.otime /\ sem.val > 0
        BY <2>5 DEF Semop, PlaceInv, BirthInv
      <3>2. sem.val = 1 /\ \A q \in Procs : ~is_held[q]
        BY <3>1
      <3>3. sem'.val = 0 /\ is_held'[p]
        BY <2>5, <3>2 DEF Semop
      <3>4. \A q \in Procs \ {p} : ~is_held'[q]
        BY <2>5, <3>2 DEF Semop
      <3>5. QED
        BY <3>3, <3>4
    <2>6. QED
      BY <1>2, <2>1, <2>2, <2>3, <2>4, <2>5 DEF Step
  <1>3. ASSUME NEW p \in Procs, Fault(p) PROVE UnitInv'
    BY <1>3 DEF Fault, CreateFails, SetvalFails, SemopFails, LockFails, NoSem
  <1>4. ASSUME NEW p \in Procs, NEW t \in Timeouts, Lock(p, t) PROVE UnitInv'
    BY <1>4 DEF Lock
  <1>5. ASSUME NEW p \in Procs, Unlock(p) PROVE UnitInv'
    <2>1. is_held[p] /\ sem.otime /\ sem.val = 0
      BY <1>5 DEF Unlock, PlaceInv, BirthInv
    <2>2. sem'.val = 1 /\ \A q \in Procs : ~is_held'[q]
      BY <1>5, <2>1 DEF Unlock
    <2>3. QED
      BY <2>2
  <1>6. ASSUME NEW p \in Procs, UnlockNotHeld(p) PROVE UnitInv'
    BY <1>6 DEF UnlockNotHeld
  <1>7. ASSUME NEW p \in Procs, Dies(p) PROVE UnitInv'
    <2>1. /\ sem'.otime = sem.otime
          /\ sem'.val = sem.val + undo[p]
          /\ is_held' = [is_held EXCEPT ![p] = FALSE]
      BY <1>7 DEF Dies
    <2>2. CASE is_held[p]
      <3>1. \A q \in Procs : ~is_held'[q]
        BY <2>1, <2>2
      <3>2. undo[p] = 1
        BY <2>2 DEF PlaceInv
      <3>3. QED
        BY <2>1, <2>2, <3>1, <3>2
    <2>3. CASE ~is_held[p]
      BY <2>1, <2>3 DEF PlaceInv
    <2>4. QED
      BY <2>2, <2>3
  <1>8. QED
    BY <1>1, <1>2, <1>3, <1>4, <1>5, <1>6, <1>7 DEF Next

LEMMA Invariant == Spec => []SysvInv
  <1>1. Init => SysvInv
    BY SysvLockAssumption DEF Init, SysvInv, TypeOK, PlaceInv, BirthInv,
       UnitInv, Creating, NoSem, NoRet, PCs, RetValues
  <1>2. SysvInv /\ [Next]_vars => SysvInv'
    BY TypeStep, PlaceStep, BirthStep, UnitStep DEF SysvInv
  <1>3. QED
    BY <1>1, <1>2, PTL DEF Spec
-----------------------------------------------------------------------------
(* The variables of the lock on a semaphore keep their types.              *)
THEOREM TypeCorrect == Spec => []TypeOK
  <1>1. SysvInv => TypeOK
    BY DEF SysvInv
  <1>2. QED
    BY <1>1, Invariant, PTL

(* Whoever created the semaphore, whoever destroyed it again and whoever   *)
(* died: two processes never hold the lock together.                       *)
THEOREM Exclusion == Spec => []MutualExclusion
  <1>1. SysvInv => MutualExclusion
    BY DEF SysvInv, UnitInv, MutualExclusion, Holders
  <1>2. QED
    BY <1>1, Invariant, PTL

(* The sem_otime protocol of csem.c: nobody has a semaphore that is not    *)
(* fully initialised.                                                      *)
THEOREM OnlyInitialised == Spec => []UsedOnlyInitialised
  <1>1. SysvInv => UsedOnlyInitialised
    BY DEF SysvInv, BirthInv, UsedOnlyInitialised
  <1>2. QED
    BY <1>1, Invariant, PTL

(* SEM_UNDO gives back exactly what a dead holder took.                    *)
THEOREM UnitKept == Spec => []OneUnit
  <1>1. SysvInv => UnitConserved
    <2> SUFFICES ASSUME SysvInv PROVE UnitConserved
      OBVIOUS
    <2>1. Holders = {} <=> \A p \in Procs : ~is_held[p]
      BY DEF Holders
    <2>2. sem.otime => sem.val = IF Holders = {} THEN 1 ELSE 0
      BY <2>1 DEF SysvInv, UnitInv
    <2>3. QED
      BY <2>2 DEF SysvInv, PlaceInv, UnitConserved
  <1>2. UnitConserved /\ MutualExclusion => OneUnit
    BY DEF OneUnit
  <1>3. QED
    BY <1>1, <1>2, Exclusion, Invariant, PTL
-----------------------------------------------------------------------------
(* One step of ipc_lock.c and csem.c is one step of the abstract lock or   *)
(* none.                                                                   *)
LEMMA Simulation == SysvInv /\ [Next]_vars => [Ipc!Next]_(Ipc!ipcVars)
  <1> SUFFICES ASSUME SysvInv, [Next]_vars
               PROVE  Ipc!Next \/ UNCHANGED Ipc!ipcVars
    OBVIOUS
  <1> TypeOK /\ PlaceInv /\ BirthInv /\ UnitInv
    BY DEF SysvInv
  <1> USE DEF NoRet, Ipc!NoRet, Returns, Goto
  <1>1. CASE UNCHANGED vars
    BY <1>1 DEF vars, Ipc!ipcVars, Holders
  <1>2. ASSUME NEW p \in Procs, LockFails(p), ~is_held[p], is_held' = is_held
        PROVE  Ipc!Next
    <2>1. p \notin Holders /\ Holders' = Holders
      BY <1>2 DEF Holders
    <2>2. QED
      BY <1>2, <2>1 DEF LockFails, Ipc!Refused, Ipc!Next
  <1>3. ASSUME NEW p \in Procs, Step(p) PROVE Ipc!Next \/ UNCHANGED Ipc!ipcVars
    <2>1. CASE Create(p) \/ CreateExists(p) \/ Setval(p) \/ OtimeDown(p)
               \/ OtimeSet(p)
      BY <2>1 DEF Create, CreateExists, Setval, OtimeDown, OtimeSet,
           Initialised, Holders, Ipc!ipcVars
    <2>2. CASE Get(p) \/ OtimeUnset(p)
      <3>1. LockFails(p) \/ ret' = ret
        BY <2>2 DEF Get, OtimeUnset
      <3>2. ~is_held[p] /\ is_held' = is_held
        BY <2>2 DEF Get, OtimeUnset, PlaceInv
      <3>3. QED
        BY <1>2, <3>1, <3>2 DEF Holders, Ipc!ipcVars
    <2>3. CASE OtimeFails(p) \/ SemopTimesOut(p)
      <3>1. LockFails(p) /\ ~is_held[p] /\ is_held' = is_held
        BY <2>3 DEF OtimeFails, SemopTimesOut, PlaceInv
      <3>2. QED
        BY <1>2, <3>1
    <2>4. CASE Check(p)
      <3>1. Holders' = Holders
        BY <2>4 DEF Check, Holders
      <3>2. CASE is_held[p]
        <4>1. p \in Holders
          BY <3>2 DEF Holders
        <4>2. QED
          BY <2>4, <3>1, <3>2, <4>1 DEF Check, Ipc!AlreadyHeld, Ipc!Next
      <3>3. CASE ~is_held[p]
        BY <2>4, <3>1, <3>3 DEF Check, Ipc!ipcVars
      <3>4. QED
        BY <3>2, <3>3
    <2>5. CASE Semop(p)
      <3>1. \A q \in Procs : ~is_held[q]
        BY <2>5 DEF Semop, PlaceInv, BirthInv, UnitInv
      <3>2. is_held' = [is_held EXCEPT ![p] = TRUE]
        BY <2>5 DEF Semop
      <3>3. Holders = {} /\ Holders' = {p}
        BY <3>1, <3>2 DEF Holders, TypeOK
      <3>4. QED
        BY <2>5, <3>3 DEF Semop, Ipc!Granted, Ipc!Next
    <2>6. QED
      BY <1>3, <2>1, <2>2, <2>3, <2>4, <2>5 DEF Step
  <1>4. ASSUME NEW p \in Procs, Fault(p) PROVE Ipc!Next
    <2>1. LockFails(p) /\ ~is_held[p] /\ is_held' = is_held
      BY <1>4 DEF Fault, CreateFails, SetvalFails, SemopFails, PlaceInv
    <2>2. QED
      BY <1>2, <2>1
  <1>5. ASSUME NEW p \in Procs, NEW t \in Timeouts, Lock(p, t) PROVE Ipc!Next
    <2>1. Ipc!Called(p)
      BY <1>5 DEF Lock, Holders, Ipc!Called
    <2>2. QED
      BY <2>1 DEF Ipc!Next
  <1>6. ASSUME NEW p \in Procs, Unlock(p) PROVE Ipc!Next
    <2>1. is_held[p] /\ is_held' = [is_held EXCEPT ![p] = FALSE]
      BY <1>6 DEF Unlock
    <2>2. p \in Holders /\ Holders' = Holders \ {p}
      BY <2>1 DEF Holders, TypeOK
    <2>3. QED
      BY <1>6, <2>2 DEF Unlock, Ipc!GivenUp, Ipc!Next
  <1>7. ASSUME NEW p \in Procs, UnlockNotHeld(p) PROVE Ipc!Next
    <2>1. p \notin Holders /\ Holders' = Holders
      BY <1>7 DEF UnlockNotHeld, Holders
    <2>2. QED
      BY <1>7, <2>1 DEF UnlockNotHeld, Ipc!Refused, Ipc!Next
  <1>8. ASSUME NEW p \in Procs, Dies(p) PROVE Ipc!Next
    <2>1. is_held' = [is_held EXCEPT ![p] = FALSE] /\ Returns(p, NoRet)
      BY <1>8 DEF Dies
    <2>2. Holders' = Holders \ {p}
      BY <2>1 DEF Holders, TypeOK
    <2>3. CASE p \in Holders
      BY <2>1, <2>2, <2>3 DEF Ipc!GivenUp, Ipc!Next
    <2>4. CASE p \notin Holders
      BY <2>1, <2>2, <2>4 DEF Ipc!Called, Ipc!Next
    <2>5. QED
      BY <2>3, <2>4
  <1>9. QED
    BY <1>1, <1>3, <1>4, <1>5, <1>6, <1>7, <1>8 DEF Next

(* ipc_lock.c over csem.c implements the abstract lock.                    *)
THEOREM Implementation == Spec => ImplementsIpcLock
  <1>1. Init => Ipc!Init
    BY DEF Init, Ipc!Init, Holders, NoRet, Ipc!NoRet
  <1>2. QED
    BY <1>1, Simulation, Invariant, PTL DEF Spec, ImplementsIpcLock, Ipc!Spec
=============================================================================
