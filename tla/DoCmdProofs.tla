---------------------------- MODULE DoCmdProofs ----------------------------
(***************************************************************************)
(* DoCmd for any set of processes, any pipe and any set of faults.         *)
(***************************************************************************)
EXTENDS DoCmd, TLAPS

(* Where a process may own the big lock, and when its child may.           *)
OwnerInv ==
  \A p \in Procs :
    /\ is_held[p] <=> holder = Self(p)
    /\ is_held[p] => pc[p] \in {"caller", "release"}
    /\ dup_held[p] => holder = Kid(p) /\ child[p] = "dup_main"
    /\ holder = Kid(p) => child[p] = "running" \/ dup_held[p]
    /\ child[p] # "none" => pc[p] = "waitpid"
    /\ vpd_tool[p] = "locked" <=> holder = Vpd(p)
    /\ pc[p] = "vpd_popen" => vpd_tool[p] = "none"

(* What do_cmd() knows, between its two accesses to the lock, of the state *)
(* in which it found it.                                                   *)
RestoreInv ==
  \A p \in Procs :
    /\ pc[p] = "release" => is_held[p] = had_lock[p]
    /\ pc[p] \in {"fork", "waitpid", "pipe", "acquire"} =>
         re_acquire[p] = had_lock[p]
    /\ pc[p] = "caller" /\ ret[p] = 0 => is_held[p] = had_lock[p]
    /\ pc[p] \in {"vpd_popen", "vpd_fgets", "vpd_acquire"} => ret[p] = NoRet

(* A result of 0 is only on its way when the tool has run.                 *)
RanInv ==
  \A p \in Procs :
    /\ child[p] # "none" => pc[p] = "waitpid"
    /\ child[p] = "zombie" /\ status[p] = 0 => ran[p]
    /\ pc[p] \in {"pipe", "acquire"} /\ rc[p] = 0 => ran[p]
    /\ pc[p] = "caller" /\ ret[p] = 0 => ran[p]
    /\ pc[p] \in {"vpd_popen", "vpd_fgets", "vpd_acquire"} => ret[p] = NoRet
-----------------------------------------------------------------------------
(* Every variable keeps its type under every step.                         *)
LEMMA TypeStep == TypeOK /\ [Next]_vars => TypeOK'
  <1> SUFFICES ASSUME TypeOK, [Next]_vars PROVE TypeOK'
    OBVIOUS
  <1> USE DoCmdAssumption DEF TypeOK, PCs, ChildStates, AllDirections, Agents,
        Self, Kid, Vpd, NoRet, Goto, ChildIs, Fails, Returns, LocalsGone,
        Reaped, parentVars, toolVars, childVars
  <1>1. CASE UNCHANGED vars
    BY <1>1 DEF vars
  <1>2. ASSUME NEW p \in Procs, ParentStep(p) PROVE TypeOK'
    <2>1. CASE ReleaseLock(p)
      BY <2>1 DEF ReleaseLock
    <2>2. CASE Fork(p)
      BY <2>2 DEF Fork
    <2>3. CASE ForkFails(p)
      BY <2>3 DEF ForkFails
    <2>4. CASE Waitpid(p)
      BY <2>4 DEF Waitpid
    <2>5. CASE WaitpidFails(p)
      BY <2>5 DEF WaitpidFails
    <2>6. CASE PipeTransfer(p)
      BY <2>6 DEF PipeTransfer
    <2>7. CASE PipeBroken(p)
      BY <2>7 DEF PipeBroken
    <2>8. CASE Acquire(p)
      BY <2>8 DEF Acquire
    <2>9. CASE AcquireFails(p)
      BY <2>9 DEF AcquireFails
    <2>10. QED
      BY <1>2, <2>1, <2>2, <2>3, <2>4, <2>5, <2>6, <2>7, <2>8, <2>9
         DEF ParentStep
  <1>3. ASSUME NEW p \in Procs, ChildStep(p) PROVE TypeOK'
    <2>1. CASE ExecOk(p) \/ ExecFails(p)
      BY <2>1 DEF ExecOk, ExecFails
    <2>2. CASE ToolLocks(p) \/ ToolNeedsNoLock(p)
      BY <2>2 DEF ToolLocks, ToolNeedsNoLock
    <2>3. CASE ToolPipes(p)
      BY <2>3 DEF ToolPipes
    <2>4. CASE ToolExits(p)
      BY <2>4 DEF ToolExits
    <2>5. CASE ToolKilled(p)
      BY <2>5 DEF ToolKilled
    <2>6. CASE DupAcquires(p)
      BY <2>6 DEF DupAcquires
    <2>7. CASE DupAcquireFails(p)
      BY <2>7 DEF DupAcquireFails
    <2>8. CASE DupExits(p)
      BY <2>8 DEF DupExits
    <2>9. QED
      BY <1>3, <2>1, <2>2, <2>3, <2>4, <2>5, <2>6, <2>7, <2>8 DEF ChildStep
  <1>4. ASSUME NEW p \in Procs, VpdStep(p) PROVE TypeOK'
    <2>1. CASE GetVpdValue(p)
      BY <2>1 DEF GetVpdValue
    <2>2. CASE Popen(p) \/ PopenFails(p) \/ Fgets(p)
      BY <2>2 DEF Popen, PopenFails, Fgets
    <2>3. CASE VpdToolLocks(p)
      BY <2>3 DEF VpdToolLocks
    <2>4. CASE VpdToolExits(p)
      BY <2>4 DEF VpdToolExits
    <2>5. CASE Relock(p)
      BY <2>5 DEF Relock
    <2>6. CASE RelockFails(p)
      BY <2>6 DEF RelockFails
    <2>7. QED
      BY <1>4, <2>1, <2>2, <2>3, <2>4, <2>5, <2>6 DEF VpdStep
  <1>5. ASSUME NEW p \in Procs, MainLocks(p) \/ MainUnlocks(p) \/ BeginFails(p)
        PROVE TypeOK'
    <2>1. CASE MainLocks(p)
      BY <2>1 DEF MainLocks
    <2>2. CASE MainUnlocks(p)
      BY <2>2 DEF MainUnlocks
    <2>3. CASE BeginFails(p)
      BY <2>3 DEF BeginFails
    <2>4. QED
      BY <1>5, <2>1, <2>2, <2>3
  <1>6. ASSUME NEW p \in Procs, NEW d \in Directions, Begin(p, d)
        PROVE TypeOK'
    BY <1>6 DEF Begin
  <1>7. QED
    BY <1>1, <1>2, <1>3, <1>4, <1>5, <1>6 DEF Next, CmdStep

(* The lock tells its possible owners apart.                               *)
DistinctAgents ==
  \A p, q \in Procs :
    /\ Self(p) = Self(q) => p = q
    /\ Kid(p) = Kid(q) => p = q
    /\ Vpd(p) = Vpd(q) => p = q
    /\ Self(p) # Kid(q) /\ Self(p) # Vpd(q) /\ Kid(p) # Vpd(q)
    /\ NoAgent # Self(p) /\ NoAgent # Kid(p) /\ NoAgent # Vpd(p)

LEMMA AgentsDiffer == DistinctAgents
  BY DoCmdAssumption DEF DistinctAgents, Self, Kid, Vpd

(* Ownership of the big lock follows the program counters of a process and *)
(* of its child.                                                           *)
LEMMA OwnerStep == TypeOK /\ OwnerInv /\ [Next]_vars => OwnerInv'
  <1> SUFFICES ASSUME TypeOK, OwnerInv, [Next]_vars PROVE OwnerInv'
    OBVIOUS
  <1> USE DEF TypeOK, OwnerInv, PCs, ChildStates, Goto, ChildIs, LocalsGone,
        Reaped, parentVars, toolVars, childVars
  <1>0. DistinctAgents
    BY AgentsDiffer
  <1> USE DEF DistinctAgents
  <1>1. CASE UNCHANGED vars
    BY <1>1 DEF vars
  <1>2. ASSUME NEW p \in Procs, ParentStep(p) PROVE OwnerInv'
    <2>1. CASE ReleaseLock(p)
      BY <1>0, <2>1 DEF ReleaseLock
    <2>2. CASE Fork(p)
      BY <2>2 DEF Fork
    <2>3. CASE ForkFails(p)
      BY <2>3 DEF ForkFails
    <2>4. CASE Waitpid(p)
      BY <2>4 DEF Waitpid
    <2>5. CASE WaitpidFails(p)
      BY <2>5 DEF WaitpidFails
    <2>6. CASE PipeTransfer(p)
      BY <2>6 DEF PipeTransfer
    <2>7. CASE PipeBroken(p)
      BY <2>7 DEF PipeBroken
    <2>8. CASE Acquire(p)
      BY <1>0, <2>8 DEF Acquire
    <2>9. CASE AcquireFails(p)
      BY <2>9 DEF AcquireFails
    <2>10. QED
      BY <1>2, <2>1, <2>2, <2>3, <2>4, <2>5, <2>6, <2>7, <2>8, <2>9
         DEF ParentStep
  <1>3. ASSUME NEW p \in Procs, ChildStep(p) PROVE OwnerInv'
    <2>1. CASE ExecOk(p) \/ ExecFails(p)
      BY <2>1 DEF ExecOk, ExecFails
    <2>2. CASE ToolLocks(p)
      BY <1>0, <2>2 DEF ToolLocks
    <2>3. CASE ToolNeedsNoLock(p) \/ ToolPipes(p)
      BY <2>3 DEF ToolNeedsNoLock, ToolPipes
    <2>4. CASE ToolExits(p)
      BY <1>0, <2>4 DEF ToolExits
    <2>5. CASE ToolKilled(p)
      BY <1>0, <2>5 DEF ToolKilled
    <2>6. CASE DupAcquires(p)
      BY <1>0, <2>6 DEF DupAcquires
    <2>7. CASE DupAcquireFails(p)
      BY <2>7 DEF DupAcquireFails
    <2>8. CASE DupExits(p)
      BY <1>0, <2>8 DEF DupExits
    <2>9. QED
      BY <1>3, <2>1, <2>2, <2>3, <2>4, <2>5, <2>6, <2>7, <2>8 DEF ChildStep
  <1>4. ASSUME NEW p \in Procs, VpdStep(p) PROVE OwnerInv'
    <2>1. CASE GetVpdValue(p)
      BY <1>0, <2>1 DEF GetVpdValue
    <2>2. CASE Popen(p) \/ PopenFails(p) \/ Fgets(p)
      <3>1. CASE Popen(p)
        <4>1. vpd_tool[p] # "locked" /\ vpd_tool'[p] = "run"
          BY <3>1 DEF Popen
        <4>2. QED
          BY <3>1, <4>1 DEF Popen
      <3>2. CASE PopenFails(p) \/ Fgets(p)
        BY <3>2 DEF PopenFails, Fgets
      <3>3. QED
        BY <2>2, <3>1, <3>2
    <2>3. CASE VpdToolLocks(p)
      BY <1>0, <2>3 DEF VpdToolLocks
    <2>4. CASE VpdToolExits(p)
      BY <1>0, <2>4 DEF VpdToolExits
    <2>5. CASE Relock(p)
      BY <1>0, <2>5 DEF Relock
    <2>6. CASE RelockFails(p)
      BY <2>6 DEF RelockFails
    <2>7. QED
      BY <1>4, <2>1, <2>2, <2>3, <2>4, <2>5, <2>6 DEF VpdStep
  <1>5. ASSUME NEW p \in Procs, MainLocks(p) \/ MainUnlocks(p) \/ BeginFails(p)
        PROVE OwnerInv'
    <2>1. CASE MainLocks(p)
      BY <1>0, <2>1 DEF MainLocks
    <2>2. CASE MainUnlocks(p)
      BY <1>0, <2>2 DEF MainUnlocks
    <2>3. CASE BeginFails(p)
      BY <2>3 DEF BeginFails
    <2>4. QED
      BY <1>5, <2>1, <2>2, <2>3
  <1>6. ASSUME NEW p \in Procs, NEW d \in Directions, Begin(p, d)
        PROVE OwnerInv'
    BY <1>6 DEF Begin
  <1>7. QED
    BY <1>1, <1>2, <1>3, <1>4, <1>5, <1>6 DEF Next, CmdStep

(* What is known of the lock's first state survives every step.            *)
LEMMA RestoreStep == TypeOK /\ RestoreInv /\ [Next]_vars => RestoreInv'
  <1> SUFFICES ASSUME TypeOK, RestoreInv, [Next]_vars PROVE RestoreInv'
    OBVIOUS
  <1> USE DEF TypeOK, RestoreInv, PCs, NoRet, Goto, Fails, Returns,
        LocalsGone, parentVars
  <1>1. CASE UNCHANGED vars
    BY <1>1 DEF vars
  <1>2. ASSUME NEW p \in Procs, ParentStep(p) PROVE RestoreInv'
    <2>1. CASE ReleaseLock(p)
      BY <2>1 DEF ReleaseLock
    <2>2. CASE Fork(p) \/ ForkFails(p) \/ PipeTransfer(p)
      BY <2>2 DEF Fork, ForkFails, PipeTransfer
    <2>3. CASE Waitpid(p) \/ WaitpidFails(p)
      BY <2>3 DEF Waitpid, WaitpidFails
    <2>4. CASE PipeBroken(p)
      BY <2>4 DEF PipeBroken
    <2>5. CASE Acquire(p)
      BY <2>5 DEF Acquire
    <2>6. CASE AcquireFails(p)
      BY <2>6 DEF AcquireFails
    <2>7. QED
      BY <1>2, <2>1, <2>2, <2>3, <2>4, <2>5, <2>6 DEF ParentStep
  <1>3. ASSUME NEW p \in Procs, ChildStep(p) PROVE RestoreInv'
    <2>1. UNCHANGED <<pc, parentVars>>
      BY <1>3 DEF ChildStep, ExecOk, ExecFails, ToolLocks, ToolNeedsNoLock,
           ToolPipes, ToolExits, ToolKilled, DupAcquires, DupAcquireFails,
           DupExits
    <2>2. QED
      BY <2>1
  <1>4. ASSUME NEW p \in Procs, VpdStep(p) PROVE RestoreInv'
    <2>1. CASE GetVpdValue(p)
      BY <2>1 DEF GetVpdValue
    <2>2. CASE Popen(p) \/ PopenFails(p) \/ Fgets(p)
      BY <2>2 DEF Popen, PopenFails, Fgets
    <2>3. CASE VpdToolLocks(p) \/ VpdToolExits(p)
      BY <2>3 DEF VpdToolLocks, VpdToolExits
    <2>4. CASE Relock(p) \/ RelockFails(p)
      BY <2>4 DEF Relock, RelockFails
    <2>5. QED
      BY <1>4, <2>1, <2>2, <2>3, <2>4 DEF VpdStep
  <1>5. ASSUME NEW p \in Procs, MainLocks(p) \/ MainUnlocks(p) \/ BeginFails(p)
        PROVE RestoreInv'
    BY <1>5 DEF MainLocks, MainUnlocks, BeginFails
  <1>6. ASSUME NEW p \in Procs, NEW d \in Directions, Begin(p, d)
        PROVE RestoreInv'
    BY <1>6 DEF Begin
  <1>7. QED
    BY <1>1, <1>2, <1>3, <1>4, <1>5, <1>6 DEF Next, CmdStep

(* A result of 0 has its cause, if a copy left by execv() cannot succeed.  *)
LEMMA RanStep ==
  ASSUME ~CallerRecovers, TypeOK, RanInv, [Next]_vars
  PROVE  RanInv'
  <1> USE DEF TypeOK, RanInv, PCs, ChildStates, NoRet, Goto, ChildIs, Fails,
        Returns, LocalsGone, Reaped, parentVars, toolVars, childVars
  <1>1. CASE UNCHANGED vars
    BY <1>1 DEF vars
  <1>2. ASSUME NEW p \in Procs, ParentStep(p) PROVE RanInv'
    <2>1. CASE ReleaseLock(p) \/ ForkFails(p) \/ Fork(p)
      BY <2>1 DEF ReleaseLock, ForkFails, Fork
    <2>2. CASE Waitpid(p)
      BY <2>2 DEF Waitpid
    <2>3. CASE WaitpidFails(p)
      BY <2>3 DEF WaitpidFails
    <2>4. CASE PipeTransfer(p)
      BY <2>4 DEF PipeTransfer
    <2>5. CASE PipeBroken(p)
      BY <2>5 DEF PipeBroken
    <2>6. CASE Acquire(p)
      BY <2>6 DEF Acquire
    <2>7. CASE AcquireFails(p)
      BY <2>7 DEF AcquireFails
    <2>8. QED
      BY <1>2, <2>1, <2>2, <2>3, <2>4, <2>5, <2>6, <2>7 DEF ParentStep
  <1>3. ASSUME NEW p \in Procs, ChildStep(p) PROVE RanInv'
    <2>1. CASE ExecOk(p) \/ ExecFails(p)
      BY <2>1 DEF ExecOk, ExecFails
    <2>2. CASE ToolLocks(p) \/ ToolNeedsNoLock(p) \/ ToolPipes(p)
      BY <2>2 DEF ToolLocks, ToolNeedsNoLock, ToolPipes
    <2>3. CASE ToolExits(p)
      <3>1. PICK s \in {0, 1} : /\ status' = [status EXCEPT ![p] = s]
                                /\ ran' = [ran EXCEPT ![p] = (s = 0)]
        BY <2>3 DEF ToolExits
      <3>2. status'[p] = s
        BY <3>1
      <3>3. status'[p] = 0 => ran'[p]
        <4>1. ran'[p] = (s = 0)
          BY <3>1
        <4>2. QED
          BY <3>2, <4>1
      <3>4. /\ child[p] = "running" /\ pc[p] = "waitpid"
            /\ UNCHANGED <<pc, parentVars>>
            /\ child'[p] = "zombie"
            /\ \A q \in Procs \ {p} : /\ child'[q] = child[q]
                                     /\ status'[q] = status[q]
                                     /\ ran'[q] = ran[q]
        BY <2>3, <3>1 DEF ToolExits
      <3>5. QED
        BY <3>3, <3>4
    <2>4. CASE ToolKilled(p)
      BY <2>4 DEF ToolKilled
    <2>5. CASE DupAcquires(p) \/ DupAcquireFails(p)
      BY <2>5 DEF DupAcquires, DupAcquireFails
    <2>6. CASE DupExits(p)
      BY <2>6 DEF DupExits
    <2>7. QED
      BY <1>3, <2>1, <2>2, <2>3, <2>4, <2>5, <2>6 DEF ChildStep
  <1>4. ASSUME NEW p \in Procs, VpdStep(p) PROVE RanInv'
    <2>1. CASE GetVpdValue(p)
      BY <2>1 DEF GetVpdValue
    <2>2. CASE Popen(p) \/ PopenFails(p) \/ Fgets(p)
      BY <2>2 DEF Popen, PopenFails, Fgets
    <2>3. CASE VpdToolLocks(p)
      BY <2>3 DEF VpdToolLocks
    <2>4. CASE VpdToolExits(p)
      BY <2>4 DEF VpdToolExits
    <2>5. CASE Relock(p) \/ RelockFails(p)
      BY <2>5 DEF Relock, RelockFails
    <2>6. QED
      BY <1>4, <2>1, <2>2, <2>3, <2>4, <2>5 DEF VpdStep
  <1>5. ASSUME NEW p \in Procs, MainLocks(p) \/ MainUnlocks(p) \/ BeginFails(p)
        PROVE RanInv'
    BY <1>5 DEF MainLocks, MainUnlocks, BeginFails
  <1>6. ASSUME NEW p \in Procs, NEW d \in Directions, Begin(p, d)
        PROVE RanInv'
    BY <1>6 DEF Begin
  <1>7. QED
    BY <1>1, <1>2, <1>3, <1>4, <1>5, <1>6 DEF Next, CmdStep

(* Everything holds when no process has called anything yet.               *)
LEMMA InitInv == Init => TypeOK /\ OwnerInv /\ RestoreInv /\ RanInv
  <1> SUFFICES ASSUME Init PROVE TypeOK /\ OwnerInv /\ RestoreInv /\ RanInv
    OBVIOUS
  <1>1. TypeOK
    BY DoCmdAssumption DEF Init, TypeOK, PCs, ChildStates, AllDirections, NoRet
  <1>2. OwnerInv
    BY AgentsDiffer DEF Init, OwnerInv, DistinctAgents
  <1>3. RestoreInv /\ RanInv
    BY DEF Init, RestoreInv, RanInv, NoRet
  <1>4. QED
    BY <1>1, <1>2, <1>3
-----------------------------------------------------------------------------
(* do_cmd() keeps its results and its bookkeeping within their types.      *)
THEOREM TypeCorrect == Spec => []TypeOK
  <1>1. Init => TypeOK
    BY InitInv
  <1>2. QED
    BY <1>1, TypeStep, PTL DEF Spec

(* However processes, tools, copies left by a failed execv() and VPD tools *)
(* interleave and fail: who believes to have the big lock has it.          *)
THEOREM Ownership == Spec => []HeldMeansOwner
  <1>1. Init => TypeOK /\ OwnerInv
    BY InitInv
  <1>2. TypeOK /\ OwnerInv /\ [Next]_vars => (TypeOK /\ OwnerInv)'
    BY TypeStep, OwnerStep
  <1>3. OwnerInv => HeldMeansOwner
    BY DEF OwnerInv, HeldMeansOwner
  <1>4. QED
    BY <1>1, <1>2, <1>3, PTL DEF Spec

(* do_cmd() that succeeds leaves the big lock the way it found it.         *)
THEOREM Restores == Spec => []LockRestored
  <1>1. Init => TypeOK /\ RestoreInv
    BY InitInv
  <1>2. TypeOK /\ RestoreInv /\ [Next]_vars => (TypeOK /\ RestoreInv)'
    BY TypeStep, RestoreStep
  <1>3. RestoreInv => LockRestored
    BY DEF RestoreInv, LockRestored
  <1>4. QED
    BY <1>1, <1>2, <1>3, PTL DEF Spec

(* Unless the copy that a failed execv() leaves behind can succeed,        *)
(* do_cmd()'s success means that the command ran and ended with status 0.  *)
THEOREM SuccessHonest ==
  ASSUME ~CallerRecovers
  PROVE  Spec => []SuccessMeansCommandRan
  <1>1. Init => TypeOK /\ RanInv
    BY InitInv
  <1>2. TypeOK /\ RanInv /\ [Next]_vars => (TypeOK /\ RanInv)'
    BY TypeStep, RanStep
  <1>3. RanInv => SuccessMeansCommandRan
    BY DEF RanInv, SuccessMeansCommandRan
  <1>4. QED
    BY <1>1, <1>2, <1>3, PTL DEF Spec
=============================================================================
