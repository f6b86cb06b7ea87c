------------------------------ MODULE IpcLock ------------------------------
(***************************************************************************)
(* What mosys_lock() and mosys_unlock() promise, as the comments above     *)
(* them in core/file_lock.c and core/ipc_lock.c state it, whichever of the *)
(* two implementations is built in.  A process asks for the lock; the call *)
(* ends by granting it (0), by noticing that the caller has it already     *)
(* (1) or by refusing it (-1).  At any time at most one process is between *)
(* a granting call and the call that gives the lock back.                  *)
(***************************************************************************)
EXTENDS Integers

CONSTANT Procs       \* the mosys processes of the machine

VARIABLES
  holders,           \* the processes inside the section the lock guards
  ret                \* what the last call of each process returned

ipcVars == <<holders, ret>>

(* Returned values; NoRet while a call is in progress or none was made.    *)
NoRet == 9
RetValues == {0, 1, -1, NoRet}

Init ==
  /\ holders = {}
  /\ ret = [p \in Procs |-> NoRet]

(* A call starts, or the process is replaced by a fresh one.               *)
Called(p) ==
  /\ ret' = [ret EXCEPT ![p] = NoRet]
  /\ UNCHANGED holders

Granted(p) ==
  /\ holders = {}
  /\ holders' = {p}
  /\ ret' = [ret EXCEPT ![p] = 0]

AlreadyHeld(p) ==
  /\ p \in holders
  /\ ret' = [ret EXCEPT ![p] = 1]
  /\ UNCHANGED holders

Refused(p) ==
  /\ p \notin holders
  /\ ret' = [ret EXCEPT ![p] = -1]
  /\ UNCHANGED holders

(* The lock is given up, by the process or by its death; an unlocking call *)
(* returns at once or later.                                               *)
GivenUp(p) ==
  /\ p \in holders
  /\ holders' = holders \ {p}
  /\ \E r \in {0, NoRet} : ret' = [ret EXCEPT ![p] = r]

Released(p) ==
  /\ p \notin holders
  /\ ret[p] = NoRet
  /\ ret' = [ret EXCEPT ![p] = 0]
  /\ UNCHANGED holders

Next ==
  \E p \in Procs :
    \/ Called(p) \/ Granted(p) \/ AlreadyHeld(p)
    \/ Refused(p) \/ GivenUp(p) \/ Released(p)

Spec == Init /\ [][Next]_ipcVars
=============================================================================
