------------------------------- MODULE DoCmd -------------------------------
(***************************************************************************)
(* do_cmd() of lib/flashrom/flashrom.c: how a mosys process runs `which`   *)
(* and flashrom.  flashrom takes the same lock as mosys (locks.h calls it  *)
(* firmware_utility_lock), so do_cmd() gives the big lock away around the  *)
(* child and takes it back afterwards.  The lock itself is the abstract one*)
(* (IpcLock); FileLock and SysvLock show that the code implements it.      *)
(*                                                                         *)
(* A child whose execv() fails does not exit: it runs on behind the fork,  *)
(* takes the lock and returns to the caller of do_cmd() like its parent.   *)
(*                                                                         *)
(* _get_vpd_value() of lib/misc/sku.c gives the lock away in the same way, *)
(* but does not wait for the end of the tool it runs, the VPD tool.        *)
(***************************************************************************)
EXTENDS Integers

CONSTANTS
  Procs,           \* mosys processes; each has at most one child at a time
  VpdProcs,        \* those of a board that asks for VPD values
  NoAgent,         \* nobody
  Directions,      \* the pipe directions callers ask for
  MaxOutput,       \* bound: units a tool writes to its standard output
  PIPE_CAPACITY,   \* kernel: units a pipe holds before a writer blocks
  CallerRecovers,  \* whether a caller can succeed after a failed do_cmd()
  EnvFaults        \* failing calls: subset of FaultKinds

AllDirections == {"PIPE_IN", "PIPE_OUT", "PIPE_NONE"}
FaultKinds == {"setup", "fork", "execv", "waitpid", "pipe", "lock", "tool"}

ASSUME DoCmdAssumption ==
  /\ VpdProcs \subseteq Procs
  /\ NoAgent \notin Procs \X {"self", "kid", "vpd"}
  /\ Directions \subseteq AllDirections
  /\ MaxOutput \in Nat
  /\ PIPE_CAPACITY \in Nat
  /\ CallerRecovers \in BOOLEAN
  /\ EnvFaults \subseteq FaultKinds

VARIABLES
  holder,      \* who has the big lock: an agent or NoAgent
  is_held,     \* the big lock's is_held in each process
  pc,          \* where each process is in do_cmd(); "caller" is outside
  had_lock,    \* history: is_held when do_cmd() was called
  re_acquire,  \* re_acquire_lock
  direction,   \* direction of the one pipe
  rc,          \* do_cmd()'s result so far
  ret,         \* what the last do_cmd() returned; NoRet if none did
  child,       \* the child of each process: its state
  dup_held,    \* is_held in a child that runs on after a failed execv()
  todo,        \* what the tool still has to write (or read, for PIPE_OUT)
  piped,       \* units in the pipe
  status,      \* exit status of the child
  ran,         \* history: the tool of this call ran to completion
  vpd_tool     \* the VPD tool of each process: "none", "run" or "locked"

vars == <<holder, is_held, pc, had_lock, re_acquire, direction, rc, ret,
          child, dup_held, piped, todo, status, ran, vpd_tool>>
parentVars == <<is_held, had_lock, re_acquire, direction, rc, ret>>
toolVars == <<child, dup_held, todo, piped, status>>
childVars == <<toolVars, ran, vpd_tool>>

NoRet == 9
Self(p) == <<p, "self">>
Kid(p) == <<p, "kid">>
Vpd(p) == <<p, "vpd">>
Agents == Procs \X {"self", "kid", "vpd"}

PCs == {"caller", "release", "fork", "waitpid", "pipe", "acquire",
        "vpd_popen", "vpd_fgets", "vpd_acquire"}
ChildStates == {"none", "fork", "tool", "running", "dup", "dup_main",
                "zombie"}

Init ==
  /\ holder = NoAgent
  /\ is_held = [p \in Procs |-> FALSE]
  /\ pc = [p \in Procs |-> "caller"]
  /\ had_lock = [p \in Procs |-> FALSE]
  /\ re_acquire = [p \in Procs |-> FALSE]
  /\ direction = [p \in Procs |-> "PIPE_NONE"]
  /\ rc = [p \in Procs |-> 0]
  /\ ret = [p \in Procs |-> NoRet]
  /\ child = [p \in Procs |-> "none"]
  /\ dup_held = [p \in Procs |-> FALSE]
  /\ todo = [p \in Procs |-> 0]
  /\ piped = [p \in Procs |-> 0]
  /\ status = [p \in Procs |-> 0]
  /\ ran = [p \in Procs |-> FALSE]
  /\ vpd_tool = [p \in Procs |-> "none"]
-----------------------------------------------------------------------------
Goto(p, l) == pc' = [pc EXCEPT ![p] = l]
ChildIs(p, s) == child' = [child EXCEPT ![p] = s]
Fails(p) == rc' = [rc EXCEPT ![p] = -1]

(* What do_cmd() returned; of a call that failed nothing else is recorded. *)
Returns(p, r) ==
  /\ ret' = [ret EXCEPT ![p] = r]
  /\ had_lock' = [had_lock EXCEPT ![p] = r = 0 /\ @]
  /\ ran' = [ran EXCEPT ![p] = r = 0 /\ @]

(* do_cmd() is over: its local variables are gone.                         *)
LocalsGone(p) ==
  /\ Goto(p, "caller")
  /\ rc' = [rc EXCEPT ![p] = 0]
  /\ re_acquire' = [re_acquire EXCEPT ![p] = FALSE]
  /\ direction' = [direction EXCEPT ![p] = "PIPE_NONE"]

(* waitpid() has taken note of the child's end.                            *)
Reaped(p) ==
  /\ ChildIs(p, "none")
  /\ status' = [status EXCEPT ![p] = 0]
  /\ todo' = [todo EXCEPT ![p] = 0]

(* main() takes and gives back the big lock around a command (-f skips it).*)
MainLocks(p) ==
  /\ pc[p] = "caller" /\ ~is_held[p] /\ holder = NoAgent
  /\ holder' = Self(p)
  /\ is_held' = [is_held EXCEPT ![p] = TRUE]
  /\ Returns(p, NoRet)
  /\ UNCHANGED <<pc, re_acquire, direction, rc, toolVars, vpd_tool>>

MainUnlocks(p) ==
  /\ pc[p] = "caller" /\ is_held[p]
  /\ holder' = NoAgent
  /\ is_held' = [is_held EXCEPT ![p] = FALSE]
  /\ Returns(p, NoRet)
  /\ UNCHANGED <<pc, re_acquire, direction, rc, toolVars, vpd_tool>>

(* do_cmd() opens /dev/null and creates the pipe.                          *)
Begin(p, d) ==
  /\ pc[p] = "caller" /\ child[p] = "none"
  /\ had_lock' = [had_lock EXCEPT ![p] = is_held[p]]
  /\ direction' = [direction EXCEPT ![p] = d]
  /\ rc' = [rc EXCEPT ![p] = 0]
  /\ ret' = [ret EXCEPT ![p] = NoRet]
  /\ ran' = [ran EXCEPT ![p] = FALSE]
  /\ Goto(p, "release")
  /\ UNCHANGED <<holder, is_held, re_acquire, child, dup_held, todo, piped,
                 status, vpd_tool>>

(* One of the two fails: an early return with the lock untouched.          *)
BeginFails(p) ==
  /\ pc[p] = "caller" /\ child[p] = "none"
  /\ "setup" \in EnvFaults
  /\ Returns(p, -1)
  /\ UNCHANGED <<holder, pc, is_held, re_acquire, direction, rc,
                 toolVars, vpd_tool>>

(* Mutant: the lock is kept while the child runs.                          *)
ReleaseLock_Kept(p) ==
  /\ pc[p] = "release"
  /\ re_acquire' = [re_acquire EXCEPT ![p] = FALSE]
  /\ Goto(p, "fork")
  /\ UNCHANGED <<holder, is_held, had_lock, direction, rc, ret, childVars>>

(* Mutant: the lock is given back without noting that it is.               *)
ReleaseLock_StaleHeld(p) ==
  /\ pc[p] = "release"
  /\ re_acquire' = [re_acquire EXCEPT ![p] = is_held[p]]
  /\ holder' = IF is_held[p] THEN NoAgent ELSE holder
  /\ Goto(p, "fork")
  /\ UNCHANGED <<is_held, had_lock, direction, rc, ret, childVars>>

(* mosys_release_big_lock(); a lock that was not held is not taken later.  *)
ReleaseLock(p) ==
  /\ pc[p] = "release"
  /\ re_acquire' = [re_acquire EXCEPT ![p] = is_held[p]]
  /\ holder' = IF is_held[p] THEN NoAgent ELSE holder
  /\ is_held' = [is_held EXCEPT ![p] = FALSE]
  /\ Goto(p, "fork")
  /\ UNCHANGED <<had_lock, direction, rc, ret, childVars>>

(* fork(): the child has its own copy of the (released) lock structure.    *)
Fork(p) ==
  /\ pc[p] = "fork"
  /\ \E n \in 0 .. MaxOutput :
       todo' = [todo EXCEPT ![p] = IF direction[p] = "PIPE_NONE" THEN 0 ELSE n]
  /\ ChildIs(p, "fork")
  /\ Goto(p, "waitpid")
  /\ piped' = [piped EXCEPT ![p] = 0]
  /\ dup_held' = [dup_held EXCEPT ![p] = FALSE]
  /\ UNCHANGED <<holder, parentVars, status, ran, vpd_tool>>

ForkFails(p) ==
  /\ pc[p] = "fork"
  /\ "fork" \in EnvFaults
  /\ Fails(p)
  /\ Goto(p, "acquire")
  /\ UNCHANGED <<holder, is_held, had_lock, re_acquire, direction, ret,
                 childVars>>

(* Mutant: only an abnormal end of the child is an error.                  *)
Waitpid_StatusIgnored(p) ==
  /\ pc[p] = "waitpid"
  /\ child[p] = "zombie"
  /\ rc' = [rc EXCEPT ![p] = IF status[p] \in {0, 1} THEN @ ELSE -1]
  /\ Reaped(p)
  /\ Goto(p, "pipe")
  /\ UNCHANGED <<holder, is_held, had_lock, re_acquire, direction, ret,
                 dup_held, piped, ran, vpd_tool>>

(* waitpid() returns when the child is gone; a status other than 0 or a    *)
(* death by signal is an error.                                            *)
Waitpid(p) ==
  /\ pc[p] = "waitpid"
  /\ child[p] = "zombie"
  /\ rc' = [rc EXCEPT ![p] = IF status[p] = 0 THEN @ ELSE -1]
  /\ Reaped(p)
  /\ Goto(p, "pipe")
  /\ UNCHANGED <<holder, is_held, had_lock, re_acquire, direction, ret,
                 dup_held, piped, ran, vpd_tool>>

(* ECHILD: the child is gone, but nobody kept its status (SIGCHLD was      *)
(* ignored when mosys started).                                            *)
WaitpidFails(p) ==
  /\ pc[p] = "waitpid"
  /\ child[p] = "zombie"
  /\ "waitpid" \in EnvFaults
  /\ Fails(p)
  /\ Reaped(p)
  /\ Goto(p, "pipe")
  /\ UNCHANGED <<holder, is_held, had_lock, re_acquire, direction, ret,
                 dup_held, piped, ran, vpd_tool>>

(* Only now does the parent read what the child wrote; the read may fail.  *)
PipeTransfer(p) ==
  /\ pc[p] = "pipe"
  /\ direction[p] # "PIPE_OUT"
  /\ \/ UNCHANGED rc
     \/ direction[p] = "PIPE_IN" /\ "pipe" \in EnvFaults /\ Fails(p)
  /\ piped' = [piped EXCEPT ![p] = 0]
  /\ Goto(p, "acquire")
  /\ UNCHANGED <<holder, is_held, had_lock, re_acquire, direction, ret,
                 child, dup_held, todo, status, ran, vpd_tool>>

(* Writing to a pipe whose reader is gone: SIGPIPE ends the process.       *)
PipeBroken(p) ==
  /\ pc[p] = "pipe"
  /\ direction[p] = "PIPE_OUT"
  /\ Returns(p, NoRet)
  /\ piped' = [piped EXCEPT ![p] = 0]
  /\ LocalsGone(p)
  /\ UNCHANGED <<holder, is_held, child, dup_held, todo, status, vpd_tool>>

(* Mutant: the lock is not taken back.                                     *)
Acquire_Skipped(p) ==
  /\ pc[p] = "acquire"
  /\ Returns(p, rc[p])
  /\ LocalsGone(p)
  /\ UNCHANGED <<holder, is_held, toolVars, vpd_tool>>

(* mosys_acquire_big_lock(50000) and the return.                           *)
Acquire(p) ==
  /\ pc[p] = "acquire"
  /\ re_acquire[p] => holder = NoAgent
  /\ holder' = IF re_acquire[p] THEN Self(p) ELSE holder
  /\ is_held' = [is_held EXCEPT ![p] = re_acquire[p]]
  /\ Returns(p, rc[p])
  /\ LocalsGone(p)
  /\ UNCHANGED <<toolVars, vpd_tool>>

(* The lock does not come back within the timeout: the caller continues    *)
(* without it, with an error.                                              *)
AcquireFails(p) ==
  /\ pc[p] = "acquire"
  /\ re_acquire[p]
  /\ "lock" \in EnvFaults
  /\ Returns(p, -1)
  /\ LocalsGone(p)
  /\ UNCHANGED <<holder, is_held, toolVars, vpd_tool>>
-----------------------------------------------------------------------------
ExecOk(p) ==
  /\ child[p] = "fork"
  /\ ChildIs(p, "tool")
  /\ UNCHANGED <<holder, pc, parentVars, dup_held, piped, todo, status, ran,
                 vpd_tool>>

ExecFails(p) ==
  /\ child[p] = "fork"
  /\ "execv" \in EnvFaults
  /\ ChildIs(p, "dup")
  /\ UNCHANGED <<holder, pc, parentVars, dup_held, piped, todo, status, ran,
                 vpd_tool>>

(* External: flashrom takes the lock before it touches the chip.           *)
ToolLocks(p) ==
  /\ child[p] = "tool"
  /\ holder = NoAgent
  /\ holder' = Kid(p)
  /\ ChildIs(p, "running")
  /\ UNCHANGED <<pc, parentVars, dup_held, piped, todo, status, ran, vpd_tool>>

(* External: `which` needs no lock.                                        *)
ToolNeedsNoLock(p) ==
  /\ child[p] = "tool"
  /\ ChildIs(p, "running")
  /\ UNCHANGED <<holder, pc, parentVars, dup_held, piped, todo, status, ran,
                 vpd_tool>>

(* External: the tool writes to a pipe that has room, or reads from one    *)
(* that has data.                                                          *)
ToolPipes(p) ==
  /\ child[p] = "running"
  /\ todo[p] > 0
  /\ \/ /\ direction[p] = "PIPE_IN" /\ piped[p] < PIPE_CAPACITY
        /\ piped' = [piped EXCEPT ![p] = @ + 1]
     \/ /\ direction[p] = "PIPE_OUT" /\ piped[p] > 0
        /\ piped' = [piped EXCEPT ![p] = @ - 1]
  /\ todo' = [todo EXCEPT ![p] = @ - 1]
  /\ UNCHANGED <<holder, pc, parentVars, child, dup_held, status, ran,
                 vpd_tool>>

(* External: the tool ends with status 0, or 1 after an error.             *)
ToolExits(p) ==
  /\ child[p] = "running"
  /\ todo[p] = 0
  /\ \E s \in IF "tool" \in EnvFaults THEN {0, 1} ELSE {0} :
       /\ status' = [status EXCEPT ![p] = s]
       /\ ran' = [ran EXCEPT ![p] = (s = 0)]
  /\ holder' = IF holder = Kid(p) THEN NoAgent ELSE holder
  /\ ChildIs(p, "zombie")
  /\ UNCHANGED <<pc, parentVars, dup_held, todo, piped, vpd_tool>>

(* External: the tool is killed; the kernel drops its lock.                *)
ToolKilled(p) ==
  /\ child[p] \in {"fork", "tool", "running"}
  /\ "tool" \in EnvFaults
  /\ status' = [status EXCEPT ![p] = -1]
  /\ holder' = IF holder = Kid(p) THEN NoAgent ELSE holder
  /\ ChildIs(p, "zombie")
  /\ UNCHANGED <<pc, parentVars, dup_held, todo, piped, ran, vpd_tool>>

(* The copy reaches the same re-acquisition and returns -1 to its caller.  *)
DupAcquires(p) ==
  /\ child[p] = "dup"
  /\ re_acquire[p] => holder = NoAgent
  /\ holder' = IF re_acquire[p] THEN Kid(p) ELSE holder
  /\ dup_held' = [dup_held EXCEPT ![p] = re_acquire[p]]
  /\ ChildIs(p, "dup_main")
  /\ UNCHANGED <<pc, parentVars, piped, todo, status, ran, vpd_tool>>

(* The copy does not get the lock either and goes on without it.           *)
DupAcquireFails(p) ==
  /\ child[p] = "dup"
  /\ re_acquire[p]
  /\ "lock" \in EnvFaults
  /\ ChildIs(p, "dup_main")
  /\ UNCHANGED <<holder, pc, parentVars, dup_held, piped, todo, status, ran,
                 vpd_tool>>

(* The copy ends like any mosys process: main() releases the lock and the  *)
(* exit status tells whether the command worked.                           *)
DupExits(p) ==
  /\ child[p] = "dup_main"
  /\ holder' = IF dup_held[p] THEN NoAgent ELSE holder
  /\ dup_held' = [dup_held EXCEPT ![p] = FALSE]
  /\ \E s \in IF CallerRecovers THEN {0, 1} ELSE {1} :
       status' = [status EXCEPT ![p] = s]
  /\ ChildIs(p, "zombie")
  /\ UNCHANGED <<pc, parentVars, todo, piped, ran, vpd_tool>>

-----------------------------------------------------------------------------
(* _get_vpd_value(): the lock is given back; relock is re_acquire here.    *)
(* Bound: the last tool is gone.                                           *)
GetVpdValue(p) ==
  /\ p \in VpdProcs
  /\ pc[p] = "caller" /\ vpd_tool[p] = "none"
  /\ re_acquire' = [re_acquire EXCEPT ![p] = is_held[p]]
  /\ holder' = IF is_held[p] THEN NoAgent ELSE holder
  /\ is_held' = [is_held EXCEPT ![p] = FALSE]
  /\ Returns(p, NoRet)
  /\ Goto(p, "vpd_popen")
  /\ UNCHANGED <<direction, rc, toolVars, vpd_tool>>

Popen(p) ==
  /\ pc[p] = "vpd_popen"
  /\ vpd_tool' = [vpd_tool EXCEPT ![p] = "run"]
  /\ Goto(p, "vpd_fgets")
  /\ UNCHANGED <<holder, parentVars, toolVars, ran>>

PopenFails(p) ==
  /\ pc[p] = "vpd_popen" /\ "fork" \in EnvFaults
  /\ Goto(p, "vpd_acquire")
  /\ UNCHANGED <<holder, parentVars, childVars>>

(* External: the VPD tool may take the lock, to read the flash.            *)
VpdToolLocks(p) ==
  /\ vpd_tool[p] = "run" /\ holder = NoAgent
  /\ vpd_tool' = [vpd_tool EXCEPT ![p] = "locked"]
  /\ holder' = Vpd(p)
  /\ UNCHANGED <<pc, parentVars, toolVars, ran>>

(* _read_close_stripped_line() has its line and closes the pipe; the tool  *)
(* is not waited for.                                                      *)
Fgets(p) ==
  /\ pc[p] = "vpd_fgets" /\ vpd_tool[p] # "none"
  /\ Goto(p, "vpd_acquire")
  /\ UNCHANGED <<holder, parentVars, childVars>>

(* The tool ends, is killed or writes to the closed pipe; a line that still*)
(* waits for it is at its end.                                             *)
VpdToolExits(p) ==
  /\ vpd_tool[p] # "none"
  /\ vpd_tool' = [vpd_tool EXCEPT ![p] = "none"]
  /\ holder' = IF holder = Vpd(p) THEN NoAgent ELSE holder
  /\ IF pc[p] = "vpd_fgets" THEN Goto(p, "vpd_acquire") ELSE UNCHANGED pc
  /\ UNCHANGED <<parentVars, toolVars, ran>>

Relock(p) ==
  /\ pc[p] = "vpd_acquire"
  /\ re_acquire[p] => holder = NoAgent
  /\ holder' = IF re_acquire[p] THEN Self(p) ELSE holder
  /\ is_held' = [is_held EXCEPT ![p] = re_acquire[p]]
  /\ LocalsGone(p)
  /\ UNCHANGED <<had_lock, ret, childVars>>

(* The lock does not come back; the value is returned all the same.        *)
RelockFails(p) ==
  /\ pc[p] = "vpd_acquire"
  /\ re_acquire[p]
  /\ "lock" \in EnvFaults
  /\ LocalsGone(p)
  /\ UNCHANGED <<holder, is_held, had_lock, ret, childVars>>

VpdStep(p) ==
  \/ GetVpdValue(p) \/ Popen(p) \/ PopenFails(p) \/ VpdToolLocks(p)
  \/ Fgets(p) \/ VpdToolExits(p) \/ Relock(p) \/ RelockFails(p)

ParentStep(p) ==
  \/ ReleaseLock(p) \/ Fork(p) \/ ForkFails(p) \/ Waitpid(p)
  \/ WaitpidFails(p) \/ PipeTransfer(p) \/ PipeBroken(p) \/ Acquire(p)
  \/ AcquireFails(p)

ChildStep(p) ==
  \/ ExecOk(p) \/ ExecFails(p)
  \/ ToolLocks(p) \/ ToolNeedsNoLock(p)
  \/ ToolPipes(p) \/ ToolExits(p) \/ ToolKilled(p)
  \/ DupAcquires(p) \/ DupAcquireFails(p) \/ DupExits(p)

CmdStep(p) ==
  \/ MainLocks(p) \/ MainUnlocks(p)
  \/ \E d \in Directions : Begin(p, d)
  \/ BeginFails(p)
  \/ ParentStep(p)
  \/ ChildStep(p)

Next ==
  \E p \in Procs :
    \/ CmdStep(p)
    \/ VpdStep(p)

Spec == Init /\ [][Next]_vars

(* Processes and tools are scheduled; whoever holds the lock finishes its  *)
(* command; a lock that is free again and again is obtained in the end     *)
(* (the polling of file_lock.c lasts 50000 seconds).                       *)
FairSpec ==
  /\ Spec
  /\ \A p \in Procs :
       /\ WF_vars(ReleaseLock(p) \/ Fork(p) \/ Waitpid(p) \/ PipeTransfer(p)
                    \/ PipeBroken(p) \/ Popen(p) \/ Fgets(p))
       /\ SF_vars(Acquire(p) \/ Relock(p))
       /\ SF_vars(MainUnlocks(p))
       /\ WF_vars(ExecOk(p) \/ ToolPipes(p) \/ ToolExits(p) \/ DupExits(p))
       /\ WF_vars(VpdToolExits(p))
       /\ SF_vars(ToolLocks(p) \/ DupAcquires(p))
-----------------------------------------------------------------------------
TypeOK ==
  /\ holder \in Agents \cup {NoAgent}
  /\ is_held \in [Procs -> BOOLEAN]
  /\ pc \in [Procs -> PCs]
  /\ had_lock \in [Procs -> BOOLEAN]
  /\ re_acquire \in [Procs -> BOOLEAN]
  /\ direction \in [Procs -> AllDirections]
  /\ rc \in [Procs -> {0, -1}]
  /\ ret \in [Procs -> {0, -1, NoRet}]
  /\ child \in [Procs -> ChildStates]
  /\ dup_held \in [Procs -> BOOLEAN]
  /\ todo \in [Procs -> 0 .. MaxOutput]
  /\ piped \in [Procs -> 0 .. PIPE_CAPACITY]
  /\ status \in [Procs -> {0, 1, -1}]
  /\ ran \in [Procs -> BOOLEAN]
  /\ vpd_tool \in [Procs -> {"none", "run", "locked"}]

(* A process that believes it has the big lock is its only owner: neither  *)
(* a tool, nor a copy left by a failed execv(), nor a VPD tool that nobody *)
(* waits for, nor another process has it.                                  *)
HeldMeansOwner ==
  \A p \in Procs :
    /\ is_held[p] <=> holder = Self(p)
    /\ dup_held[p] => holder = Kid(p)
    /\ vpd_tool[p] = "locked" <=> holder = Vpd(p)

(* do_cmd() that succeeds leaves the big lock the way it found it, so the  *)
(* caller's critical section continues; a caller run with -f gets no lock. *)
LockRestored ==
  \A p \in Procs :
    pc[p] = "caller" /\ ret[p] = 0 => is_held[p] = had_lock[p]

(* "returns -1 to indicate error, 0 to indicate success": success means    *)
(* that the command was executed and ended with status 0.                  *)
SuccessMeansCommandRan ==
  \A p \in Procs : pc[p] = "caller" /\ ret[p] = 0 => ran[p]

(* do_cmd() and _get_vpd_value() come back: parent, tools and lock never   *)
(* wait for each other in a circle.  PIPE_OUT, which nobody asks for today,*)
(* is the exception: the parent waits for a child that waits for its input,*)
(* and the child keeps the lock from everybody else.                       *)
DoCmdReturns ==
  \A p \in Procs :
    pc[p] # "caller" ~>
      \/ pc[p] = "caller"
      \/ \E q \in Procs : pc[q] = "waitpid" /\ direction[q] = "PIPE_OUT"
=============================================================================
