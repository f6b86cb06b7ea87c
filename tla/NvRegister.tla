----------------------------- MODULE NvRegister -----------------------------
(***************************************************************************)
(* What `mosys nvram vboot read` and `vboot write` promise together: one   *)
(* register shared by all processes.  A write takes effect at one moment   *)
(* during the command, a read returns what the register held at one moment *)
(* during the command.                                                     *)
(***************************************************************************)
CONSTANTS Procs, Blocks, NoBlock

VARIABLES
  value,     \* the register; NoBlock until somebody initialises it
  writing,   \* what each process is about to write, or NoBlock
  seen       \* what each process has read, or NoBlock

regVars == <<value, writing, seen>>

Init ==
  /\ value \in Blocks \cup {NoBlock}
  /\ writing = [p \in Procs |-> NoBlock]
  /\ seen = [p \in Procs |-> NoBlock]

(* A command that writes b gets ready; a register that is not initialised  *)
(* refuses.                                                                *)
StartsWrite(p, b) ==
  /\ value # NoBlock
  /\ writing' = [writing EXCEPT ![p] = b]
  /\ UNCHANGED <<value, seen>>

TakesEffect(p) ==
  /\ writing[p] # NoBlock
  /\ value' = writing[p]
  /\ writing' = [writing EXCEPT ![p] = NoBlock]
  /\ UNCHANGED seen

Observes(p) ==
  /\ seen' = [seen EXCEPT ![p] = value]
  /\ UNCHANGED <<value, writing>>

(* The command is over, or a write is given up before it took effect.      *)
Ends(p) ==
  /\ seen' = [seen EXCEPT ![p] = NoBlock]
  /\ writing' = [writing EXCEPT ![p] = NoBlock]
  /\ UNCHANGED value

Next ==
  \E p \in Procs :
    \/ \E b \in Blocks : StartsWrite(p, b)
    \/ TakesEffect(p) \/ Observes(p) \/ Ends(p)

Spec == Init /\ [][Next]_regVars
=============================================================================
