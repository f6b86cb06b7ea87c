SPECIFICATION FairSpec
CONSTANTS
  Procs = {p1, p2}
  NoProc = NoProc
  Protocols = {0, 1, 3}
  MaxRequests = 2
  EnvFaults = {"lock", "memmap", "io", "ec", "slow", "death"}
INVARIANTS NotMixedUp LockReleased
PROPERTY CommandReturns
CHECK_DEADLOCK FALSE
