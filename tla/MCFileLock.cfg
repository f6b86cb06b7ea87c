SPECIFICATION FairSpec
CONSTANTS
  Procs = {p1, p2}
  NoProc = NoProc
  Timeouts <- NegativeTimeouts
  SLEEP_INTERVAL_MS = 2
  EnvFaults = {"open", "flock", "pid"}
INVARIANTS OneHolder WaitBounded
PROPERTIES PidWrittenByHolder CallsReturn ImplementsIpcLock
