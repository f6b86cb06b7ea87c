SPECIFICATION FairSpec
CONSTANTS
  Procs = {p1, p2, p3}
  Timeouts <- ForeverOrNot
  NeedOtimeHack = TRUE
  MAX_OTIME_LOOPS = 2
  MaxSems = 2
  EnvFaults = {"probe", "semget", "setval", "semop"}
INVARIANTS UsedOnlyInitialised OneUnit
PROPERTIES WaitersServed ImplementsIpcLock
