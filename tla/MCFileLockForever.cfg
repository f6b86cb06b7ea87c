SPECIFICATION FairSpec
CONSTANTS
  Procs = {p1, p2}
  NoProc = NoProc
  Timeouts <- OnlyForever
  SLEEP_INTERVAL_MS = 2
  EnvFaults = {}
PROPERTY TriesForever
