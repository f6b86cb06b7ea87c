SPECIFICATION Spec
CONSTANTS
  Procs = {p1, p2}
  NoProc = NoProc
  EnvFaults = {}
  Length = 64
  EventSizes = {13}
  InitialLogs <- ShortLogs
  MaxEvents = 4
INVARIANT AddedIsLast
