SPECIFICATION Spec
CONSTANTS
  Procs = {p1}
  NoProc = NoProc
  EnvFaults = {"lock", "clock"}
  Length = 136
  EventSizes = {9, 21, 35, 260}
  InitialLogs <- SomeLogs
  MaxEvents = 6
INVARIANTS InBuffer AddedIsLast LogKept
