SPECIFICATION Spec
CONSTANTS
  Procs = {p1, p2}
  NoProc = NoProc
  EnvFaults = {"lock", "read", "write"}
  Blocks = {a, b}
  Blank = ff
  NumBlocks = 2
SYMMETRY Symmetry
INVARIANTS WrittenIsRead NeverRefused
PROPERTIES RegionUsable ImplementsRegister
