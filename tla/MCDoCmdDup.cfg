SPECIFICATION Spec
CONSTANTS
  Procs = {p1}
  VpdProcs = {p1}
  NoAgent = NoAgent
  Directions = {"PIPE_NONE"}
  MaxOutput = 0
  PIPE_CAPACITY = 1
  CallerRecovers = TRUE
  EnvFaults = {"execv"}
INVARIANT SuccessMeansCommandRan
