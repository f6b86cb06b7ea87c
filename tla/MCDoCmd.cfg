SPECIFICATION FairSpec
CONSTANTS
  Procs = {p1, p2}
  VpdProcs = {p1}
  NoAgent = NoAgent
  Directions = {"PIPE_IN", "PIPE_OUT"}
  MaxOutput = 1
  PIPE_CAPACITY = 1
  CallerRecovers = FALSE
  EnvFaults = {"setup", "fork", "execv", "waitpid", "pipe", "lock", "tool"}
INVARIANTS HeldMeansOwner LockRestored SuccessMeansCommandRan
PROPERTY DoCmdReturns
