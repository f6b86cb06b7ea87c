CONSTANTS
  Builds <- MCPdBuilds
  Garbage <- MCGarbage
  CommandRcs <- MCCommandRcs
SPECIFICATION Spec
INVARIANTS PdMayBeMissing
CHECK_DEADLOCK FALSE
