CONSTANTS
  Builds <- MCBuilds
  Garbage <- MCGarbage
  CommandRcs <- MCCommandRcs
SPECIFICATION Spec
INVARIANTS ReadyForCommand SignalNeedsMissingDevice StatusTells TornDown
PROPERTIES DevicesUnderLock Ends
\* A process that has exited takes no more steps.
CHECK_DEADLOCK FALSE
