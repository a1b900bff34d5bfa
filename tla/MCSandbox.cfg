SPECIFICATION Spec
CONSTANTS
  MaxPolls = 1
  MaxStarts = 2
  MaxFaults = 2
  MaxInterrupts = 1
INVARIANTS
  AgentIsBehindTheGuard
  WitnessesOutliveTheAgent
  NothingIsLeftUnsaid
PROPERTIES
  ForeignIsUntouched
  HandedOutAlive
  EveryCallReturns
\* A caller need not call start again.
CHECK_DEADLOCK FALSE
