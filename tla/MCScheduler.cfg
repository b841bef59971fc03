CONSTANTS
  r1 = r1
  r2 = r2
  r3 = r3
  Runs <- MCRuns
  MaxConcurrent = 2
SPECIFICATION Spec
INVARIANTS NoLostWakeup
PROPERTIES EveryRunDispatched ImplementsRunQueue
CHECK_DEADLOCK FALSE
