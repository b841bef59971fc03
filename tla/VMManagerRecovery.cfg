CONSTANTS
  EventCap = 1
  MaxAttempts = 2
  MaxFaults = 0
SPECIFICATION Spec
INVARIANT OrphansAreKilled
CHECK_DEADLOCK FALSE
