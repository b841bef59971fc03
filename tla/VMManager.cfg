CONSTANTS
  EventCap = 1
  MaxAttempts = 2
  MaxFaults = 1
SPECIFICATION Spec
INVARIANTS StoppedIsDead NoFilesLeft
PROPERTIES AnswerIsOwn StatusForward RunEndsQEMU
CHECK_DEADLOCK FALSE
