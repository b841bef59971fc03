CONSTANTS
  Commands = {c1, c2}
  Capacity = 1
  MaxBoots = 2
  MayRemote = TRUE
  MayFail = TRUE
SPECIFICATION Spec
INVARIANTS ExecutedAtMostOnce AnswerFollowsExecution DeliveryNeverBlocks CommandNotLost PanicOnlyAfterAbort
PROPERTIES GoroutinesEnd
CHECK_DEADLOCK FALSE
