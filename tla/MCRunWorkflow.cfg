CONSTANTS
  Steps = {a, b, c}
  TestRuns <- AnyTest
  RetryMax = 1
  StoreMayFail = TRUE
  MayExpire = TRUE
SPECIFICATION Spec
INVARIANTS GoroutinePerRunningStep SkippedExactly PassedHasNoFailure
PROPERTIES ImplementsWorkflow RunEnds
CHECK_DEADLOCK FALSE
