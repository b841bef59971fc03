CONSTANTS
  Steps = {a, b}
  TestRuns <- AnyTest
  RetryMax = 1
  StoreMayFail = FALSE
  MayExpire = FALSE
SPECIFICATION Spec
INVARIANT PassedMeansAllPassed
CHECK_DEADLOCK FALSE
