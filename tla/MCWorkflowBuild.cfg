CONSTANTS
  Steps = {a, b, c, d}
  Missing = x
SPECIFICATION BuildSpec
INVARIANTS RejectsExactlyBadGraphs
PROPERTIES Terminates
CHECK_DEADLOCK FALSE
