SPECIFICATION Spec
CONSTANTS
  Root = 1
  MaxPath = 3
  MaxEdits = 1
  Devices = {"qemu", "fpga", "unknown"}
  MaxFaults = 1
INVARIANTS SplitPathIsExact NearestSuiteWins VMEventsPair AuditIsTruthful
CHECK_DEADLOCK FALSE
