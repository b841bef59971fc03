CONSTANTS
  Devices = {"gpgpu", "accel"}
  MaxRuns = 2
  MaxVMs = 1
  MaxResults = 2
  MaxClock = 7
SPECIFICATION Spec
INVARIANTS BackendsAgree ListsMatchGets PagesAgree
CHECK_DEADLOCK FALSE
