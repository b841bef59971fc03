SPECIFICATION Spec
CONSTANTS
  Nodes = {"self", "worker"}
  Self = "self"
  TTL = 2
  MaxTime = 4
  Runs = {"r1", "r2"}
  MaxOutages = 1
INVARIANTS BackendsOutliveTheirUsers ReadyMeansServing NodeStatusIsTimely
PROPERTIES ExitsInOrder ShutdownCompletes
CHECK_DEADLOCK FALSE
