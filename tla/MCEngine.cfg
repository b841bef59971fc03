CONSTANTS
  r1 = r1
  r2 = r2
  r3 = r3
  Runs = {r1, r2, r3}
  MaxConcurrent = 2
  HostCPUs = 4
  HostMemMB = 3
  VMCPUs = 1
  VMMemMB = 2
  Postgres = FALSE
  Cancellable = {r1}
  MayTimeOut = {r1, r2}
  MayStop = TRUE
  MayCrash = FALSE
  MaxRestarts = 0
  MaxFaults = 0
SPECIFICATION Spec
PROPERTIES EveryRunFinishes StopReturns
CHECK_DEADLOCK FALSE
