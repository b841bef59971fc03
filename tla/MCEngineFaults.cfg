CONSTANTS
  r1 = r1
  r2 = r2
  r3 = r3
  Runs = {r1, r2}
  MaxConcurrent = 2
  HostCPUs = 4
  HostMemMB = 3
  VMCPUs = 1
  VMMemMB = 2
  Postgres = TRUE
  Cancellable = {r1, r2}
  MayTimeOut = {r1}
  MayStop = TRUE
  MayCrash = TRUE
  MaxRestarts = 2
  MaxFaults = 1
SPECIFICATION Spec
INVARIANTS HostNotOversubscribed SingleOwner InterruptedRunsRequeued OrphanedOnlyByDeadline
PROPERTIES VerdictFinal
CHECK_DEADLOCK FALSE
