SPECIFICATION Spec
CONSTANTS
  r1 = r1
  r2 = r2
  Runs = {r1, r2}
  T = 2
  I = 2
  DependsOn <- NoDependencies
  Retries <- NoRetry
  Fits <- Anywhere
  Capacity <- OneSlot
  MaxParallel = 2
  MaxWorkers = 2
  Cpu <- OneAndTwoCpu
  MaxCpu = 2
  DockerFaults = FALSE
  Cancels = {r1}
  Heartbeats = TRUE
  MaxCrashes = 0
INVARIANTS BooksExact EndedRunSettled
CHECK_DEADLOCK FALSE
