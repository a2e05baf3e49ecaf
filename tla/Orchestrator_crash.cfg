SPECIFICATION FairSpec
CONSTANTS
  r1 = r1
  Runs = {r1}
  T = 5
  I = 1
  DependsOn <- JoinAndCycle
  Retries <- FirstTwice
  Fits <- Anywhere
  Capacity <- TwoSlots
  MaxParallel = 2
  MaxWorkers = 32
  Cpu <- OneCpu
  MaxCpu = 64
  DockerFaults = TRUE
  Cancels = {r1}
  Heartbeats = FALSE
  MaxCrashes = 1
INVARIANTS DependencyOrder LaunchBudget ContainerHasTask
PROPERTIES SuccessIsFinal RunEnds
CHECK_DEADLOCK FALSE
