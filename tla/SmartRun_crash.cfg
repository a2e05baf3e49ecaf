SPECIFICATION FairSpec
CONSTANTS
  N = 3
  Deps <- Join
  Retries <- FirstRetried
  MaxParallel = 2
  StoreFaults = {"begin", "artifact"}
  Controls = {"pause", "resume", "cancel"}
  MaxControls = 1
  MaxCrashes = 1
INVARIANTS BoundedAttempts DependencySafety ArtifactDurable CancelAckedDurable
PROPERTIES NoStartAfterCancel DurableOutcomeFinal RunTerminates
CHECK_DEADLOCK FALSE
