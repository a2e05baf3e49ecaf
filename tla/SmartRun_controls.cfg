SPECIFICATION Spec
CONSTANTS
  N = 3
  Deps <- Independent
  Retries <- NoRetry
  MaxParallel = 2
  StoreFaults = {"begin", "artifact", "link"}
  Controls = {"pause", "resume", "cancel", "shutdown"}
  MaxControls = 2
  MaxCrashes = 0
INVARIANTS WorkersMatchNodes AbortPropagation HistoryReadable QueuedRunIsLaunched
CHECK_DEADLOCK FALSE
