\* Autonomous verification and repair, with one crash; every call is fair.
SPECIFICATION FairSpec
CONSTANTS
  K = 1
  Gates = {"tests", "reproduction"}
  MaxFix = 1
  AutoVerify = TRUE
  AutoResume = FALSE
  HalfCaptures = TRUE
  Operations = {"create", "continue", "runTests", "reproduce", "cancelTests", "checkpoint", "restoreCheckpoint", "resume", "line"}
  Overlap = FALSE
  MaxWorkers = 2
  MaxCrashes = 1
INVARIANTS
  RepairBudget
PROPERTIES
  Settles
\* A session with no request in progress may stay as it is.
CHECK_DEADLOCK FALSE
