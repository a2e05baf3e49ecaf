\* Review by hand: apply, revert, stop and shut down, with one crash.
SPECIFICATION Spec
CONSTANTS
  K = 2
  Gates = {"tests"}
  MaxFix = 0
  AutoVerify = FALSE
  AutoResume = TRUE
  HalfCaptures = FALSE
  Operations = {"create", "continue", "runTests", "apply", "reject", "revert", "resume", "cancel", "pause", "dispose", "cancelTests"}
  Overlap = FALSE
  MaxWorkers = 2
  MaxCrashes = 1
INVARIANTS
  OneWorker
  ReviewIntact
  AppliedOnDisk
PROPERTIES
  AppliedWasVerified
\* A session with no request in progress may stay as it is.
CHECK_DEADLOCK FALSE
