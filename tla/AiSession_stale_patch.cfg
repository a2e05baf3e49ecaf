\* A failed repair, a resume, and tests of a worktree the patch was not taken from.
SPECIFICATION Spec
CONSTANTS
  K = 2
  Gates = {"tests"}
  MaxFix = 1
  AutoVerify = TRUE
  AutoResume = FALSE
  HalfCaptures = FALSE
  Operations = {"create", "runTests", "apply", "resume"}
  Overlap = FALSE
  MaxWorkers = 2
  MaxCrashes = 0
PROPERTIES
  AppliedWasVerified
\* A session with no request in progress may stay as it is.
CHECK_DEADLOCK FALSE
