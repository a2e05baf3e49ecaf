SPECIFICATION Spec
CONSTANTS
  Files = {"f1", "e1", "f2"}
  Order <- BlankBetween
  Blank = {"e1"}
  NoFile = "none"
  Calls = {c1, c2}
  MaxBytes = 6
  Embeddings = TRUE
  MaxEdits = 2
  MaxRequests = 1
  MaxFailures = 1
  MaxRestarts = 1
INVARIANTS
  SavedIsIndexed
  ReuseIsSound
CHECK_DEADLOCK FALSE
