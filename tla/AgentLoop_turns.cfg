\* Turns with aborts, commands and a restart between and in the middle of them.
SPECIFICATION FairSpec
CONSTANTS
  Batches <- OneQuestion
  Guarded = {"shell", "secret"}
  Fresh = {"secret"}
  Questions = {"ask"}
  Stateful = {"skill"}
  Pool = 2
  MaxSteps = 2
  MaxTurns = 2
  MaxCrashes = 1
INVARIANTS
  RequestsPaired
  OnePrompt
  RunsAllowed
PROPERTIES
  TurnEnds
\* The user may leave the terminal alone.
CHECK_DEADLOCK FALSE
