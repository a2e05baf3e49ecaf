SPECIFICATION Spec
CONSTANTS
  Callers = {c1, c2, c3}
  Workspaces = {w1, w2}
  MaxSpawns = 3
INVARIANT OneDaemon
PROPERTY Answered
CHECK_DEADLOCK FALSE
