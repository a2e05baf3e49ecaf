SPECIFICATION Spec
CONSTANTS
  t1 = t1
  t2 = t2
  plan = plan
  Tasks <- TwoTasks
  Plans <- OnePlan
  PlanOf <- SamePlan
  MaxRuns = 2
  MaxCancels = 1
  MaxCrashes = 1
INVARIANT TaskMatchesRun
INVARIANT NoTaskLeftBehind
INVARIANT OneOpenRunPerPlan
PROPERTY TaskIsOneShot
CHECK_DEADLOCK FALSE
