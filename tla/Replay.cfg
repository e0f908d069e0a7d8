SPECIFICATION ReplayFairSpec
CONSTANTS
  Points = 2
  Callers = {q1, q2}
  MaxTasks = 3
  None = none
  Scenarios <- ReplayScenarios
INVARIANTS ReplayTypeOK OldParkNeverLast QuietIsParked
PROPERTIES NeverSticks
CHECK_DEADLOCK FALSE
