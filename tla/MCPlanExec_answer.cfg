\* A question whose answer arrives when the budget is nearly gone.
SPECIFICATION Spec
CONSTANTS
  Tasks = {t1}
  MaxTasks = 1
  MaxSteps = 8
  NoticeAt = 5
  MaxTaskSteps = 1
  MaxAttempts = 0
  MaxCalls = 1
  MaxRetries = 0
  MaxTrail = 1
  MaxFaults = 0
  None = None
INVARIANT
  AnswersAreHeard
CHECK_DEADLOCK FALSE
