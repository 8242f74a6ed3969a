\* Three rounds, of which the trail holds one.
SPECIFICATION Spec
CONSTANTS
  Tasks = {t1}
  MaxTasks = 1
  MaxSteps = 14
  NoticeAt = 13
  MaxTaskSteps = 1
  MaxAttempts = 0
  MaxCalls = 1
  MaxRetries = 0
  MaxTrail = 1
  MaxFaults = 0
  None = None
INVARIANT
  DroppedRoundsAreNoted
CHECK_DEADLOCK FALSE
