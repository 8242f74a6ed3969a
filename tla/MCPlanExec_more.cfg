\* The instance of MCPlanExec.cfg, for the properties it leaves out.
SPECIFICATION FairSpec
CONSTANTS
  Tasks = {t1, t2}
  MaxTasks = 2
  MaxSteps = 10
  NoticeAt = 8
  MaxTaskSteps = 2
  MaxAttempts = 1
  MaxCalls = 2
  MaxRetries = 1
  MaxTrail = 2
  MaxFaults = 1
  None = None
PROPERTIES
  AwaitsAreFresh
CHECK_DEADLOCK FALSE
