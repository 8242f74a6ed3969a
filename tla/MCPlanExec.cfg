\* Rounds of one or two tasks, with direct replies, questions, tool
\* calls, rejected outputs and one failed transition.
SPECIFICATION FairSpec
CONSTANTS
  Tasks = {t1, t2}
  MaxTasks = 2
  MaxSteps = 10
  NoticeAt = 8
  MaxTaskSteps = 2
  MaxAttempts = 1
  MaxCalls = 2
  MaxRetries = 1
  MaxTrail = 2
  MaxFaults = 1
  None = None
INVARIANTS
  TypeOK
  RequestsWellFormed
  ConclusionsAreInformed
  SpendIsBounded
PROPERTIES
  RunEnds
CHECK_DEADLOCK FALSE
