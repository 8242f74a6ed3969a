\* One run that was answered in time, and the sweep.
SPECIFICATION Spec
CONSTANTS
  Runs = {r1}
  Submits = {u1}
  Sweep = Sweep
  MaxQuestions = 1
  MaxFaults = 0
  None = None
INVARIANTS
  ResumedRunIsLeftAlone
CHECK_DEADLOCK FALSE
