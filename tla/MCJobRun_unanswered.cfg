\* A run that asks and gets no answer, the sweep, no fault.
SPECIFICATION FairSpec
CONSTANTS
  Runs = {r1}
  Submits = {}
  Sweep = Sweep
  MaxQuestions = 1
  MaxFaults = 0
  None = None
PROPERTIES
  QuestionNeverBlocksJob
CHECK_DEADLOCK FALSE
