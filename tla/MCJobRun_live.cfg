\* One run asks once, two forms are submitted, one fault.
SPECIFICATION FairSpec
CONSTANTS
  Runs = {r1}
  Submits = {u1, u2}
  Sweep = Sweep
  MaxQuestions = 1
  MaxFaults = 1
  None = None
INVARIANTS
  LateSubmitIsHarmless
PROPERTIES
  SlotComesFree
CHECK_DEADLOCK FALSE
