\* Two triggers, a form, the sweep and one fault.
SPECIFICATION Spec
CONSTANTS
  Runs = {r1, r2}
  Submits = {u1}
  Sweep = Sweep
  MaxQuestions = 1
  MaxFaults = 1
  None = None
SYMMETRY Symmetry
INVARIANTS
  TypeOK
  RunningLogHasOwner
  SuccessIsTrue
  OpenQuestionKeepsItsSlot
CHECK_DEADLOCK FALSE
