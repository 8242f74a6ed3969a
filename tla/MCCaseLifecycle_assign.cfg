SPECIFICATION Spec
CONSTANTS
  Calls = {c1, c2}
  Before = Before
  MaxCases = 1
  Users = {u1}
  Keys = {k1}
  MaxFaults = 0
  None = None
INVARIANT
  AssignmentsSurvive
CHECK_DEADLOCK FALSE
