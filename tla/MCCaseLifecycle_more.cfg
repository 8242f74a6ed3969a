\* The instance of MCCaseLifecycle.cfg, for the properties it leaves out.
SPECIFICATION Spec
CONSTANTS
  Calls = {c1, c2, c3}
  Before = Before
  MaxCases = 2
  Users = {u1}
  Keys = {k1}
  MaxFaults = 2
  None = None
SYMMETRY Symmetry
INVARIANTS
  ClosedOncePerClosing
PROPERTIES
  LegalMoves
CHECK_DEADLOCK FALSE
