\* Two clicks on the buttons of one preview.
SPECIFICATION Spec
CONSTANTS
  Calls = {c1, c2}
  Before = before
  Workspaces = {w1}
  MaxEvents = 2
  None = None
SYMMETRY Symmetry
INVARIANT
  OneCasePerDraft
CHECK_DEADLOCK FALSE
