\* The instance of MCProposal.cfg, for the properties it leaves out.
SPECIFICATION Spec
CONSTANTS
  Calls = {c1, c2, c3}
  Before = before
  Workspaces = {w1, w2}
  MaxEvents = 3
  None = None
SYMMETRY Symmetry
INVARIANTS
  RefusedIsNotTheThreads
  ContentFits
CHECK_DEADLOCK FALSE
