\* The instance of MCAgentProc.cfg, for the properties it leaves out.
SPECIFICATION Spec
CONSTANTS
  Procs = {p1, p2}
  Keys = {k1}
  Subjects = {s1}
  Actors = {a1, a2}
  AwaitKeys = {q1}
  EventIDs = {e1, e2}
  None = None
  MaxUncleanReclaims = 0
  MaxRev = 3
  MaxFaults = 1
SYMMETRY Symmetry
INVARIANTS
  KeyGuardExact
  RunsBounded
  NobodyWaitsForNothing
  EventsNumbered
  ViewsAgree
CHECK_DEADLOCK FALSE
