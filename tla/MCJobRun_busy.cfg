\* Three triggers without a fault: can one find the subject taken after it
\* checked?
SPECIFICATION Spec
CONSTANTS
  Runs = {r1, r2, r3}
  Submits = {}
  Sweep = Sweep
  MaxQuestions = 0
  MaxFaults = 0
  None = None
SYMMETRY Symmetry
INVARIANTS
  BusyNeverReachesSpawn
CHECK_DEADLOCK FALSE
