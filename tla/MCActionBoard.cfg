\* Calls come to an end: a state without a step is no deadlock.
CONSTANTS
  Calls = {c1, c2, c3}
  MaxActions = 1
  MaxEntries = 2
  MaxFaults = 1
  MaxLosses = 1
  None = None
SPECIFICATION Spec
SYMMETRY Symmetry
INVARIANTS
  TypeOK
  FeedBalances
  LinesStay
  NextStartsAfresh
CHECK_DEADLOCK FALSE
