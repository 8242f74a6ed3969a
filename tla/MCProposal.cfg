\* Three calls in one thread, or fewer with as many failures: mentions,
\* deliveries of one mention, answers and clicks, over two workspaces.
SPECIFICATION Spec
CONSTANTS
  Calls = {c1, c2, c3}
  Before = before
  Workspaces = {w1, w2}
  MaxEvents = 3
  None = None
SYMMETRY Symmetry
INVARIANTS
  TypeOK
  OneTurnPerThread
  ResultInOwnDraft
  LockHasReason
CHECK_DEADLOCK FALSE
