\* Two instances race over two processes of one subject and one key and append
\* two events, with one fault: the claims, fences, guards, answers and the
\* numbering of the timeline.
SPECIFICATION Spec
CONSTANTS
  Procs = {p1, p2}
  Keys = {k1}
  Subjects = {s1}
  Actors = {a1, a2}
  AwaitKeys = {q1}
  EventIDs = {e1, e2}
  None = None
  MaxUncleanReclaims = 0
  MaxRev = 3
  MaxFaults = 1
SYMMETRY Symmetry
INVARIANTS
  TypeOK
  SubjectGuardExact
  OneCanCommit
PROPERTIES
  EndedIsFinal
  FirstAnswerStands
  ImplementsRegistry
CHECK_DEADLOCK FALSE
