\* Two processes of one subject with backoffs, deadlines and a question, two
\* instances that keep polling and one fault: nothing is left behind.
SPECIFICATION FairSpec
CONSTANTS
  Procs = {p1, p2}
  Keys = {}
  Subjects = {s1}
  Actors = {a1, a2}
  AwaitKeys = {q1}
  EventIDs = {}
  None = None
  MaxUncleanReclaims = 0
  MaxRev = 3
  MaxFaults = 1
PROPERTIES
  NoProcessStalls
CHECK_DEADLOCK FALSE
