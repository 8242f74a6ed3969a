\* Two mentions in a thread that has no Session yet.
SPECIFICATION Spec
CONSTANTS
  Posts = {p}
  Reactions = {}
  Mentions = {m1, m2}
  MentionThread = p
  MaxAnswers = 0
  Copies = 1
  MaxFaults = 0
  None = None
INVARIANTS
  OneTurnPerThread
CHECK_DEADLOCK FALSE
