\* A reaction whose question is superseded by a mention; no fault.
SPECIFICATION Spec
CONSTANTS
  Posts = {}
  Reactions = {r1}
  Mentions = {m1}
  MentionThread = r1
  MaxAnswers = 1
  Copies = 1
  MaxFaults = 0
  None = None
INVARIANTS
  PendingMeansWaiting
CHECK_DEADLOCK FALSE
