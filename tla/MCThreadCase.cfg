\* Two reactions on one message, one question each with two clicks on its form,
\* and one fault.
SPECIFICATION FairSpec
CONSTANTS
  Posts = {}
  Reactions = {r1, r2}
  Mentions = {}
  MentionThread = r1
  MaxAnswers = 1
  Copies = 2
  MaxFaults = 1
  None = None
INVARIANTS
  TypeOK
  OneCasePerReaction
  OneCasePerThread
  AnswerResumes
PROPERTIES
  ClaimSettles
CHECK_DEADLOCK FALSE
