SPECIFICATION FairSpec
CONSTANTS
  MaxSends = 2
  MaxCrashes = 1
INVARIANTS
  VerifiedIsRecorded
  AnswerIsCurrent
PROPERTIES
  PollersEnd
CHECK_DEADLOCK FALSE
