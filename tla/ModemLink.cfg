SPECIFICATION FairSpec
CONSTANTS
  MaxPackets = 1
  ReopenAfter = 1
  MaxAttempts = 2
  Unheeded = 1
  MaxBehind = 1
  MaxQueued = 1
INVARIANTS TypeOK AnswersGrounded
PROPERTIES CallsReturn
CHECK_DEADLOCK FALSE
