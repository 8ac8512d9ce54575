SPECIFICATION Spec
CONSTANTS
  MaxPackets = 2
  ReopenAfter = 2
  MaxAttempts = 1
  Unheeded = 1
  MaxBehind = 1
  MaxQueued = 1
INVARIANTS ConfirmedIsSent
CHECK_DEADLOCK FALSE
