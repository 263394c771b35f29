SPECIFICATION Spec
CONSTANTS
  Endpoints <- MCEndpoints
  Fallback <- MCFallback
  MaxAttempts = 2
  BaseDelay = 6
  Multiplier = 2
  MaxDelay = 4
  Jitter = FALSE
  DeltaCapacity = 1
  EventCapacity = 2
  MaxTurns = 2
  MaxCancels = 1
CHECK_DEADLOCK FALSE
INVARIANTS
  AssembledAsMeant
  DeltasAgree
  HistoryEchoed
  TextShown
PROPERTIES
  CallEnds
