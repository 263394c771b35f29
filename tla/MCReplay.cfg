SPECIFICATION Spec
CONSTANTS
  Setups <- MCSetups
  Responses <- MCResponses
  Values = {"v1", "v2"}
  MaxTurns = 2
  MaxUsers = 2
  MaxUpdates = 1
  MaxCancels = 1
INVARIANTS
  RecorderAgrees
  ReplayFaithful
CHECK_DEADLOCK FALSE
