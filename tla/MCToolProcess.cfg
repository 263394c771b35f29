SPECIFICATION MCSpec
CONSTANTS
  SecretLike = {"API_KEY"}
  MinTimeout = 1
  MaxTimeout = 2
  Names <- TheNames
  MaxHops = 3
  Fuel = 30
  Tools <- OneOfEach
  MaxCalls = 2
  MaxCancels = 1
  MaxStops = 1
  Places <- ThePlaces
  FileCalls <- TheFileCalls
  Changes <- TheChanges
  MaxFileCalls = 1
  MaxChanges = 1
INVARIANTS
  Owned
  OwnAnswer
  AccessAsChecked
  SandboxAgrees
PROPERTIES
  GraceBeforeKill
  CallReturns
  TaskReported
  EndedLeavesNothing
CHECK_DEADLOCK FALSE
