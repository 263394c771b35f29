SPECIFICATION MCSpec
CONSTANTS
  SecretLike = {"API_KEY"}
  MinTimeout = 1
  MaxTimeout = 2
  Names <- TheNames
  MaxHops = 3
  Fuel = 30
  Tools <- OneOfEach
  MaxCalls = 2
  MaxCancels = 1
  MaxStops = 0
  Places <- ThePlaces
  FileCalls <- TheFileCalls
  Changes <- TheChanges
  MaxFileCalls = 0
  MaxChanges = 0
INVARIANT InSync
CHECK_DEADLOCK FALSE
