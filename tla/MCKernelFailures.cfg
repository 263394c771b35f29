SPECIFICATION Spec
CONSTANTS
    User = {u1}
    MaxTurns = 2
    MaxCalls = 1
    MaxDeaths = 2
    MaxFaults = 1
    MaxOutside = 2
    HasChain = TRUE
INVARIANTS
    OneResultPerTask
    RequestFromCheckpoint
    UserMessagesKept
CHECK_DEADLOCK FALSE
