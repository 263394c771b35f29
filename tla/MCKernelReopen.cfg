SPECIFICATION Spec
CONSTANTS
    User = {u1}
    MaxTurns = 2
    MaxCalls = 1
    MaxDeaths = 1
    MaxFaults = 0
    MaxOutside = 0
    HasChain = FALSE
INVARIANT
    InProcessTasksAwaited
CHECK_DEADLOCK FALSE
