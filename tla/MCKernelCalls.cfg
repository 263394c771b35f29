SPECIFICATION FairSpec
CONSTANTS
    User = {u1, u2}
    MaxTurns = 1
    MaxCalls = 2
    MaxDeaths = 0
    MaxFaults = 0
    MaxOutside = 2
    HasChain = TRUE
INVARIANTS
    HistoryAnswered
    AcceptedNotLost
    OwnTasksAwaited
    FuturesAreOpenTasks
PROPERTY
    CancelTakesHold
CHECK_DEADLOCK FALSE
