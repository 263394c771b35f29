SPECIFICATION FairSpec
CONSTANTS
    Sid = {s1}
    None = None
    MaxRequests = 4
    MaxCancels = 1
    MaxTurns = 1
    Cap = 1
    Left = {"none", "running", "suspended"}
    Single = TRUE
INVARIANTS
    CancelledWasAsked
    CutSaysCancelled
    ClosedMeansEnded
PROPERTY
    AllAnswered
CHECK_DEADLOCK FALSE
