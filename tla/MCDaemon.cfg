SPECIFICATION FairSpec
CONSTANTS
    Conn = {c1}
    Sid = {s1, s2}
    None = None
    MaxRequests = 3
    MaxDeaths = 1
INVARIANTS
    NoOrphan
PROPERTIES
    AllAnswered
CHECK_DEADLOCK FALSE
