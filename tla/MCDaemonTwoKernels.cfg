SPECIFICATION Spec
CONSTANTS
    Conn = {c1, c2}
    Sid = {s1}
    None = None
    MaxRequests = 2
    MaxDeaths = 0
INVARIANT OneKernelPerSession
CHECK_DEADLOCK FALSE
