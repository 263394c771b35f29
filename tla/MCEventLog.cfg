SPECIFICATION Spec
CONSTANTS
    MaxLines = 6
    MaxOpens = 3
    MaxFaults = 1
INVARIANTS
    TypeOK
    NoCheckpointVoided
    VoidsBehind
    NoStaleTail
    ReadableUnlessFailed
PROPERTY StoreSpec
CHECK_DEADLOCK FALSE
