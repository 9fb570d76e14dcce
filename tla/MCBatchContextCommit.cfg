SPECIFICATION BatchSpec
CONSTANTS
    Adapters = {"sqlite", "postgres", "oracle"}
    MaxCalls = 2
INVARIANT
    UncommittableBatchFailsRun
CHECK_DEADLOCK FALSE
