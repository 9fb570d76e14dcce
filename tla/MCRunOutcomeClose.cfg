SPECIFICATION Spec
CONSTANTS
    Adapters = {"sqlite", "postgres", "oracle"}
    MaxInterrupts = 1
INVARIANT
    InterruptedCloseReported
CHECK_DEADLOCK FALSE
