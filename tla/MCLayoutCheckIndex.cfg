SPECIFICATION LayoutSpec
CONSTANTS
    Adapters = {"sqlite", "postgres", "oracle"}
    MaxChanges = 1
INVARIANT
    ExactIndexOnly
CHECK_DEADLOCK FALSE
