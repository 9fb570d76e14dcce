CONSTANTS
    Adapters = {"sqlite"}
    AttemptCalls = 4
    MaxRuns = 2
SPECIFICATION AtomicSpec
INVARIANTS
    FailureMeansRolledBack
CHECK_DEADLOCK FALSE
