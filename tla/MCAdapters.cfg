CONSTANTS
    Adapters = {"sqlite", "postgres", "oracle"}
    Runners = {r1, r2, r3}
    NoRunner = NoRunner
    MaxWait = 2
    MaxObjects = 2
    AttemptCalls = 4
    MaxRuns = 2
    MaxCalls = 7
SPECIFICATION PartSpec
INVARIANTS
    LockSafety
    AtomicSafety
    AdmissionSafety
    BatchInv
    CheckpointCoversDurableWork
    SuccessMeansEveryBatchIn
    TornBatchReported
    FailedBatchStaysOut
    NoBatchSqlAfterUnknown
PROPERTIES
    LockService
    ImplementsGuardedCall
    LatchedAttemptStaysFailed
    FirstFailureDecidesExit
CHECK_DEADLOCK FALSE
