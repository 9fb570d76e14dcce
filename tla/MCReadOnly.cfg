SPECIFICATION ReadOnlySpec
CONSTANTS
    NoRunner = NoRunner
    Reader = Reader
    Runners = {r1}
    N = 2
    AtomicUnits = {1}
    Batches = 1
    Sources = {s1, s2}
    NoSource = NoSource
    MaxFaults = 1
    MaxEdits = 1
INVARIANTS
    InitializedIsReadable
    ReportedSuccessIsFinal
    ReaderInv
