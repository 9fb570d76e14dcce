SPECIFICATION Spec
CONSTANTS
    Runners = {r1, r2}
    NoRunner = NoRunner
    N = 2
    AtomicUnits = {1}
    Batches = 2
    Sources = {s1, s2}
    NoSource = NoSource
    MaxFaults = 2
    MaxEdits = 1
SYMMETRY Symmetry
INVARIANTS
    NeverSelfDamaged
    WorkMatchesHistory
    WritersHoldLock
    CodeRunsAdmitted
    ExitOkMeansApplied
    IInv
PROPERTIES
    HistoryImmutable
    DefiniteFailuresAreTrue
    LedgerSpec
