SPECIFICATION FairSpec
CONSTANTS
    Runners = {r1}
    NoRunner = NoRunner
    N = 2
    AtomicUnits = {1}
    Batches = 1
    Sources = {s1, s2}
    NoSource = NoSource
    MaxFaults = 2
    MaxEdits = 1
PROPERTIES
    RerunsConverge
