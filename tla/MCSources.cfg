SPECIFICATION Spec
CONSTANTS
    p1 = p1
    p2 = p2
    a = a
    b = b
    n = n
    Proc = {p1, p2}
    Files <- ThreeFiles
    Kind <- ThreeKinds
    Batch = 2
    MaxFiles = 2
    InlineLimit = 1
    Queue = TRUE
    Together = FALSE
    MaxStarts = 2
    MaxEvents = 3
    MaxDocs = 3
INVARIANTS
    RunsAreTrue
    CompleteMeansIndexed
    RecordsAreUnique
    NothingLeftQueued
CONSTRAINT Calm
SYMMETRY Symmetry
CHECK_DEADLOCK FALSE
