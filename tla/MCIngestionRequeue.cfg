SPECIFICATION Spec
CONSTANTS
    d1 = d1
    d2 = d2
    f1 = f1
    f2 = f2
    w1 = w1
    w2 = w2
    t1 = t1
    t2 = t2
    j1 = j1
    j2 = j2
    NoDoc = NoDoc
    NoJob = NoJob
    Doc = {d1}
    Path = {f1}
    PathOf <- OwnPaths
    Worker = {w1}
    Thread = {t1}
    Job = {j1, j2}
    NumBatches = 2
    MaxRetries = 0
    QueueEnabled = TRUE
    MaxFaults = 0
    MaxCopies = 2
INVARIANTS
    ReadyIsSearchable
    ChunksAreAccounted
PROPERTIES
    ImplementsLifecycle
    NothingTakenBack
CHECK_DEADLOCK FALSE
