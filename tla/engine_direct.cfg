SPECIFICATION Spec
CONSTANTS
    Scheduler = FALSE
    LatestOnlyFallback = TRUE
    BoundedHold = 1
    MinInterval = 1
    MaxFailures = 2
    ChunkLens = {1, 2}
    MaxEpoch = 2
    MaxStep = 2
    MaxRevision = 1
INVARIANTS InductiveInv Accounting
PROPERTIES StaleOnlyAsFallback ImplementsContract
