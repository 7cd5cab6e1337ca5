SPECIFICATION FairSpec
CONSTANTS
    Scheduler = TRUE
    LatestOnlyFallback = TRUE
    BoundedHold = 1
    MinInterval = 2
    MaxFailures = 2
    ChunkLens = {2}
    MaxEpoch = 1
    MaxStep = 3
    MaxRevision = 0
INVARIANTS InductiveInv Accounting
PROPERTIES CommitsAreNewer FatalIsOwn EngineEnds
