SPECIFICATION ThreadingSpec
CONSTANTS
    Threads = {t1, t2, t3}
    NoThread = NoThread
    MaxDepth = 3
    Values = {0, 1}
    Releases = {0, 1, 2}
    MaxCount = 3
    Counts = {0, 1, 2}
    Sizes = {2, 3}
    MaxGeneration = 2
    Objects = {"RLock", "Semaphore", "Event", "Condition", "Barrier", "Lock", "Thread"}
    QueueSizes = {1}
    MaxPuts = 0
    Rank <- RankMC
SYMMETRY Symmetry
INVARIANTS PermitsAreExact NoMissedChange WaitTellsTruth
    BarrierIsExact
    DepthIsExact NoLostRelease LockedTellsTruth LifeIsSeen
PROPERTIES PassMeansMet
CHECK_DEADLOCK FALSE
