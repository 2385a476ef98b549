SPECIFICATION FairThreading
CONSTANTS
    Threads = {t1, t2}
    NoThread = NoThread
    MaxDepth = 2
    Values = {0, 1}
    Releases = {0, 1, 2}
    MaxCount = 2
    Counts = {1}
    Sizes = {2}
    MaxGeneration = 2
    Objects = {"RLock", "Semaphore", "Event", "Condition", "Barrier", "Lock", "Thread", "Queue"}
    QueueSizes = {1}
    MaxPuts = 2
    Rank <- RankMC
PROPERTIES PermitsAreTaken SetReleasesAll WakersReturn GenerationEnds TimedCallsEnd
    ItemsAreTaken ShutdownEndsCalls JoinEnds
CHECK_DEADLOCK FALSE
