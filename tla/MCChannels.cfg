SPECIFICATION FairChannels
CONSTANTS
    N = 2
    Processes = 2
    Clients = {c1, c2}
    JobsPerWorker = 1
    Nobody = Nobody
    j1 = j1
    j2 = j2
    j3 = j3
    Requests <- SmallRequests
INVARIANTS AnswersAreSettled JobsAnsweredOnce
PROPERTIES WaitEnds PoolCallsEnd
CHECK_DEADLOCK FALSE
