SPECIFICATION FairSpec
CONSTANTS
    Threads = {t1, t2}
    Sizes = {1}
    MaxPuts = 1
    Rank <- RankMC
PROPERTY TimedCallsEnd
CHECK_DEADLOCK FALSE
