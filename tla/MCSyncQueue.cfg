SPECIFICATION Spec
CONSTANTS
    Threads = {t1, t2, t3}
    Sizes = {0, 1, 2}
    MaxPuts = 3
    Rank <- RankMC
SYMMETRY Symmetry
INVARIANTS Bounded NoLostWakeUp ShutdownWakes JoinExact
PROPERTY ImplementsQueue
CHECK_DEADLOCK FALSE
