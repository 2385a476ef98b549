SPECIFICATION Spec
CONSTANTS
    Threads = {t1, t2}
    Values = {1}
    Releases = {1}
    MaxCount = 3
INVARIANT BoundHolds
CHECK_DEADLOCK FALSE
