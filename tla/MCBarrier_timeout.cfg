SPECIFICATION Spec
CONSTANTS
    Threads = {t1, t2, t3}
    Sizes = {3}
    MaxGeneration = 2
PROPERTY OthersSeeTheTimeout
CHECK_DEADLOCK FALSE
