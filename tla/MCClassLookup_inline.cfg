SPECIFICATION Spec
CONSTANTS
    Lookers = {t1}
    Bases <- TwoClasses
    Loaded = {2}
    Functions = {f1, f2}
    Properties = {}
    Missing = Missing
    MaxEpoch = 3
INVARIANT InlineIsFresh
CHECK_DEADLOCK FALSE
