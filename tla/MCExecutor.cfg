SPECIFICATION Spec
CONSTANTS
    Workers = {w1, w2}
    Clients = {c1, c2}
    Futures = {f1, f2, f3}
    Callbacks = {b1, b2}
    JobsPerWorker = 1
    MaxShutdowns = 2
    Nobody = Nobody
    NoFuture = NoFuture
SYMMETRY Symmetry
INVARIANTS NoSendOnClosed SettledOnce CallbackOnce
    NothingLeftBehind
PROPERTIES ShutdownCompletes CancelledNeverRuns
CHECK_DEADLOCK FALSE
