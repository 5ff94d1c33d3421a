SPECIFICATION Spec
CONSTANTS
    Threads = {t1, t2}
    Fds = {f1, f2}
    TermOrder = TermOrder
    NoFd = NoFd
    MAXTHREAD = 3
    INITIALTHREAD = 1
    LOWTHREAD = 0
    MAXFREETHREAD = 0
    AuthSocket = TRUE
    MAXFAULTS = 1
    MAXSIGNALS = 1
SYMMETRY Symmetry
INVARIANTS
    PoolTypeOK
    FreeExact
    CountExact
