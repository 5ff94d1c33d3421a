SPECIFICATION Spec
CONSTANTS
    Threads = {t1, t2}
    Fds = {f1}
    TermOrder = TermOrder
    NoFd = NoFd
    MAXTHREAD = 3
    INITIALTHREAD = 1
    LOWTHREAD = 0
    MAXFREETHREAD = 1
    AuthSocket = FALSE
    MAXFAULTS = 0
    MAXSIGNALS = 1
INVARIANT StatusSignalHarmless
