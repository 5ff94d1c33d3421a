SPECIFICATION FairSpec
CONSTANTS
    Server = Server
    Jobs = {j1, j2}
    POST = 3
    CAP = 2
    OUT = 4
    HEADER = 2
    MAXFAULTS = 1
INVARIANTS
    CgiTypeOK
    NothingLeftBehind
    OutputComplete
PROPERTY ExecPageReturns
