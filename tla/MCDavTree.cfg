SPECIFICATION Spec
CONSTANTS
    Paths <- MCPaths
    S <- MCS
    D <- MCD
    None = None
    Blocks = {"a", "b", "c", "n", "m", "o", "zero"}
    Cases <- AllCases
    CROSSDEV = {FALSE, TRUE}
    FAULTS = {"mkdir", "open", "opendir", "write", "read", "unlink", "rename", "crash"}
    MAXFAULTS = 3
INVARIANTS
    DavTypeOK
    SuccessMeansDone
    NothingLost
