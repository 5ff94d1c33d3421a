SPECIFICATION Spec
CONSTANTS
    Paths <- MCPaths
    S <- MCS
    D <- MCD
    None = None
    Blocks = {"a", "b", "c", "n", "m", "o", "zero"}
    Cases <- OverwriteFCases
    CROSSDEV = {FALSE}
    FAULTS = {}
    MAXFAULTS = 0
INVARIANT OverwriteFKeeps
