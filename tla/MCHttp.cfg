SPECIFICATION FairSpec
CONSTANTS
    Requests <- MixedRequests
    MaxRequests = 3
    AUTH = {FALSE, TRUE}
    TAR = TRUE
    CACHE = TRUE
    CGI = TRUE
    STALLS = FALSE
    POST_MAX = 1
    FILE = 2
    FAULTS = {"tar", "shrink", "nomem", "put", "list"}
    None = None
    Body = Body
INVARIANTS
    HttpTypeOK
    ReleasesOwn
    
    BodyNeverParsed
PROPERTIES
    
    RequestAnswered
