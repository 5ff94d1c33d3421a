SPECIFICATION Spec
CONSTANTS
    Requests <- PostRequests
    MaxRequests = 2
    AUTH = {TRUE}
    TAR = FALSE
    CACHE = FALSE
    CGI = FALSE
    STALLS = FALSE
    POST_MAX = 1
    FILE = 2
    FAULTS = {}
    None = None
    Body = Body
INVARIANT BodyNeverParsed
