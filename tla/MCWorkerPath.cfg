SPECIFICATION Spec
CONSTANTS
    MAXINDEXCOUNT = 5
    MAXPORT = 7
    UINT = 16
    PRIVPORT = 3
    PORT = 5
    BASEDIR <- MCBasedir
    INDEX <- MCIndex
    CGIS <- MCCgis
    Unset = Unset
    INBUFFER = 24
    PWDLIMIT = 5
    AUTHFAULTS = {"connect", "malloc", "dies"}
    ADDRESS <- MCAddress
    Anonymous = Anonymous
    HALF = 8
    FILEBUF = 2
    Empty = Empty
    BUFSIZE = 13
    HEADLEN = 3
    PARENTLEN = 2
    FOOTLEN = 2
    ROWMAX = 4
    LISTWORD = 64
    HOST <- MCHost
    CLENGTH <- MCLength
    CTYPE <- MCType
    MAXPROPCOUNT = 4
    URILEN = 28
    Names <- MCNames
    FNAMELEN = 15
    Cases <- MCCases
    Texts <- MCTexts
    Asks <- MCAsks
    MaxConns = 2
    MaxAsked = 4
INVARIANTS
    PathTypeOK
    HeadsCutRight
    UrlRight
    AuthRight
    RangeRight
    ListingRight
    StartsAsAsked
    ServedAsConfigured
    ScriptRight
    NamesLeadBack
    AnswerRight
CHECK_DEADLOCK FALSE
