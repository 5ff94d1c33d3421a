SPECIFICATION FairSpec
CONSTANTS
    SIZE = 2
    MaxCount = 3
    MaxBytes = 4
    MaxConns = 2
    MAXFAULTS = 1
    MAXPOLLFAULTS = 1
    Garbage = Garbage
INVARIANT ReaderTypeOK
PROPERTIES
    StreamInOrder
    ReadReturns
