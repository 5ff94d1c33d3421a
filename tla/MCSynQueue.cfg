SPECIFICATION FairQueueSpec
CONSTANTS
    Getters = {t1, t2, t3}
    Values = {sock, term}
    QSize = 2
    NoValue = NoValue
    MaxSpurious = 1
INVARIANTS
    TypeOK
    RingConsistent
    NoLostWakeup
PROPERTY ImplementsQueue
