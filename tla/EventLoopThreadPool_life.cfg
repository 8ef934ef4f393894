CONSTANTS
    numThreads_ = 2
SPECIFICATION FairSpec
CHECK_DEADLOCK FALSE
INVARIANTS
    TypeOK
    StartedIsReady
    EndsInOrder
PROPERTIES
    StartReturns
    DestructorReturns
