CONSTANTS
    numThreads_ = 1
SPECIFICATION FairSpec
CHECK_DEADLOCK FALSE
PROPERTIES
    DestructorAlwaysReturns
