CONSTANTS
    MaxConns = 3
    NumThreads = {0, 2}
    MaxFds = 2
    IdSpace = 2
    MaxStarts = 2
SPECIFICATION FairSpec
CHECK_DEADLOCK FALSE
INVARIANTS
    TypeOK
    RegisteredIsOwned
    UsedOnlyAlive
    EveryoneIsTold
PROPERTIES
    ServerCallbacksSpec
    WaitingIsAccepted
