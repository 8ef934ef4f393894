CONSTANTS
    User = {}
    SingleLoop = {TRUE, FALSE}
    SndBuf = 2
    HighWaterMark = 2
    MaxSends = 3
    MaxInput = 1
SPECIFICATION FairSpec
CHECK_DEADLOCK FALSE
INVARIANTS
    TypeOK
    StreamIntact
    ShutdownFlushes
    WritingIffBuffered
    CallbacksPaired
    NeverDestroyedRegistered
PROPERTIES
    GoneIsFreed
    ShutdownCompletes
