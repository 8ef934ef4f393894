CONSTANTS
    c1 = c1
    c2 = c2
    self = self
    f1 = f1
    f2 = f2
    f3 = f3
    g1 = g1
    io = io
    wake = wake
    Caller = {c1, c2}
    LoopThread = self
    Functor = {f1, f2, f3, g1}
    InitFunctor = {g1}
    IOChannel = {io}
    WakeupChannel = wake
    EventListSize = 1
    MaxEventfd = 2
SPECIFICATION FairSpec
INVARIANTS
    TypeOK
    NoLostWakeup
    NoSleepAfterQuit
PROPERTIES
    FunctorQueueSpec
    FunctorStarts
    QuitStopsRunningLoop
