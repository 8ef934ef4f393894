CONSTANTS
    u = u
    User = {u}
    SingleLoop = {FALSE}
    SndBuf = 1
    HighWaterMark = 2
    MaxSends = 2
    MaxInput = 1
SPECIFICATION Spec
CHECK_DEADLOCK FALSE
INVARIANTS WritingIffBuffered SentOnce
PROPERTY DisconnectedIsFinal
