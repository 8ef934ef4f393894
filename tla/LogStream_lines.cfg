CONSTANTS
    Thread = {t1, t2}
    TicksPerDay = 2
    MaxClock = 2
    MaxLines = 3
SPECIFICATION Spec
INVARIANTS
    TypeOK
    LinesSound
    FatalEndsProcess
