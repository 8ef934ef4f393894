CONSTANTS
    MaxConns = 3
    NumThreads = {2}
    MaxFds = 3
    IdSpace = 8
    MaxStarts = 1
SPECIFICATION Spec
CHECK_DEADLOCK FALSE
INVARIANT
    IndexInRange
