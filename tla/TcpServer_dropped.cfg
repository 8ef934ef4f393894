CONSTANTS
    MaxConns = 1
    NumThreads = {1}
    MaxFds = 1
    IdSpace = 4
    MaxStarts = 1
SPECIFICATION Spec
CHECK_DEADLOCK FALSE
INVARIANT
    NobodyIsLeft
