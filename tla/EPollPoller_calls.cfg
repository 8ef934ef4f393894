CONSTANTS
    a = a
    b = b
    c = c
    fd1 = fd1
    fd2 = fd2
    none = none
    ChannelId = {a, b, c}
    Tied = {a, b}
    Fd = {fd1, fd2}
    NoChannel = none
SPECIFICATION Spec
SYMMETRY Symmetry
INVARIANTS TypeOK NeverExits KernelMirrorsChannels MapIsExact ActiveAreLive
