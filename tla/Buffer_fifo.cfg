CONSTANTS
    Byte = {0, 1}
    ZeroByte = 0
    kCheapPrepend = 1
    kInitialSize = 2
    ExtraSize = 2
    MaxReadable = 4
SPECIFICATION Spec
INVARIANTS TypeOK IndexesOrdered GrowthIsBounded
PROPERTY ByteQueueSpec
