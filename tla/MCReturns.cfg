CONSTANTS
    t1 = t1
    t2 = t2
    w1 = w1
    w2 = w2
    Threads = {t1, t2}
    Workers = {w1}
    MaxSlots = 4
    SerialThreshold = 2
    U32 = 64
    USize = 4096
    SiglentHeaderSize = 2048
    Handles <- TwoCallHandles
    Requests <- TwoCallRequests
SPECIFICATION Spec
PROPERTIES CallsReturn
CHECK_DEADLOCK FALSE
