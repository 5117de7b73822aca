CONSTANTS
    t1 = t1
    t2 = t2
    w1 = w1
    w2 = w2
    Threads = {t1}
    Workers = {w1, w2}
    MaxSlots = 4
    SerialThreshold = 2
    U32 = 64
    USize = 4096
    SiglentHeaderSize = 2048
    Handles <- OneCallHandles
    Requests <- OneCallRequests
SPECIFICATION Safety
SYMMETRY Symmetric
INVARIANTS ReplyCorrect EachIndexOnce
PROPERTY ResultsStay
CHECK_DEADLOCK FALSE
