CONSTANTS
    SerialThreshold = 3
    U32 = 64
    USize = 4096
    SiglentHeaderSize = 2048
    Raws <- MCRaws
    Captures <- MCCaptures
SPECIFICATION Opens
INVARIANTS TypeOK PayloadsApart StaysInFile OneSignature SignatureDecides CurveFound
           ReadAsWritten
PROPERTY ImplementsOpen
CHECK_DEADLOCK FALSE
