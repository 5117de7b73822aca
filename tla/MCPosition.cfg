CONSTANTS
    SerialThreshold = 3
    U32 = 64
    USize = 4096
    SiglentHeaderSize = 2048
    Files <- FilesRs
    Starts <- MCStarts
    Lengths <- MCLengths
SPECIFICATION Spec
INVARIANT PositionIsChannel
