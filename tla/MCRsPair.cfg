CONSTANTS
    SerialThreshold = 3
    U32 = 64
    USize = 4096
    SiglentHeaderSize = 2048
    Sessions <- MCSessions
SPECIFICATION Spec
INVARIANTS TypeOK QuietOpen TornPayloadRefused TornXmlReads
PROPERTY ImplementsWfmFile
