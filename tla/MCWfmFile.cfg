CONSTANTS
    SerialThreshold = 3
    U32 = 64
    USize = 4096
    SiglentHeaderSize = 2048
    Files <- MCFiles
    Starts <- MCStarts
    Lengths <- MCLengths
SPECIFICATION Spec
INVARIANTS TypeOK WindowsInFile SliceIsWindow EveryByteOnce PanicsOnlyOn
           OpenChecksSuffice AnswersAgree RowTimes ColumnsAreChannels InfoPredictsRows
