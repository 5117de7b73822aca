CONSTANTS
    Capacity = 9
    Align = 64
    MaxHeader = 120
    MaxWrite = 7
    Jobs <- MCJobs
SPECIFICATION Spec
CHECK_DEADLOCK FALSE
INVARIANTS TypeOK TornNpyIsShort NpyReadsBack CsvLinesAreRows
PROPERTY Ends
