CHECK_DEADLOCK FALSE
CONSTANTS
    IntMod = 64
    LogSize = 4
    TxSize = 2
    RxSize = 1
    Fifo = 2
    Chunk = 2
    LineMax = 6
    Lines <- MCLines
    TraceLen = 2
    MaxInputs = 4
    Careful = TRUE
SPECIFICATION FairLogSpec
INVARIANTS
    LineFormatted
PROPERTIES
    ImplementsPipe
    DrainedMeansSent
    FallsSilent

