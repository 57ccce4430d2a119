SPECIFICATION FairSpec
CONSTANTS
    p1 = p1
    p2 = p2
    Procs = {p1, p2}
    Commands <- Mixed
    NBatches = 4
    Ends <- Uneven
    ChunkSize = 3
    ChunkRows = 2
    Faults = TRUE
    None = None
    Old = Old
INVARIANTS TypeOK ExactlyOnce WholeChunks SuccessIsComplete SuccessIsVisible PendingBound
PROPERTIES RefinesLayerSink
