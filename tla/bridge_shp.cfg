SPECIFICATION FairSpec
CONSTANTS
    NRows = 8
    BatchSize = 2
    Capacity = 2
    ConvertInWorker = FALSE
    Faults <- AllFaults
INVARIANTS EndIsComplete
PROPERTIES RefinesLayerStream
