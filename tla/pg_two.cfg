SPECIFICATION FairSpec
CONSTANTS
    p1 = p1
    p2 = p2
    Procs = {p1, p2}
    Commands <- Mixed
    NBatches = 2
    Chunks = 2
    None = None
    Old = Old
    Foreign = Foreign
INVARIANTS TypeOK SuccessIsComplete WholeBatches BulkIsAtomic SuccessIsVisible
PROPERTIES IndexAsAsked RefinesLayerSink
