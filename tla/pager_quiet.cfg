SPECIFICATION FairSpec
CONSTANTS
    Keys <- Range8
    BatchSize = 2
    MaxWrites = 0
    Faults = TRUE
PROPERTIES RefinesLayerStream
