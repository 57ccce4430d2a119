SPECIFICATION FairSpec
CONSTANTS
    Keys <- SixKeys
    BatchSize = 2
    MaxWrites = 2
    Faults = TRUE
INVARIANTS TypeOK RowsRise KeptRowsSeen
PROPERTIES ScanEnds
