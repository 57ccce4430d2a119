SPECIFICATION Spec
CONSTANTS
    NRows = 9
    BatchSize = 2
    Capacity = 2
    ConvertInWorker = TRUE
    Faults <- AllFaults
INVARIANTS EndMeansDataExhausted
