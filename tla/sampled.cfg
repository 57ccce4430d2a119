SPECIFICATION Spec
CONSTANTS
    Jobs <- McJobs
    BatchSize = 2
INVARIANTS TypeOK SampleDecides
PROPERTIES RefinesLayerStream
