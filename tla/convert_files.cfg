SPECIFICATION Spec
CONSTANTS
    Jobs <- McJobs
    Ends <- McEnds
INVARIANTS TypeOK SuccessReadsBack WholeBatches KeepsOld RefusalKeepsOld
