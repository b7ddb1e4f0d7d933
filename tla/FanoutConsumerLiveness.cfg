\* Every record is committed in the end, two faults and evictions included.
SPECIFICATION Spec
CONSTANTS
    Worker = {w1, w2}
    Partition = {p1}
    NoWorker = NoWorker
    NoRecord = NoRecord
    MaxRetries = 1
    MaxRecords = 2
    MaxDisruptions = 2
    Evictions = TRUE
CHECK_DEADLOCK FALSE
PROPERTY
    EveryRecordCommitted
