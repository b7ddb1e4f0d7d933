\* A worker expelled with a record in hand applies it after its successor went on.
SPECIFICATION Safety
CONSTANTS
    Worker = {w1, w2}
    Partition = {p1}
    NoWorker = NoWorker
    NoRecord = NoRecord
    MaxRetries = 1
    MaxRecords = 2
    MaxDisruptions = 2
    Evictions = TRUE
CHECK_DEADLOCK FALSE
SYMMETRY Symmetry
PROPERTY
    EffectsInOrder
