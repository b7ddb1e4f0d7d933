\* Two workers, two partitions, crashes, rebalances and evictions of live workers.
SPECIFICATION Safety
CONSTANTS
    Worker = {w1, w2}
    Partition = {p1, p2}
    NoWorker = NoWorker
    NoRecord = NoRecord
    MaxRetries = 1
    MaxRecords = 2
    MaxDisruptions = 2
    Evictions = TRUE
SYMMETRY Symmetry
CHECK_DEADLOCK FALSE
INVARIANTS
    TypeOK
    CommittedAreSettled
    DLQOnlyAfterRetries
    OneHandlerPerPartition
    ConsumerInv
PROPERTIES
    PromiseKept
    MembersInOrder
