\* Three users, two overlapping requests, the celebrity threshold crossed both ways.
SPECIFICATION Spec
CONSTANTS
    User = {u1, u2, u3}
    Txn = {t1, t2}
    NoTxn = NoTxn
    Threshold = 2
    MaxRequests = 3
    MaxFailures = 1
CHECK_DEADLOCK FALSE
INVARIANTS
    TypeOK
    CountMatchesFollowers
    ReadsStillHold
    OnlyCommittedPublished
PROPERTY
    EveryRequestEnds
    GraphKept
