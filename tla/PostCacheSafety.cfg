\* Two posts (the tombstones share one TTL), two requests in flight.
SPECIFICATION Safety
CONSTANTS
    Post = {p1, p2}
    Request = {q1, q2}
    Batch = {{p1, p2}}
    PostCacheTTL = 1
    FeedCacheTTL = 1
    WarmCacheTTL = 1
    PostTombstoneTTL = 2
    TombstoneTTL = 2
SYMMETRY Symmetry
INVARIANTS
    TypeOK
    FeedHidesDeleted
    TombstoneOutlivesCopy
    LivePostsServed
