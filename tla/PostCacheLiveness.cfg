\* One post, a longer cache lifetime in feed-service than in post-service.
SPECIFICATION Spec
CONSTANTS
    Post = {p1}
    Request = {q1, q2}
    Batch = {{p1}}
    PostCacheTTL = 1
    FeedCacheTTL = 2
    WarmCacheTTL = 1
    PostTombstoneTTL = 3
    TombstoneTTL = 4
PROPERTIES
    DeletedLeavesCache
