\* An author whose second follower makes a celebrity.
SPECIFICATION Safety
CONSTANTS
    User = {u1, u2}
    Author = {a}
    Star = {a}
    Crowd = 1
    Threshold = 3
    MaxTimelineLen = 2
    BackfillCount = 1
    Reordering = FALSE
    MaxPosts = 3
    MaxChanges = 3
CHECK_DEADLOCK FALSE
SYMMETRY Symmetry
INVARIANTS
    FollowersServed
