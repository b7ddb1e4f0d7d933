\* An author who stays below the threshold.
SPECIFICATION Safety
CONSTANTS
    User = {u1, u2}
    Author = {a}
    Star = {}
    Crowd = 0
    Threshold = 3
    MaxTimelineLen = 2
    BackfillCount = 1
    Reordering = FALSE
    MaxPosts = 3
    MaxChanges = 3
CHECK_DEADLOCK FALSE
SYMMETRY Symmetry
INVARIANTS
    TypeOK
    NoGap
