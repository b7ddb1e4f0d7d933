\* Overlapping requests publish out of order.
SPECIFICATION Safety
CONSTANTS
    User = {u1, u2}
    Author = {a}
    Star = {a}
    Crowd = 2
    Threshold = 2
    MaxTimelineLen = 2
    BackfillCount = 1
    Reordering = TRUE
    MaxPosts = 3
    MaxChanges = 3
CHECK_DEADLOCK FALSE
SYMMETRY Symmetry
INVARIANTS
    MarkersAreFollows
