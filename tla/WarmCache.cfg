\* An ordinary author and a celebrity, one follower, one run of the job.
SPECIFICATION WarmSafety
CONSTANTS
    User = {u1}
    Author = {a, b}
    Star = {a}
    Crowd = 2
    Threshold = 2
    MaxTimelineLen = 1
    BackfillCount = 1
    Reordering = FALSE
    MaxPosts = 2
    MaxChanges = 1
    MaxSeeded = 1
    MaxCommits = 2
    MaxRuns = 1
CHECK_DEADLOCK FALSE
INVARIANTS
    WarmTypeOK
    RebuiltIsBaseline
    DamageIsOverlap
