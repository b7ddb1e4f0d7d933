\* Four posts by two authors, pages of one, scores that change places.
SPECIFICATION Spec
CONSTANTS
    Post = {1, 2, 3, 4}
    Author = {"a", "c"}
    AuthorOf <- MCAuthorOf
    Created <- MCCreated
    Viewer = "u"
    Engagements <- MCEngagements
    RecencyScore <- MCRecencyScore
    EngagementScore <- MCEngagementScore
    AffinityWeight = 1
    AffinityWindow = 1
    AffinityDefault = 0
    CandidatePool = 3
    MaxTimelineLen = 3
    PageSize = 1
    NoCursor = NoCursor
    Start = 1
    MaxTime = 2
    MaxChanges = 2
INVARIANTS
    TypeOK
    LoadMissesNone
    RepeatsLostScore
    WalkIsComplete
    OnlyTimeCrosses
PROPERTY
    WalkEnds
