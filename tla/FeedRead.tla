------------------------------- MODULE FeedRead -------------------------------
(***************************************************************************)
(* How feed-service serves a feed page by page (feedserver/server.go,      *)
(* candidate/redis.go, signals/postgres.go, ranking/heuristic.go,          *)
(* cursor/cursor.go), for one viewer who scrolls from the first page on.   *)
(*                                                                         *)
(* GetFeed keeps nothing between two pages: each page is a request that    *)
(* loads, hydrates and ranks the candidates again, one read at a time,     *)
(* while the worker writes the lists, posts are deleted and scores decay.  *)
(* All a page knows of the one before is the cursor in its token.          *)
(*                                                                         *)
(* The hydrator is module PostCache: a live post is always found, a        *)
(* deleted one perhaps until it is tombstoned.                             *)
(***************************************************************************)
EXTENDS Integers, FiniteSets

CONSTANTS
    Post,            \* IDs
    Author,
    AuthorOf,        \* per post
    Created,         \* per post, created_at
    Viewer,
    Engagements,     \* public.engagements: nothing in the services writes it
    RecencyScore,    \* w_recency * exp(-age / half_life), per age
    EngagementScore, \* w_engagement * log1p(n), per n
    AffinityWeight,
    AffinityWindow,
    AffinityDefault,
    CandidatePool,   \* FEED_CANDIDATE_POOL_SIZE
    MaxTimelineLen,  \* MAX_TIMELINE_LEN of the worker
    PageSize,
    NoCursor,
    Start,           \* when the behaviour starts
    MaxTime,         \* bound: when the clock stops
    MaxChanges       \* bound: writes, deletes and failures

\* What a page token holds.
Cursor == [score : Nat, created : Nat, id : Post]

\* The defaults of the pool and the list are 200 and 1000; the configuration of
\* one service does not know the other's.
ASSUME ConstantsAssumption ==
    /\ Post \subseteq Nat \ {0}
    /\ IsFiniteSet(Post)
    /\ AuthorOf \in [Post -> Author]
    /\ Created \in [Post -> Nat]
    /\ \A e \in Engagements : e.post \in Post /\ e.at \in Nat
    /\ IsFiniteSet(Engagements)
    /\ RecencyScore \in [0..MaxTime -> Nat]
    /\ EngagementScore \in [0..(2 * Cardinality(Engagements)) -> Nat]
    /\ AffinityWeight \in Nat
    /\ AffinityWindow \in Nat \ {0}
    /\ AffinityDefault \in Nat
    /\ CandidatePool \in Nat \ {0}
    /\ MaxTimelineLen \in Nat
    /\ CandidatePool <= MaxTimelineLen
    /\ PageSize \in Nat \ {0}
    /\ NoCursor \notin Cursor
    /\ Start \in Nat
    /\ MaxTime \in Nat
    /\ Start <= MaxTime
    /\ MaxChanges \in Nat

VARIABLES
    now,
    timeline,        \* timeline:{userId} of the viewer
    celebrityPosts,  \* celebrity_posts:global
    following,       \* following:celebrities:{userId} of the viewer
    deleted,         \* rows with deleted_at set
    tombstones,
    stage,           \* where the request is, or the viewer between requests
    normal,          \* NormalIDs
    celebrity,       \* CelebrityIDs
    followed,        \* FollowedCelebrities
    posts,           \* the posts to rank
    cursor,          \* the cursor of the page token, NoCursor for the first page
    shown,           \* history: posts on the pages so far
    seen,            \* history: per post, when it was last shown
    repeats,         \* history: posts of the last page shown before, with both times
    below,           \* history: posts ranked below the last page when it was served
    crossed,         \* history: posts found on the other side of the last page's end
    ticked,          \* history: whether time has passed since the walk began
    standing,        \* history: candidates, with their list, since the walk began
    changes          \* bound counter

lists == <<timeline, celebrityPosts, following, deleted, tombstones>>
candidates == <<normal, celebrity, followed>>
walk == <<cursor, shown, seen, repeats, below, crossed>>
vars == <<now, lists, stage, candidates, posts, walk, ticked, standing, changes>>

Stage == {"home", "scroll", "timeline", "celebrity", "following", "tombstones",
          "hydrate", "rank"}

TypeOK ==
    /\ now \in Start..MaxTime
    /\ timeline \in SUBSET Post
    /\ celebrityPosts \in SUBSET Post
    /\ following \in SUBSET Author
    /\ deleted \in SUBSET Post
    /\ tombstones \in SUBSET deleted
    /\ stage \in Stage
    /\ normal \in SUBSET Post
    /\ celebrity \in SUBSET Post
    /\ followed \in SUBSET Author
    /\ posts \in SUBSET Post
    /\ cursor \in Cursor \union {NoCursor}
    /\ {shown, below, crossed} \subseteq SUBSET Post
    /\ seen \in [Post -> Start..MaxTime]
    /\ repeats \subseteq [post : Post, from : Start..MaxTime, to : Start..MaxTime]
    /\ ticked \in BOOLEAN
    /\ standing \in SUBSET (Post \X {"timeline", "celebrity"})
    /\ changes \in 0..MaxChanges

-----------------------------------------------------------------------------
(* Orders, scores and pages. *)

\* By created_at, then by ID.
Newer(p, q) == Created[p] > Created[q] \/ (Created[p] = Created[q] /\ p > q)

\* The n newest of a set of posts: ZREVRANGE 0 n-1, and the cut of selectPosts.
Newest(n, ps) == {p \in ps : Cardinality({q \in ps : Newer(q, p)}) < n}

\* The signals of Load: a post's likes and comments, and the viewer's
\* engagements with an author in the window, the default when there are none.
Count(p, type) == Cardinality({e \in Engagements : e.post = p /\ e.type = type})

Affinity(a, t) ==
    LET recent == {e \in Engagements : /\ e.user = Viewer
                                       /\ e.at >= t - AffinityWindow
                                       /\ AuthorOf[e.post] = a}
    IN  IF recent = {} THEN AffinityDefault ELSE Cardinality(recent)

Age(p, t) == IF Created[p] > t THEN 0 ELSE t - Created[p]

Score == [t \in Start..MaxTime |-> [p \in Post |->
    RecencyScore[Age(p, t)] + EngagementScore[Count(p, "like") + 2 * Count(p, "comment")]
        + AffinityWeight * Affinity(AuthorOf[p], t)]]

\* Rank's order at time t: by score, then by created_at, then by ID.
Above(p, q, t) ==
    \/ Score[t][p] > Score[t][q]
    \/ Score[t][p] = Score[t][q] /\ Newer(p, q)

\* MUTANT: the cursor's score alone is compared.
BelowScore(p, c, t) == Score[t][p] < c.score

\* MUTANT: the score alone is compared, and posts level with it pass too.
NotAboveScore(p, c, t) == Score[t][p] <= c.score

\* The three fields of p are below the cursor's.
BelowCursor(p, c, t) ==
    \/ Score[t][p] < c.score
    \/ Score[t][p] = c.score /\ Created[p] < c.created
    \/ Score[t][p] = c.score /\ Created[p] = c.created /\ p < c.id

\* MUTANT: the page starts with the cursor's post.
FromPageStartInclusive(ps, c, t) ==
    IF c = NoCursor THEN ps
    ELSE IF c.id \in ps THEN {p \in ps : p = c.id \/ Above(c.id, p, t)}
    ELSE {p \in ps : BelowCursor(p, c, t)}

\* MUTANT: when the cursor's post is gone the feed is at its end.
FromPageStartEmpty(ps, c, t) ==
    IF c = NoCursor THEN ps
    ELSE IF c.id \in ps THEN {p \in ps : Above(c.id, p, t)}
    ELSE {}

\* What is ranked from pageStart on: after the cursor's post where it ranks now,
\* and when it is gone, below the cursor's fields.
FromPageStart(ps, c, t) ==
    IF c = NoCursor THEN ps
    ELSE IF c.id \in ps THEN {p \in ps : Above(c.id, p, t)}
    ELSE {p \in ps : BelowCursor(p, c, t)}

\* The first PageSize of the ranked posts ps.
Page(ps, t) == {p \in ps : Cardinality({q \in ps : Above(q, p, t)}) < PageSize}

CursorAt(p, t) == [score |-> Score[t][p], created |-> Created[p], id |-> p]

-----------------------------------------------------------------------------
(* What the reader runs beside. *)

\* A post as a candidate of the viewer, with the list that makes it one, and
\* with fewer than CandidatePool newer posts in both lists together.
Standing ==
    LET pool == Newest(CandidatePool, timeline \union celebrityPosts) \ deleted
    IN  ((pool \intersect timeline) \X {"timeline"})
          \union ({p \in pool \intersect celebrityPosts : AuthorOf[p] \in following}
                   \X {"celebrity"})

Init ==
    /\ now = Start
    /\ timeline \in {ps \in SUBSET {p \in Post : Created[p] <= Start} :
                        Cardinality(ps) <= MaxTimelineLen}
    /\ celebrityPosts \in {ps \in SUBSET {p \in Post : Created[p] <= Start} :
                        Cardinality(ps) <= MaxTimelineLen /\ ps \intersect timeline = {}}
    /\ following \in SUBSET Author
    /\ deleted = {}
    /\ tombstones = {}
    /\ stage = "home"
    /\ normal = {}
    /\ celebrity = {}
    /\ followed = {}
    /\ posts = {}
    /\ cursor = NoCursor
    /\ shown = {}
    /\ seen = [p \in Post |-> Start]
    /\ repeats = {}
    /\ below = {}
    /\ crossed = {}
    /\ ticked = FALSE
    /\ standing = {}
    /\ changes = 0

Change ==
    /\ changes < MaxChanges
    /\ changes' = changes + 1
    /\ lists' # lists
    /\ standing' = standing \intersect Standing'
    /\ UNCHANGED <<now, stage, candidates, posts, walk, ticked>>

\* The worker adds to the viewer's timeline and trims it (FanoutPost, Backfill).
AddToTimeline(p) ==
    /\ Created[p] <= now
    /\ timeline' = Newest(MaxTimelineLen, timeline \union {p})
    /\ UNCHANGED <<celebrityPosts, following, deleted, tombstones>>
    /\ Change

\* AddCelebrityPost.
AddCelebrityPost(p) ==
    /\ Created[p] <= now
    /\ celebrityPosts' = Newest(MaxTimelineLen, celebrityPosts \union {p})
    /\ UNCHANGED <<timeline, following, deleted, tombstones>>
    /\ Change

\* AddCelebrityFollow and RemoveCelebrityFollow.
FollowCelebrity(a) ==
    /\ following' \in {following \union {a}, following \ {a}}
    /\ UNCHANGED <<timeline, celebrityPosts, deleted, tombstones>>
    /\ Change

\* DeletePost marks the row ...
Delete(p) ==
    /\ deleted' = deleted \union {p}
    /\ UNCHANGED <<timeline, celebrityPosts, following, tombstones>>
    /\ Change

\* MUTANT: the tombstone is written before the row is marked.
TombstoneLive(p) ==
    /\ tombstones' = tombstones \union {p}
    /\ UNCHANGED <<timeline, celebrityPosts, following, deleted>>
    /\ Change

\* ... and writes the tombstone.
Tombstone(p) ==
    /\ p \in deleted
    /\ tombstones' = tombstones \union {p}
    /\ UNCHANGED <<timeline, celebrityPosts, following, deleted>>
    /\ Change

\* Time passes, and with it every score.
Tick ==
    /\ now < MaxTime
    /\ now' = now + 1
    /\ ticked' = TRUE
    /\ UNCHANGED <<lists, stage, candidates, posts, walk, standing, changes>>

-----------------------------------------------------------------------------
(* The viewer, and GetFeed. *)

At(s) == stage = s
Go(s) == stage' = s

\* What Load returned is the request's own and gone with it.
NoCandidates == normal' = {} /\ celebrity' = {} /\ followed' = {}

\* The viewer opens the feed: a request without a page token.
Open ==
    /\ At("home")
    /\ Go("timeline")
    /\ cursor' = NoCursor
    /\ shown' = {}
    /\ seen' = [p \in Post |-> Start]
    /\ repeats' = {}
    /\ below' = {}
    /\ crossed' = {}
    /\ ticked' = FALSE
    /\ standing' = Standing
    /\ UNCHANGED <<now, lists, candidates, posts, changes>>

\* The viewer asks for the next page: a request with the last page's token.
Scroll ==
    /\ At("scroll")
    /\ Go("timeline")
    /\ repeats' = {}
    /\ UNCHANGED <<now, lists, candidates, posts, cursor, shown, seen, below, crossed,
                   ticked, standing, changes>>

\* Load: the three reads of the pipeline, which is no transaction, ...
ReadTimeline ==
    /\ At("timeline")
    /\ Go("celebrity")
    /\ normal' = Newest(CandidatePool, timeline)
    /\ UNCHANGED <<now, lists, celebrity, followed, posts, walk, ticked, standing, changes>>

ReadCelebrityPosts ==
    /\ At("celebrity")
    /\ Go("following")
    /\ celebrity' = Newest(CandidatePool, celebrityPosts)
    /\ UNCHANGED <<now, lists, normal, followed, posts, walk, ticked, standing, changes>>

ReadFollowing ==
    /\ At("following")
    /\ Go("tombstones")
    /\ followed' = following
    /\ UNCHANGED <<now, lists, normal, celebrity, posts, walk, ticked, standing, changes>>

\* ... and SMISMEMBER of what they found.
ReadTombstones ==
    /\ At("tombstones")
    /\ Go("hydrate")
    /\ normal' = normal \ tombstones
    /\ celebrity' = celebrity \ tombstones
    /\ UNCHANGED <<now, lists, followed, posts, walk, ticked, standing, changes>>

\* MUTANT: the pool is cut without sorting, the posts of the timeline first.
SelectPostsUnsorted(hydrated) ==
    LET own == hydrated \intersect normal
        others == {p \in hydrated \ normal : p \in celebrity /\ AuthorOf[p] \in followed}
    IN  own \union Newest(CandidatePool - Cardinality(own), others)

\* selectPosts: the hydrated posts of the timeline and, of the celebrity posts,
\* those by authors the viewer follows; the newest CandidatePool of them.
SelectPosts(hydrated) ==
    Newest(CandidatePool,
           {p \in hydrated : p \in normal \/ (p \in celebrity /\ AuthorOf[p] \in followed)})

\* Hydrate (PostCache), given mergeIDs.
Hydrate ==
    /\ At("hydrate")
    /\ Go("rank")
    /\ LET ids == normal \union celebrity
       IN  \E stale \in SUBSET (ids \intersect (deleted \ tombstones)) :
             posts' = SelectPosts((ids \ deleted) \union stale)
    /\ NoCandidates
    /\ UNCHANGED <<now, lists, walk, ticked, standing, changes>>

\* A post is beyond the last page when it ranks after the post that ended it, or,
\* when that one is gone, below the fields it had.
Beyond(p) ==
    IF cursor.id \in posts THEN Above(cursor.id, p, now) ELSE BelowCursor(p, cursor, now)

\* The posts that changed sides since the last page: shown ones that are beyond
\* it now, and ones left below it that are not.
Crossing ==
    IF cursor = NoCursor THEN {}
    ELSE {p \in shown \intersect posts : Beyond(p)} \union {p \in below \intersect posts : ~Beyond(p)}

\* Signals are loaded, the posts ranked and the page cut: there is a next token
\* when posts are left and the page is not empty.  The window of the affinity and the
\* ages are taken at one time, where the code looks at the clock for each of them.
Serve ==
    /\ At("rank")
    /\ LET rest == FromPageStart(posts, cursor, now)
           page == Page(rest, now)
       IN  /\ shown' = shown \union page
           /\ seen' = [p \in Post |-> IF p \in page THEN now ELSE seen[p]]
           /\ repeats' = {[post |-> p, from |-> seen[p], to |-> now] :
                             p \in shown \intersect page}
           /\ below' = rest \ page
           /\ crossed' = crossed \union Crossing
           /\ IF rest = page
              THEN Go("home") /\ cursor' = NoCursor
              ELSE \E last \in page :
                     /\ \A p \in page \ {last} : Above(p, last, now)
                     /\ Go("scroll")
                     /\ cursor' = CursorAt(last, now)
    /\ posts' = {}
    /\ UNCHANGED <<now, lists, candidates, ticked, standing, changes>>

\* A read fails and the request with it; the viewer has the pages so far and may
\* ask for the same page again.
Fail ==
    /\ stage \notin {"home", "scroll"}
    /\ changes < MaxChanges
    /\ changes' = changes + 1
    /\ IF cursor = NoCursor THEN Go("home") /\ standing' = {}
                            ELSE Go("scroll") /\ UNCHANGED standing
    /\ NoCandidates
    /\ posts' = {}
    /\ UNCHANGED <<now, lists, walk, ticked>>

World ==
    \/ \E p \in Post : AddToTimeline(p) \/ AddCelebrityPost(p) \/ Delete(p) \/ Tombstone(p)
    \/ \E a \in Author : FollowCelebrity(a)
    \/ Tick

GetFeed ==
    \/ ReadTimeline \/ ReadCelebrityPosts \/ ReadFollowing \/ ReadTombstones
    \/ Hydrate \/ Serve

Next == World \/ Open \/ Scroll \/ GetFeed \/ Fail

Safety == Init /\ [][Next]_vars

\* A request goes on, and the viewer goes on scrolling.
Spec == Safety /\ WF_vars(Scroll \/ GetFeed)

-----------------------------------------------------------------------------
(* Properties. *)

\* Load reads three keys and the tombstones one after another and pages are cut
\* twice (redis.go:32-71, server.go:192-194), yet no interleaving with the worker
\* drops a post that was a candidate all along: it is ranked.
LoadMissesNone == At("rank") => \A s \in standing : s[1] \in posts

\* Where scores only decay, a post is shown again in a walk only when its own score
\* is less than when it was last shown.  Nothing else brings it back: no write of the
\* worker, no delete of the cursor's post, no tie with it, no page asked for again
\* and no other post's score (server.go:198-215).
RepeatsLostScore ==
    \A r \in repeats : Score[r.to][r.post] < Score[r.from][r.post]

\* When the last page is served, each post that was a candidate since the first
\* page was on some page, unless it overtook the end of a page.
WalkIsComplete ==
    At("home") => \A s \in standing : s[1] \in shown \union crossed

\* Deletes, the cursor's own post included, and new posts move no post to the
\* other side of a page's end: only the decay of the scores does.
OnlyTimeCrosses == crossed # {} => ticked

\* The walk ends: an infinite scroll comes to the last page.
WalkEnds == []<>At("home")
===============================================================================
