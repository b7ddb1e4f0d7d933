------------------------------ MODULE WarmCache -------------------------------
(***************************************************************************)
(* The warm-cache job (warm/warmer.go, the rest of timeline/redis.go and   *)
(* repository/postgres.go), which rebuilds the worker's keys from the      *)
(* database, beside the worker of HybridFanout, which goes on applying     *)
(* events; and the candidates that FEED_BYPASS_CACHE reads from the        *)
(* database (candidate/postgres.go), which the rebuilt keys should equal.  *)
(*                                                                         *)
(* The job reads three tables one after another and then writes, key by    *)
(* key, what it read: a change that commits in between is not in what it   *)
(* writes, and what the worker wrote of it meanwhile is overwritten.  The  *)
(* job's post:{id} writes are in PostCache.                                *)
(***************************************************************************)
EXTENDS HybridFanout

CONSTANTS
    MaxSeeded, \* bound: posts that are there from the beginning
    MaxCommits, \* bound: posts, follows and unfollows, the seeded posts included
    MaxRuns    \* bound: how often the job is started

ASSUME WarmAssumption ==
    /\ IsFiniteSet(Author)
    /\ MaxSeeded \in 0..MaxPosts
    /\ MaxCommits \in Nat
    /\ MaxRuns \in Nat

VARIABLES
    job,      \* where the job is; "failed" when it stopped on an error
    listed,   \* what it read: users, follows and posts
    todo,     \* the accounts that WarmUsers has still to write
    runs,     \* bound counter
    calm,     \* history: nothing but the job has changed anything since it began
    missed,   \* history: follows and unfollows that committed after its read
    late      \* history: posts that committed after its read

jobState == <<job, listed, todo, runs>>
history == <<calm, missed, late>>
warmVars == <<vars, jobState, history>>

JobStage == {"idle", "follows", "posts", "resetTimelines", "resetFollowing", "resetCounts",
             "resetCelebrityPosts", "users", "timeline", "following", "count", "celebrityPosts",
             "done", "failed"}

Listed == [count : [Author -> Nat], follows : SUBSET (User \X Author), posts : SUBSET Post]

\* The accounts in the order of ListUsers.
Accounts == SetToSeq(User \union Author)

NothingListed == [count |-> [a \in Author |-> 0], follows |-> {}, posts |-> {}]

WarmTypeOK ==
    /\ TypeOK
    /\ job \in JobStage
    /\ listed \in Listed
    /\ todo \in Seq(User \union Author)
    /\ runs \in 0..MaxRuns
    /\ calm \in BOOLEAN
    /\ missed \in SUBSET (User \X Author)
    /\ late \in SUBSET Post

Few(ps) == {qs \in SUBSET ps : Cardinality(qs) <= MaxTimelineLen}

\* A database filled by the seeding scripts, which publish nothing, and Redis
\* flushed, cold or with what lost events, unfollows, crossings and failed runs of
\* the job have left in it.
WarmInit ==
    /\ follows \in SUBSET (User \X Author)
    /\ author \in UNION {[1..n -> Author] : n \in 0..MaxSeeded}
    /\ ever = follows
    /\ unsent = [c \in Channel |-> <<>>]
    /\ log = [c \in Channel |-> <<>>]
    /\ work = [c \in Channel |-> NoWork]
    /\ timeline \in [User -> Few(DOMAIN author)]
    /\ celebrityPosts \in Few(DOMAIN author)
    /\ following \in [User -> SUBSET Author]
    /\ count = [a \in Author |-> -1]
    /\ owed = [u \in User |-> {p \in DOMAIN author : <<u, author[p]>> \in follows}]
    /\ changes = 0
    /\ job = "idle"
    /\ listed = NothingListed
    /\ todo = <<>>
    /\ runs = 0
    /\ calm = FALSE
    /\ missed = {}
    /\ late = {}

-----------------------------------------------------------------------------
(* The job. *)

JobAt(s) == job = s
JobGo(s) == job' = s

\* ListUsers.
ListUsers ==
    /\ job \in {"idle", "done", "failed"}
    /\ runs < MaxRuns
    /\ runs' = runs + 1
    /\ JobGo("follows")
    /\ listed' = [NothingListed EXCEPT !.count = [a \in Author |-> FollowerCount(a)]]
    /\ calm' = \A a \in Author : Quiet(a)
    /\ missed' = {}
    /\ late' = {}
    /\ UNCHANGED <<vars, todo>>

\* ListFollows.
ListFollows ==
    /\ JobAt("follows")
    /\ JobGo("posts")
    /\ listed' = [listed EXCEPT !.follows = follows]
    /\ UNCHANGED <<vars, todo, runs, history>>

\* RecentPostsPerAuthor; the flag -reset decides what comes next.
RecentPostsPerAuthor ==
    /\ JobAt("posts")
    /\ JobGo("resetTimelines") \/ JobGo("users")
    /\ listed' = [listed EXCEPT !.posts =
                    UNION {Newest(Max({BackfillCount, MaxTimelineLen}), PostsOf(a)) : a \in Author}]
    /\ todo' = Accounts
    /\ UNCHANGED <<vars, runs, history>>

\* DeleteWarmableKeys: pattern by pattern, and the celebrity posts last.  A SCAN
\* and the DEL of its keys are one step: a key made between them is as good as
\* made after them.
ResetTimelines ==
    /\ JobAt("resetTimelines")
    /\ JobGo("resetFollowing")
    /\ timeline' = [u \in User |-> {}]
    /\ UNCHANGED <<database, unsent, log, work, celebrityPosts, following, count, owed, changes>>
    /\ UNCHANGED <<listed, todo, runs, history>>

ResetFollowing ==
    /\ JobAt("resetFollowing")
    /\ JobGo("resetCounts")
    /\ following' = [u \in User |-> {}]
    /\ UNCHANGED <<database, unsent, log, work, timeline, celebrityPosts, count, owed, changes>>
    /\ UNCHANGED <<listed, todo, runs, history>>

ResetCounts ==
    /\ JobAt("resetCounts")
    /\ JobGo("resetCelebrityPosts")
    /\ count' = [a \in Author |-> -1]
    /\ UNCHANGED <<database, unsent, log, work, timeline, celebrityPosts, following, owed, changes>>
    /\ UNCHANGED <<listed, todo, runs, history>>

ResetCelebrityPosts ==
    /\ JobAt("resetCelebrityPosts")
    /\ JobGo("users")
    /\ celebrityPosts' = {}
    /\ UNCHANGED <<database, unsent, log, work, timeline, following, count, owed, changes>>
    /\ UNCHANGED <<listed, todo, runs, history>>

\* MUTANT: a celebrity has more followers than the threshold, not as many.
CelebritiesAbove == {a \in Author : listed.count[a] > Threshold}

\* The accounts that Run takes for celebrities: is_celebrity is the same
\* comparison (SocialGraph's CountMatchesFollowers).
Celebrities == {a \in Author : ~ShouldFanoutOnWrite(listed.count[a])}

FolloweesOf(u) == {a \in Author : <<u, a>> \in listed.follows}

\* MUTANT: the posts of celebrities are written to the timelines too.
TimelinePostsOfAll(u) ==
    Newest(MaxTimelineLen, {p \in listed.posts : author[p] \in FolloweesOf(u)})

\* newestPosts of the followees who are no celebrities.
TimelinePosts(u) ==
    Newest(MaxTimelineLen, {p \in listed.posts : author[p] \in FolloweesOf(u) \ Celebrities})

\* newestContents of all celebrities together.
CelebrityNewest ==
    Newest(MaxTimelineLen, {p \in listed.posts : author[p] \in Celebrities})

\* WarmUsers writes account by account.  The commands of a pipeline run in order,
\* but it is no transaction.  An account that is no User here has no lists that
\* anybody reads, and one that is no Author has no count: those writes are left out.
Writing(s) ==
    /\ JobAt(s)
    /\ todo # <<>>
    /\ UNCHANGED <<database, unsent, log, work, celebrityPosts, owed, changes,
                   listed, runs, history>>

\* DEL timeline following.
DeleteUser ==
    /\ Writing("users")
    /\ Head(todo) \in User
    /\ JobGo("timeline")
    /\ timeline' = [timeline EXCEPT ![Head(todo)] = {}]
    /\ following' = [following EXCEPT ![Head(todo)] = {}]
    /\ UNCHANGED <<count, todo>>

\* ZADD of the posts and trim, in one step: between them the list is only longer.
WarmTimeline ==
    /\ Writing("timeline")
    /\ JobGo("following")
    /\ timeline' = [timeline EXCEPT ![Head(todo)] = Trimmed(@ \union TimelinePosts(Head(todo)))]
    /\ UNCHANGED <<following, count, todo>>

\* SADD of the celebrities.
WarmFollowing ==
    /\ Writing("following")
    /\ JobGo("count")
    /\ following' = [following EXCEPT ![Head(todo)] =
                       @ \union (FolloweesOf(Head(todo)) \intersect Celebrities)]
    /\ UNCHANGED <<timeline, count, todo>>

\* SET of the follower count that was read.
WarmCount ==
    /\ \/ Writing("count")
       \/ Writing("users") /\ Head(todo) \notin User
    /\ JobGo("users")
    /\ count' = [a \in Author |-> IF a = Head(todo) THEN listed.count[a] ELSE count[a]]
    /\ todo' = Tail(todo)
    /\ UNCHANGED <<timeline, following>>

UsersWarmed ==
    /\ JobAt("users")
    /\ todo = <<>>
    /\ JobGo("celebrityPosts")
    /\ UNCHANGED <<vars, listed, todo, runs, history>>

\* ReplaceCelebrityPosts: DEL, ZADD and trim in one transaction.
ReplaceCelebrityPosts ==
    /\ JobAt("celebrityPosts")
    /\ JobGo("done")
    /\ celebrityPosts' = CelebrityNewest
    /\ listed' = NothingListed
    /\ UNCHANGED <<database, unsent, log, work, timeline, following, count, owed, changes>>
    /\ UNCHANGED <<todo, runs, history>>

\* A read or a write fails, or the job is stopped: what it wrote stays.
JobFails ==
    /\ job \notin {"idle", "done", "failed"}
    /\ JobGo("failed")
    /\ listed' = NothingListed
    /\ todo' = <<>>
    /\ UNCHANGED <<vars, runs, history>>

Job ==
    \/ ListUsers \/ ListFollows \/ RecentPostsPerAuthor
    \/ ResetTimelines \/ ResetFollowing \/ ResetCounts \/ ResetCelebrityPosts
    \/ DeleteUser \/ WarmTimeline \/ WarmFollowing \/ WarmCount
    \/ UsersWarmed \/ ReplaceCelebrityPosts \/ JobFails

\* Everything else goes on; what commits after the job's read is noted.
Others ==
    /\ Next
    /\ Len(author') + changes' <= MaxCommits
    /\ UNCHANGED jobState
    /\ calm' = (calm /\ <<database, unsent, log, work>>' = <<database, unsent, log, work>>)
    /\ missed' = IF job \in {"idle", "follows", "done", "failed"} THEN missed
                 ELSE missed \union (follows \ follows') \union (follows' \ follows)
    /\ late' = IF job \in {"idle", "follows", "posts", "done", "failed"} THEN late
               ELSE late \union (DOMAIN author' \ DOMAIN author)

WarmNext == Job \/ Others

WarmSafety == WarmInit /\ [][WarmNext]_warmVars

-----------------------------------------------------------------------------
(* The baseline: the same sources from the database. *)

IsCelebrity(a) == ~ShouldFanoutOnWrite(FollowerCount(a))

SqlNormal(u) ==
    Newest(MaxTimelineLen, {p \in DOMAIN author : /\ <<u, author[p]>> \in follows
                                                  /\ ~IsCelebrity(author[p])})

SqlCelebrity == Newest(MaxTimelineLen, {p \in DOMAIN author : IsCelebrity(author[p])})

SqlFollowed(u) == {a \in Author : <<u, a>> \in follows /\ IsCelebrity(a)}

-----------------------------------------------------------------------------
(* Properties. *)

\* After a run that nothing disturbed, the keys hold what the baseline reads
\* from the database, whatever they held before: leftovers of unfollows, posts a
\* crossing lost, the remains of a run that failed (postgres.go:11-13).
RebuiltIsBaseline ==
    JobAt("done") /\ calm =>
        /\ celebrityPosts = SqlCelebrity
        /\ \A u \in User : timeline[u] = SqlNormal(u) /\ following[u] = SqlFollowed(u)

\* Beside a working worker a run that ends loses no post and no marker, and
\* brings none back, but of what committed between its reads and its end.
DamageIsOverlap ==
    \A u \in User, a \in Author :
        JobAt("done") /\ Quiet(a) /\ <<u, a>> \notin missed =>
            IF <<u, a>> \in follows
            THEN \A p \in (owed[u] \intersect PostsOf(a)) \union Newest(BackfillCount, PostsOf(a)) :
                    p \in late \/ Served(u, p)
            ELSE a \notin following[u]
===============================================================================
