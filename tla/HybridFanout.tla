----------------------------- MODULE HybridFanout -----------------------------
(***************************************************************************)
(* What the fanout worker does to Redis                                    *)
(* (fanout/processor.go, timeline/redis.go, repository/postgres.go), with  *)
(* the database its events come from and the candidates the feed reads     *)
(* (candidate/redis.go, feedserver/server.go).                             *)
(*                                                                         *)
(* Posts are published and users follow and unfollow while the worker      *)
(* applies older events: a handler reads the database as it is then, one   *)
(* round trip at a time.  The events of one topic and author are handled   *)
(* one after another, at least once, as members of the group do it; the    *)
(* handler of a worker that was expelled (FanoutConsumer's EffectsInOrder) *)
(* is left out.  The post and the follow events of an author are handled   *)
(* side by side.                                                           *)
(*                                                                         *)
(* Every event is delivered here; events lost after their commit are in    *)
(* SocialGraph (PublishLost) and PostCache (PublishCreated).  Deletes are  *)
(* PostCache's subject.                                                    *)
(***************************************************************************)
EXTENDS Integers, Sequences, FiniteSets, SequencesExt

CONSTANTS
    User,
    Author,
    Star,           \* the authors with a crowd of followers outside the model
    Crowd,          \* its size
    Threshold,      \* CELEBRITY_FOLLOWER_THRESHOLD
    MaxTimelineLen, \* MAX_TIMELINE_LEN
    BackfillCount,  \* BACKFILL_COUNT
    Reordering,     \* whether overlapping requests may publish out of order
    MaxPosts,       \* bound: posts
    MaxChanges      \* bound: follows and unfollows

ASSUME ConstantsAssumption ==
    /\ IsFiniteSet(User)
    /\ Star \subseteq Author
    /\ Crowd \in Nat
    /\ Threshold \in Nat \ {0}
    /\ MaxTimelineLen \in Nat \ {0}
    /\ BackfillCount \in Nat
    /\ Reordering \in BOOLEAN
    /\ MaxPosts \in Nat
    /\ MaxChanges \in Nat

VARIABLES
    follows,    \* table follows: pairs <<user, author>>
    author,     \* table posts: the author of each post, in order of creation
    unsent,     \* per channel, the events whose change committed, not yet published
    log,        \* per channel, the events published and not yet committed by the group
    work,       \* per channel, where the worker is with the first event of the log
    timeline,   \* timeline:{userId}
    celebrityPosts,  \* celebrity_posts:global
    following,  \* following:celebrities:{userId}
    count,      \* fanout:follower_count:{authorId}, -1 when there is no key
    owed,       \* history: per user, the posts of authors followed ever since
    ever,       \* history: the pairs that follows has ever held
    changes     \* bound counter

database == <<follows, author, ever>>
cache == <<timeline, celebrityPosts, following, count>>
vars == <<database, unsent, log, work, cache, owed, changes>>

\* A channel is what the key of an event selects in a topic.
Channel == Author \X {"post", "follow"}
AuthorOf(c) == c[1]

Post == 1..MaxPosts

Event == [kind : {"PostCreated"}, post : Post]
           \union [kind : {"FollowCreated", "FollowDeleted"}, user : User]

Stage == {"idle", "invalidate", "cached", "query", "store", "celebrity", "followers",
          "fanout", "mark", "recent", "backfill", "unmark", "invalidateAfter", "applied"}

Work == [stage : Stage,
         count : Nat,           \* the follower count read
         users : SUBSET User,   \* the followers still to write
         posts : SUBSET Post]   \* the recent posts to write

Working(s) == [stage |-> s, count |-> 0, users |-> {}, posts |-> {}]

NoWork == Working("idle")

TypeOK ==
    /\ follows \in SUBSET (User \X Author)
    /\ author \in Seq(Author)
    /\ ever \in SUBSET (User \X Author)
    /\ unsent \in [Channel -> Seq(Event)]
    /\ log \in [Channel -> Seq(Event)]
    /\ work \in [Channel -> Work]
    /\ \A c \in Channel : log[c] = <<>> => work[c] = NoWork
    /\ timeline \in [User -> SUBSET Post]
    /\ \A u \in User : Cardinality(timeline[u]) <= MaxTimelineLen
    /\ celebrityPosts \in SUBSET Post
    /\ Cardinality(celebrityPosts) <= MaxTimelineLen
    /\ following \in [User -> SUBSET Author]
    /\ count \in [Author -> Nat \union {-1}]
    /\ owed \in [User -> SUBSET Post]
    /\ changes \in 0..MaxChanges

Init ==
    /\ follows = {}
    /\ author = <<>>
    /\ ever = {}
    /\ unsent = [c \in Channel |-> <<>>]
    /\ log = [c \in Channel |-> <<>>]
    /\ work = [c \in Channel |-> NoWork]
    /\ timeline = [u \in User |-> {}]
    /\ celebrityPosts = {}
    /\ following = [u \in User |-> {}]
    /\ count = [a \in Author |-> -1]
    /\ owed = [u \in User |-> {}]
    /\ changes = 0

FollowersOf(a) == {u \in User : <<u, a>> \in follows}

Outside(a) == IF a \in Star THEN Crowd ELSE 0

\* users.follower_count (SocialGraph's CountMatchesFollowers).
FollowerCount(a) == Cardinality(FollowersOf(a)) + Outside(a)

PostsOf(a) == {p \in DOMAIN author : author[p] = a}

\* The n newest of a set of posts: a post's number orders it by created_at.
Newest(n, ps) == {p \in ps : Cardinality({q \in ps : q > p}) < n}

\* MUTANT: ZREMRANGEBYRANK 0 -maxLen-2.
TrimmedLate(ps) == Newest(MaxTimelineLen + 1, ps)

\* MUTANT: ZREMRANGEBYRANK maxLen -1, which removes the newest.
TrimmedNewest(ps) == {p \in ps : Cardinality({q \in ps : q < p}) < MaxTimelineLen}

\* ZADD, and ZREMRANGEBYRANK 0 -maxLen-1.
Trimmed(ps) == Newest(MaxTimelineLen, ps)

-----------------------------------------------------------------------------
(* The database, and the events of its changes. *)

Committed(c, e) == unsent' = [unsent EXCEPT ![c] = Append(@, e)]

\* CreatePost.
CreatePost(a) ==
    /\ Len(author) < MaxPosts
    /\ author' = Append(author, a)
    /\ Committed(<<a, "post">>, [kind |-> "PostCreated", post |-> Len(author')])
    /\ owed' = [u \in User |-> IF u \in FollowersOf(a) THEN owed[u] \union {Len(author')}
                                                       ELSE owed[u]]
    /\ UNCHANGED <<follows, ever, log, work, cache, changes>>

\* A follow that commits (SocialGraph's Commit).
Follow(u, a) ==
    /\ changes < MaxChanges
    /\ changes' = changes + 1
    /\ <<u, a>> \notin follows
    /\ follows' = follows \union {<<u, a>>}
    /\ ever' = ever \union {<<u, a>>}
    /\ Committed(<<a, "follow">>, [kind |-> "FollowCreated", user |-> u])
    /\ UNCHANGED <<author, log, work, cache, owed>>

\* An unfollow that commits.
Unfollow(u, a) ==
    /\ changes < MaxChanges
    /\ changes' = changes + 1
    /\ <<u, a>> \in follows
    /\ follows' = follows \ {<<u, a>>}
    /\ Committed(<<a, "follow">>, [kind |-> "FollowDeleted", user |-> u])
    /\ owed' = [owed EXCEPT ![u] = @ \ PostsOf(a)]
    /\ UNCHANGED <<author, ever, log, work, cache>>

\* A request publishes after its commit; another one may overtake it.
Publish(c) ==
    /\ \E i \in DOMAIN unsent[c] :
         /\ Reordering \/ i = 1
         /\ log' = [log EXCEPT ![c] = Append(@, unsent[c][i])]
         /\ unsent' = [unsent EXCEPT ![c] = RemoveAt(@, i)]
    /\ UNCHANGED <<database, work, cache, owed, changes>>

-----------------------------------------------------------------------------
(* The worker.  Handlers of the same channel run one at a time. *)

At(c, s) == work[c].stage = s
GoWith(c, w) == work' = [work EXCEPT ![c] = w]
Go(c, s) == GoWith(c, Working(s))
Current(c) == Head(log[c])

\* MUTANT: a celebrity has more followers than the threshold, not as many.
FanoutAtThreshold(n) == n <= Threshold

ShouldFanoutOnWrite(n) == n < Threshold

\* Where the handler goes once it knows the count n.
Decide(c, n) ==
    IF Current(c).kind = "PostCreated"
    THEN IF ShouldFanoutOnWrite(n) THEN "followers" ELSE "celebrity"
    ELSE IF ShouldFanoutOnWrite(n) THEN "recent" ELSE "mark"

\* Process dispatches on the event.
Process(c) ==
    /\ At(c, "idle")
    /\ log[c] # <<>>
    /\ Go(c, CASE Current(c).kind = "PostCreated"   -> "cached"
               [] Current(c).kind = "FollowCreated" -> "invalidate"
               [] Current(c).kind = "FollowDeleted" -> "unmark")
    /\ UNCHANGED <<database, unsent, log, cache, owed, changes>>

\* InvalidateFollowerCount before the count is read ...
Invalidate(c) ==
    /\ At(c, "invalidate")
    /\ count' = [count EXCEPT ![AuthorOf(c)] = -1]
    /\ Go(c, "cached")
    /\ UNCHANGED <<database, unsent, log, timeline, celebrityPosts, following, owed, changes>>

\* ... and after the marker is removed.
InvalidateAfter(c) ==
    /\ At(c, "invalidateAfter")
    /\ count' = [count EXCEPT ![AuthorOf(c)] = -1]
    /\ Go(c, "applied")
    /\ UNCHANGED <<database, unsent, log, timeline, celebrityPosts, following, owed, changes>>

\* CachedFollowerCount.
Cached(c) ==
    /\ At(c, "cached")
    /\ Go(c, IF count[AuthorOf(c)] = -1 THEN "query" ELSE Decide(c, count[AuthorOf(c)]))
    /\ UNCHANGED <<database, unsent, log, cache, owed, changes>>

\* FollowerCount.
Query(c) ==
    /\ At(c, "query")
    /\ GoWith(c, [stage |-> "store", count |-> FollowerCount(AuthorOf(c)), users |-> {}, posts |-> {}])
    /\ UNCHANGED <<database, unsent, log, cache, owed, changes>>

\* CacheFollowerCount.
Store(c) ==
    /\ At(c, "store")
    /\ count' = [count EXCEPT ![AuthorOf(c)] = work[c].count]
    /\ Go(c, Decide(c, work[c].count))
    /\ UNCHANGED <<database, unsent, log, timeline, celebrityPosts, following, owed, changes>>

\* The TTL of a cached count passes.
CountExpires(a) ==
    /\ count[a] # -1
    /\ count' = [count EXCEPT ![a] = -1]
    /\ UNCHANGED <<database, unsent, log, work, timeline, celebrityPosts, following, owed, changes>>

\* AddCelebrityPost.
AddCelebrityPost(c) ==
    /\ At(c, "celebrity")
    /\ celebrityPosts' = Trimmed(celebrityPosts \union {Current(c).post})
    /\ Go(c, "applied")
    /\ UNCHANGED <<database, unsent, log, timeline, following, count, owed, changes>>

\* FollowerIDs.
FollowerIDs(c) ==
    /\ At(c, "followers")
    /\ GoWith(c, [stage |-> "fanout", count |-> 0, users |-> FollowersOf(AuthorOf(c)), posts |-> {}])
    /\ UNCHANGED <<database, unsent, log, cache, owed, changes>>

\* FanoutPost, one follower at a time: the commands of a pipeline are no
\* transaction, but a follower's ZADD and trim run together.
FanoutPost(c) ==
    /\ At(c, "fanout")
    /\ \E u \in work[c].users :
         /\ timeline' = [timeline EXCEPT ![u] = Trimmed(@ \union {Current(c).post})]
         /\ GoWith(c, [stage |-> "fanout", count |-> 0, users |-> work[c].users \ {u}, posts |-> {}])
    /\ UNCHANGED <<database, unsent, log, celebrityPosts, following, count, owed, changes>>

FanoutDone(c) ==
    /\ At(c, "fanout")
    /\ work[c].users = {}
    /\ Go(c, "applied")
    /\ UNCHANGED <<database, unsent, log, cache, owed, changes>>

\* AddCelebrityFollow.
AddCelebrityFollow(c) ==
    /\ At(c, "mark")
    /\ following' = [following EXCEPT ![Current(c).user] = @ \union {AuthorOf(c)}]
    /\ Go(c, "applied")
    /\ UNCHANGED <<database, unsent, log, timeline, celebrityPosts, count, owed, changes>>

\* RemoveCelebrityFollow, whether or not the followee is a celebrity now.
RemoveCelebrityFollow(c) ==
    /\ At(c, "unmark")
    /\ following' = [following EXCEPT ![Current(c).user] = @ \ {AuthorOf(c)}]
    /\ Go(c, "invalidateAfter")
    /\ UNCHANGED <<database, unsent, log, timeline, celebrityPosts, count, owed, changes>>

\* RecentPosts.
RecentPosts(c) ==
    /\ At(c, "recent")
    /\ GoWith(c, [stage |-> "backfill", count |-> 0, users |-> {},
                  posts |-> Newest(BackfillCount, PostsOf(AuthorOf(c)))])
    /\ UNCHANGED <<database, unsent, log, cache, owed, changes>>

\* MUTANT: the backfill replaces the timeline.
BackfillReplacing(c) ==
    /\ At(c, "backfill")
    /\ timeline' = [timeline EXCEPT ![Current(c).user] = Trimmed(work[c].posts)]
    /\ Go(c, "applied")
    /\ UNCHANGED <<database, unsent, log, celebrityPosts, following, count, owed, changes>>

\* Backfill.
Backfill(c) ==
    /\ At(c, "backfill")
    /\ timeline' = [timeline EXCEPT ![Current(c).user] = Trimmed(@ \union work[c].posts)]
    /\ Go(c, "applied")
    /\ UNCHANGED <<database, unsent, log, celebrityPosts, following, count, owed, changes>>

\* Process returned nil and the offset is committed.
Done(c) ==
    /\ At(c, "applied")
    /\ log' = [log EXCEPT ![c] = Tail(@)]
    /\ Go(c, "idle")
    /\ UNCHANGED <<database, unsent, cache, owed, changes>>

\* MUTANT: the offset was committed before the record was processed.
StartOverWithNext(c) ==
    /\ ~At(c, "idle")
    /\ log' = [log EXCEPT ![c] = Tail(@)]
    /\ Go(c, "idle")
    /\ UNCHANGED <<database, unsent, cache, owed, changes>>

\* A call fails and Process is retried, or the worker dies before the commit
\* and the record comes again: the handler starts over.
StartOver(c) ==
    /\ ~At(c, "idle")
    /\ Go(c, "idle")
    /\ UNCHANGED <<database, unsent, log, cache, owed, changes>>

Step(c) ==
    \/ Process(c) \/ Invalidate(c) \/ InvalidateAfter(c) \/ Cached(c) \/ Query(c) \/ Store(c)
    \/ AddCelebrityPost(c) \/ FollowerIDs(c) \/ FanoutPost(c) \/ FanoutDone(c)
    \/ AddCelebrityFollow(c) \/ RemoveCelebrityFollow(c) \/ RecentPosts(c) \/ Backfill(c)
    \/ Done(c)

Next ==
    \/ \E a \in Author : CreatePost(a) \/ CountExpires(a)
    \/ \E u \in User, a \in Author : Follow(u, a) \/ Unfollow(u, a)
    \/ \E c \in Channel : Publish(c) \/ Step(c) \/ StartOver(c)

Safety == Init /\ [][Next]_vars

-----------------------------------------------------------------------------
(* What a feed is made of. *)

\* What selectPosts keeps of the celebrity stream: the posts by authors in the
\* viewer's followed-celebrity set.
CelebrityPostsFor(u) == {p \in celebrityPosts : author[p] \in following[u]}

\* The candidates of Load that selectPosts keeps.
Candidates(u) == timeline[u] \union CelebrityPostsFor(u)

\* A post is off a full list when the list holds MaxTimelineLen newer ones.
Displaced(p, ps) == Cardinality({q \in ps : q > p}) >= MaxTimelineLen

\* The list that an author's posts are read from.
ListFor(u, a) == IF ShouldFanoutOnWrite(FollowerCount(a)) THEN timeline[u] ELSE celebrityPosts

Served(u, p) == p \in Candidates(u) \/ Displaced(p, ListFor(u, author[p]))

\* Every event of the author has been published and applied.
Quiet(a) == \A t \in {"post", "follow"} : unsent[<<a, t>>] = <<>> /\ log[<<a, t>>] = <<>>

-----------------------------------------------------------------------------
(* Properties. *)

\* No gap between the fanout of a post and the backfill of a follow: when the
\* events of an author are all applied, every follower's feed has each post made
\* while following, and the newest BackfillCount, whatever order the handlers'
\* reads of follows and posts came in (processor.go:78-82, 103-107).
NoGap ==
    \A u \in User, a \in Author :
        <<u, a>> \in follows /\ Quiet(a) =>
            \A p \in (owed[u] \intersect PostsOf(a)) \union Newest(BackfillCount, PostsOf(a)) :
                Served(u, p)

\* The part of it that no crossing of the threshold may break: a follower's feed
\* has each post made while following, from the timeline or merged at read time
\* (docs/decisions/0002, "Decision").
FollowersServed ==
    \A u \in User, a \in Author :
        <<u, a>> \in follows /\ Quiet(a) => \A p \in owed[u] \intersect PostsOf(a) : Served(u, p)

\* When the events of an author are all applied, the celebrity marker is there
\* only for the followers: an unfollow removes it (docs/architecture.md:260-261),
\* whatever the cached counts say by then and the handlers decided on them before
\* (processor.go:108-114).
MarkersAreFollows ==
    \A u \in User, a \in Author : Quiet(a) /\ a \in following[u] => <<u, a>> \in follows

\* HybridFanout as seen by Feed: the authors with events still to apply, ...
Behind == {a \in Author : ~Quiet(a)}

\* ... the unfollows among those, ...
Leaving ==
    {pair \in User \X Author :
        LET c == <<pair[2], "follow">>
        IN  [kind |-> "FollowDeleted", user |-> pair[1]] \in Range(log[c] \o unsent[c])}

\* ... what the feeds can show, and what newer posts keep off their lists.
Shown == [u \in User |-> Candidates(u)]
Past == [u \in User |-> {p \in DOMAIN author : Displaced(p, ListFor(u, author[p]))}]

Promise == INSTANCE Feed
           WITH behind <- Behind, leaving <- Leaving, shown <- Shown, past <- Past

\* The handlers, whatever they read meanwhile, fail and repeat, and the lists with
\* their trims keep the promise of Feed: nobody loses a post but to newer ones or by
\* an unfollow, nobody is shown an author never followed, and the feeds catch up.
PromiseKept == Promise!Spec

===============================================================================
