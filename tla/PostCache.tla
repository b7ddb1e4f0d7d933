------------------------------ MODULE PostCache ------------------------------
(***************************************************************************)
(* The life of a post between post-service, which owns the row and writes  *)
(* the Redis cache post:{id} and the tombstones set                        *)
(* (postserver/server.go, cache/redis.go, repository/postgres.go), the     *)
(* feed-service hydrator, which reads and backfills the same cache         *)
(* (hydrator/redis_post.go), and the worker, which writes the tombstone    *)
(* again when it consumes PostDeleted (timeline/redis.go).                 *)
(*                                                                         *)
(* One element of Request is a request in flight in some instance of       *)
(* either service; a hydration runs its GetPosts call inside itself.  Each *)
(* round trip to Redis or Postgres is a step of its own.                   *)
(*                                                                         *)
(* Time is counted in units much longer than a request: every lifetime     *)
(* shrinks at Tick, and a request in flight meets at most one Tick.        *)
(***************************************************************************)
EXTENDS Integers

CONSTANTS
    Post,
    Request,
    Batch,             \* bound: the sets of IDs that GetPosts and Hydrate are asked for
    PostCacheTTL,      \* POST_CACHE_TTL of post-service
    FeedCacheTTL,      \* FEED_POST_CACHE_TTL of feed-service
    WarmCacheTTL,      \* the flag -post-ttl of the warm-cache job
    PostTombstoneTTL,  \* POST_TOMBSTONE_TTL of post-service
    TombstoneTTL       \* TOMBSTONE_TTL of the worker

CacheLifetimes == {PostCacheTTL, FeedCacheTTL, WarmCacheTTL}
TombstoneLifetimes == {PostTombstoneTTL, TombstoneTTL}

ASSUME BatchAssumption == Batch \subseteq (SUBSET Post) \ {{}}

\* The defaults are 6h and 24h; the configuration does not compare them.
ASSUME LifetimesAssumption ==
    /\ CacheLifetimes \subseteq Nat \ {0}
    /\ TombstoneLifetimes \subseteq Nat
    /\ \A c \in CacheLifetimes, d \in TombstoneLifetimes : c < d

VARIABLES
    row,         \* public.posts: "absent", "live", or "deleted" (deleted_at is set)
    cacheLeft,   \* what is left of the life of post:{id}, 0 when there is no key
    tombstones,  \* the set tombstones
    tombLeft,    \* what is left of the life of the whole set
    published,   \* the post-events log, as the set of its events
    stage,       \* where each request is
    call,        \* what each request is and has gathered
    aged,        \* the requests that have met a Tick
    hidden       \* history: posts whose tombstone was written at some time

redis == <<cacheLeft, tombstones, tombLeft>>
vars == <<row, redis, published, stage, call, aged, hidden>>

Stage == {"idle", "create", "set", "publishCreated", "delete", "tombstone",
          "publishDeleted", "filter", "mget", "lookup", "query", "refill",
          "backfill", "reply"}

Call == [op : {"create", "delete", "get", "hydrate", "warm"},
         missing : SUBSET Post,   \* the posts still to resolve
         found : SUBSET Post,     \* what a hydration found itself in the cache
         response : SUBSET Post,  \* what GetPosts found
         promised : SUBSET Post,  \* history: asked for, and hidden at the start
         owed : SUBSET Post]      \* history: asked for, and live at the start

NoCall == [op |-> "get", missing |-> {}, found |-> {}, response |-> {},
           promised |-> {}, owed |-> {}]

TypeOK ==
    /\ row \in [Post -> {"absent", "live", "deleted"}]
    /\ cacheLeft \in [Post -> Nat]
    /\ \A p \in Post : \E c \in CacheLifetimes : cacheLeft[p] <= c
    /\ tombstones \in SUBSET Post
    /\ tombLeft \in Nat
    /\ \E d \in TombstoneLifetimes : tombLeft <= d
    /\ published \in SUBSET ({"PostCreated", "PostDeleted"} \X Post)
    /\ stage \in [Request -> Stage]
    /\ call \in [Request -> Call]
    /\ aged \in SUBSET Request
    /\ hidden \in SUBSET Post

Init ==
    /\ row = [p \in Post |-> "absent"]
    /\ cacheLeft = [p \in Post |-> 0]
    /\ tombstones = {}
    /\ tombLeft = 0
    /\ published = {}
    /\ stage = [q \in Request |-> "idle"]
    /\ call = [q \in Request |-> NoCall]
    /\ aged = {}
    /\ hidden = {}

Live == {p \in Post : row[p] = "live"}
Cached == {p \in Post : cacheLeft[p] > 0}

Enter(q, s) == stage' = [stage EXCEPT ![q] = s]

\* The request is over and leaves nothing behind.
End(q) ==
    /\ Enter(q, "idle")
    /\ call' = [call EXCEPT ![q] = NoCall]
    /\ aged' = aged \ {q}

\* SET post:{id} for the posts of ps, each with a full lifetime (DEL with 0).
Fill(ps, ttl) == cacheLeft' = [p \in Post |-> IF p \in ps THEN ttl ELSE cacheLeft[p]]

-----------------------------------------------------------------------------
\* A request for the posts ps arrives and starts with its stage s.
Arrive(q, o, ps, s) ==
    /\ stage[q] = "idle"
    /\ call' = [call EXCEPT ![q] =
                  [op |-> o, missing |-> ps, found |-> {}, response |-> {},
                   promised |-> ps \intersect hidden, owed |-> ps \intersect Live]]
    /\ Enter(q, s)
    /\ UNCHANGED <<row, redis, published, aged, hidden>>

\* A run of the warm-cache job reads rows and then writes their posts into the
\* cache: the steps are those of Query and Refill, with a lifetime of its own.
Warm(q) == \E ps \in Batch : Arrive(q, "warm", ps, "query")

\* CreatePost and DeletePost name one post; GetPosts and Hydrate a set of IDs
\* (those in timelines outlive the posts).
Begin(q) ==
    \/ \E p \in Post : row[p] = "absent" /\ Arrive(q, "create", {p}, "create")
    \/ \E p \in Post : Arrive(q, "delete", {p}, "delete")
    \/ \E ps \in Batch : \/ Arrive(q, "get", ps, "lookup")
                        \/ Arrive(q, "hydrate", ps, "filter")
    \/ Warm(q)

\* The request ends without an answer: an error is returned, its deadline
\* passes, or the process dies.  The steps it still had to take are lost.
Abort(q) ==
    /\ stage[q] # "idle"
    /\ End(q)
    /\ UNCHANGED <<row, redis, published, hidden>>

-----------------------------------------------------------------------------
(* CreatePost. *)

\* The insert commits; the database gives every post an ID of its own.
Create(q) ==
    /\ stage[q] = "create"
    /\ \A p \in call[q].missing : row[p] = "absent"
    /\ row' = [p \in Post |-> IF p \in call[q].missing THEN "live" ELSE row[p]]
    /\ Enter(q, "set")
    /\ UNCHANGED <<redis, published, call, aged, hidden>>

\* The best-effort cache write: an error is logged and the request goes on.
Set(q) ==
    /\ stage[q] = "set"
    /\ Fill(call[q].missing, PostCacheTTL) \/ UNCHANGED cacheLeft
    /\ Enter(q, "publishCreated")
    /\ UNCHANGED <<row, tombstones, tombLeft, published, call, aged, hidden>>

\* The best-effort event, and the answer.
PublishCreated(q) ==
    /\ stage[q] = "publishCreated"
    /\ \/ published' = published \union ({"PostCreated"} \X call[q].missing)
       \/ UNCHANGED published
    /\ End(q)
    /\ UNCHANGED <<row, redis, hidden>>

-----------------------------------------------------------------------------
(* DeletePost. *)

\* The row is locked, found live and the requester's own, and marked.  Of two
\* deletes of a post one finds it; the other one, or a stranger's, aborts.
Delete(q) ==
    /\ stage[q] = "delete"
    /\ call[q].missing \subseteq Live
    /\ row' = [p \in Post |-> IF p \in call[q].missing THEN "deleted" ELSE row[p]]
    /\ Enter(q, "tombstone")
    /\ UNCHANGED <<redis, published, call, aged, hidden>>

\* MUTANT: the TTL is set only when the set is created (EXPIRE .. NX).
BuryOnce(ps, ttl) ==
    /\ tombstones' = tombstones \union ps
    /\ tombLeft' = IF tombstones = {} THEN ttl ELSE tombLeft
    /\ hidden' = hidden \union ps

\* MUTANT: the TTL is added to what is left.
BuryLonger(ps, ttl) ==
    /\ tombstones' = tombstones \union ps
    /\ tombLeft' = tombLeft + ttl
    /\ hidden' = hidden \union ps

\* SADD of the IDs and EXPIRE of the whole set, in one transaction.
Bury(ps, ttl) ==
    /\ tombstones' = tombstones \union ps
    /\ tombLeft' = ttl
    /\ hidden' = hidden \union ps

\* MUTANT: the cache is invalidated before the row is deleted.
TombstoneFirst(q) ==
    /\ stage[q] \in {"delete", "tombstone"}
    /\ Fill(call[q].missing, 0)
    /\ Bury(call[q].missing, PostTombstoneTTL)
    /\ Enter(q, IF stage[q] = "delete" THEN "delete" ELSE "publishDeleted")
    /\ UNCHANGED <<row, published, call, aged>>

\* DeleteAndTombstone: DEL, SADD and EXPIRE in one transaction, best effort.
Tombstone(q) ==
    /\ stage[q] = "tombstone"
    /\ \/ Fill(call[q].missing, 0) /\ Bury(call[q].missing, PostTombstoneTTL)
       \/ UNCHANGED <<redis, hidden>>
    /\ Enter(q, "publishDeleted")
    /\ UNCHANGED <<row, published, call, aged>>

\* The best-effort event, and the answer.
PublishDeleted(q) ==
    /\ stage[q] = "publishDeleted"
    /\ \/ published' = published \union ({"PostDeleted"} \X call[q].missing)
       \/ UNCHANGED published
    /\ End(q)
    /\ UNCHANGED <<row, redis, hidden>>

\* The worker applies PostDeleted, at any later time and more than once: it
\* adds the tombstone and leaves post:{id} alone.
AddTombstone ==
    /\ \E p \in Post : /\ <<"PostDeleted", p>> \in published
                       /\ Bury({p}, TombstoneTTL)
    /\ UNCHANGED <<row, cacheLeft, published, stage, call, aged>>

-----------------------------------------------------------------------------
(* Hydrate, and GetPosts alone or inside it. *)

\* MUTANT: a hydration trusts the cache and filters nothing.
FilterNothing(q) ==
    /\ stage[q] = "filter"
    /\ Enter(q, "mget")
    /\ UNCHANGED <<row, redis, published, call, aged, hidden>>

\* withoutTombstones.
Filter(q) ==
    /\ stage[q] = "filter"
    /\ call' = [call EXCEPT ![q].missing = @ \ tombstones]
    /\ Enter(q, IF call[q].missing \subseteq tombstones THEN "reply" ELSE "mget")
    /\ UNCHANGED <<row, redis, published, aged, hidden>>

\* MGET: what it misses goes to one GetPosts call.
MGet(q) ==
    /\ stage[q] = "mget"
    /\ call' = [call EXCEPT ![q].found = call[q].missing \intersect Cached,
                            ![q].missing = @ \ Cached]
    /\ Enter(q, IF call[q].missing \subseteq Cached THEN "reply" ELSE "lookup")
    /\ UNCHANGED <<row, redis, published, aged, hidden>>

\* Where a request goes from GetPosts: Hydrate backfills what it was given.
AfterGetPosts(q) == IF call[q].op = "hydrate" THEN "backfill" ELSE "reply"

\* GetPosts looks the posts up in the cache; when that fails it goes on with none.
Lookup(q) ==
    /\ stage[q] = "lookup"
    /\ \E hits \in {call[q].missing \intersect Cached, {}} :
         /\ call' = [call EXCEPT ![q].response = hits, ![q].missing = @ \ hits]
         /\ Enter(q, IF call[q].missing = hits THEN AfterGetPosts(q) ELSE "query")
    /\ UNCHANGED <<row, redis, published, aged, hidden>>

\* MUTANT: GetByIDs returns soft-deleted rows too.
QueryAllRows(q) ==
    /\ stage[q] = "query"
    /\ call' = [call EXCEPT ![q].response =
                  @ \union {p \in call[q].missing : row[p] # "absent"}]
    /\ Enter(q, "refill")
    /\ UNCHANGED <<row, redis, published, aged, hidden>>

\* GetByIDs: the rows that are not soft-deleted.
Query(q) ==
    /\ stage[q] = "query"
    /\ call' = [call EXCEPT ![q].response = @ \union (call[q].missing \intersect Live)]
    /\ Enter(q, "refill")
    /\ UNCHANGED <<row, redis, published, aged, hidden>>

\* SetMany of the rows read, best effort: an error may come after some of the
\* pipelined writes.
Refill(q) ==
    /\ stage[q] = "refill"
    /\ \E ps \in SUBSET (call[q].missing \intersect call[q].response) :
         Fill(ps, IF call[q].op = "warm" THEN WarmCacheTTL ELSE PostCacheTTL)
    /\ Enter(q, AfterGetPosts(q))
    /\ UNCHANGED <<row, tombstones, tombLeft, published, call, aged, hidden>>

\* backfill of all that GetPosts returned.
Backfill(q) ==
    /\ stage[q] = "backfill"
    /\ Fill(call[q].response, FeedCacheTTL)
    /\ Enter(q, "reply")
    /\ UNCHANGED <<row, tombstones, tombLeft, published, call, aged, hidden>>

\* Its pipeline fails, perhaps after some of the writes, and the hydration with it.
BackfillFails(q) ==
    /\ stage[q] = "backfill"
    /\ \E ps \in SUBSET call[q].response : Fill(ps, FeedCacheTTL)
    /\ End(q)
    /\ UNCHANGED <<row, tombstones, tombLeft, published, hidden>>

\* The answer leaves.
Reply(q) ==
    /\ stage[q] = "reply"
    /\ End(q)
    /\ UNCHANGED <<row, redis, published, hidden>>

-----------------------------------------------------------------------------
\* A unit of time passes: keys whose life ends are gone, the tombstones all at once.
Tick ==
    /\ aged = {}
    /\ cacheLeft' = [p \in Post |-> IF cacheLeft[p] = 0 THEN 0 ELSE cacheLeft[p] - 1]
    /\ tombLeft' = IF tombLeft = 0 THEN 0 ELSE tombLeft - 1
    /\ tombstones' = IF tombLeft <= 1 THEN {} ELSE tombstones
    /\ aged' = {q \in Request : stage[q] # "idle"}
    /\ UNCHANGED <<row, published, stage, call, hidden>>

Writing(q) == \/ Create(q) \/ Set(q) \/ PublishCreated(q)
              \/ Delete(q) \/ Tombstone(q) \/ PublishDeleted(q)

Reading(q) == \/ Filter(q) \/ MGet(q) \/ Lookup(q) \/ Query(q)
              \/ Refill(q) \/ Backfill(q) \/ BackfillFails(q) \/ Reply(q)

Next ==
    \/ \E q \in Request : Begin(q) \/ Abort(q) \/ Writing(q) \/ Reading(q)
    \/ AddTombstone
    \/ Tick

Safety == Init /\ [][Next]_vars

\* Requests end (they have deadlines) and time passes.
Fairness == /\ \A q \in Request : WF_vars(Abort(q) \/ Writing(q) \/ Reading(q))
            /\ WF_vars(Tick)

Spec == Safety /\ Fairness

-----------------------------------------------------------------------------
(* Properties. *)

Answer(q) == call[q].found \union call[q].response

\* A hydration that begins after the tombstone of a post was written never
\* returns the post: not from a stale post:{id} written by a read that raced the
\* delete, and not after the tombstones expired (redis_post.go:38-40,
\* docs/architecture.md:249-253).
FeedHidesDeleted ==
    \A q \in Request : stage[q] = "reply" /\ call[q].op = "hydrate"
                         => Answer(q) \intersect call[q].promised = {}

\* A stale copy of a tombstoned post is gone from the cache before the
\* tombstones are, whatever wrote it and whenever (cache/redis.go:111-114).
TombstoneOutlivesCopy ==
    \A p \in hidden : cacheLeft[p] > 0 => p \in tombstones /\ tombLeft >= cacheLeft[p]

\* Only deleted posts are ever tombstoned, so the filter drops no live post and
\* no answer lacks a post that was live all along (server.go:60-170).
LivePostsServed ==
    /\ \A p \in tombstones : row[p] = "deleted"
    /\ \A q \in Request : stage[q] = "reply" => call[q].owed \intersect Live \subseteq Answer(q)

\* A deleted post leaves the cache for ever, even when DeletePost wrote neither
\* the tombstone nor the event: nothing refreshes its copy (server.go:117-129).
DeletedLeavesCache ==
    \A p \in Post : row[p] = "deleted" ~> [](cacheLeft[p] = 0)
=============================================================================
