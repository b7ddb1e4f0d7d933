# Cascade: TLA+ models, model checking and proofs

Cascade is a social feed: users follow each other and post, a worker fans posts out into
per-user Redis timelines, and the feed service merges, ranks and pages them. This directory
holds TLA+ models of the parts of it where concurrency, failure and ordering decide whether
the feed is right, the TLC configurations that check them and the theorems TLAPS proves about
them. Paths are relative to the root of the repository.

## 1. Inventory

| Part | State it keeps | Operations | Talks to |
|---|---|---|---|
| Social graph service (Java, `services/social-graph-service`) | Postgres `users` (with the denormalized `follower_count`, `is_celebrity`) and `follows` | create user, follow, unfollow, keyset pages of followers and followees | publishes `FollowCreated`/`FollowDeleted` to Kafka `follow-events`, keyed by followee, after the commit |
| Post service (Go, `services/post-service`) | Postgres `posts` (soft delete), Redis `post:{id}`, `tombstones` | `CreatePost`, `GetPosts` (cache aside), `DeletePost` | publishes `PostCreated`/`PostDeleted` to `post-events`, keyed by author, after the commit, best effort |
| Fanout worker (Go, `services/fanout-worker`) | consumer group offsets, DLQ topics, Redis `timeline:{u}`, `celebrity_posts:global`, `following:celebrities:{u}`, `fanout:follower_count:{a}`, `tombstones` | poll, process with retries, park in the DLQ, commit; fanout, celebrity post, backfill, mark, unmark, tombstone | reads `users`, `follows`, `posts` |
| Feed service (Go, `services/feed-service`) | nothing of its own; reads the Redis keys, backfills `post:{id}` | load candidates, hydrate, load signals, rank, page | calls `GetPosts`; reads Postgres for signals |
| warm-cache (Go, `services/fanout-worker/internal/warm`) | rebuilds the worker's Redis keys | read users, follows and recent posts, optionally delete the keys, write them account by account | reads `users`, `follows`, `posts`; runs beside the worker |
| Gateway, frontend, load test, deployment | none that outlives a request | translate, display, drive, restart | the services above |

What is hard: at-least-once delivery with retries, crashes and rebalances; a database commit and
the Redis and Kafka side effects after it that may fail, be delayed or overtake each other; a
cache filled by reads that race deletes, with lifetimes; a worker whose handlers read the
database at several moments while follows and posts go on; an author's change from ordinary to
celebrity; a job that rewrites the worker's keys from an older read of the database; a feed of
pages that remembers nothing between two pages but a cursor, over scores that decay. `PROJECT.json` lists these hazards at their lines with the properties that
catch them, or with a note where none does.

What makes each part correct:

- consumer loop: no record is lost or skipped, a partition is handled by one worker, a poison
  record blocks nothing, effects of one partition come in order;
- follow service: the count and the flag are exact, no lock leaks, events match commits;
- post service and hydrator: a deleted post is not shown again, a live one is never hidden;
- processor: no post falls between a fanout and a backfill, lists stay bounded and keep the
  newest, markers only of followers;
- feed read: no interleaving with the worker hides a candidate, a post comes twice only if its own
  score fell since it was shown and is skipped only if it crossed the end of a page, and a scroll
  ends;
- warm-cache: undisturbed it rebuilds what the database says; beside a worker it spoils only what
  committed while it ran.

## 2. Modules

| Module | Models | Correspondence |
|---|---|---|
| `AtLeastOnce` | the abstract promise of a consumer: records are published, become settled (processed or parked), and only a settled prefix is acknowledged | not code: what `consumer.go`'s comments promise |
| `FanoutConsumer` | `consumer.go` and `cmd/worker/main.go`, with the Kafka group coordinator as environment | `pc` is the place in `Runner.Run`/`Handle`, `held` the record in hand, `attempts` the counter; one action per outcome of `Poll`, `Process`, the sleep, `PublishDLQ` and `Commit`; `Crash`, `Restart`, `Signal` |
| `FollowGraph` | the abstract promise of the follow service: a follow or unfollow changes the pair, the count and the flag at once and leaves one event, sent once or lost, in any order | not code: what a row lock and a transaction are for |
| `SocialGraph` | `FollowService`, `User`, `KafkaFollowEventPublisher` | a request passes the stages locking, checking, writing, publishing; `loaded` is the entity read under the row lock; `committed` and `published` are the histories that are compared |
| `PostCache` | post-service's three RPCs, the hydrator, the worker's `AddTombstone` | each Redis or Postgres round trip is a step; `cacheLeft` and `tombLeft` are the remaining lifetimes of `post:{id}` and of the one `tombstones` set; a hydration runs its `GetPosts` call inside itself |
| `Feed` | the abstract promise of a feed: follows and posts change at once, the feeds catch up with an author later; nobody loses a post but to newer ones or by an unfollow, and nobody is shown an author never followed | not code: what the feed is for |
| `HybridFanout` | `fanout/processor.go`, `timeline/redis.go`, the worker's queries, `candidate/redis.go`'s merge | per topic and author one handler at a time, each call one step; `StartOver` is a retry or a redelivery; posts are numbered by `created_at` |
| `WarmCache` (extends `HybridFanout`) | `warm/warmer.go`, the warm-up half of `timeline/redis.go`, the bulk queries of `postgres.go`, and `candidate/postgres.go` as the baseline | `job` is the place in `Warmer.Run`, `listed` what it read, `todo` the accounts left; the pipelines are no transactions: `DEL`, `ZADD` with its trim, `SADD` and `SET` of an account are a step each; `Others` is any step of `HybridFanout` |
| `FeedRead` | `GetFeed` with `candidate/redis.go`, `selectPosts`, `pageStart`, the rank order, the signals' counts and the cursor, for a viewer who scrolls | `stage` is the place in the request, one step per read; `normal`, `celebrity`, `followed` are the request's locals; `cursor` is the page token; `shown`, `seen`, `repeats`, `below`, `crossed`, `standing` are histories of the scroll |
| `*MC` | values and symmetry sets for TLC | |
| `FanoutConsumerProofs`, `SocialGraphProofs`, `PostCacheProofs`, `HybridFanoutProofs`, `WarmCacheProofs`, `FeedReadProofs`, `FeedProofs` | theorems about the module of that name | section 5 |
| `TopProofs` | lemmas on the first n elements of a set under a strict total order | used for the lists of `HybridFanout` and `WarmCache`, and the pools and pages of `FeedRead` |

The modules meet at their interfaces. `FanoutConsumer` says how often and in which order a
record is handled; `HybridFanout` takes what it promises of the group's members (one at a time, again after a failure)
and says what handling does; the result implements `Feed`. The worker that was expelled and goes on
with its record (`consumer_reorder`) is not in `HybridFanout`. `SocialGraph` implements `FollowGraph`, and `HybridFanout`
takes its world from there: a `Follow` and an `Unfollow` are one step each, the count it reads
(`FollowerCount`) is exact, and each change leaves one event to publish, which may overtake
another as the lock is gone by then (the constant `Reordering`). That an event is lost is left
out there (section 7). `PostCache` handles deletes, so `HybridFanout` does not.
`FeedRead` starts where these end: its lists change by any of `HybridFanout`'s writes in any
order, and its hydrator answers as `PostCache` promises (live posts always, deleted ones perhaps
until their tombstone). `WarmCache` composes the job with the whole of `HybridFanout`; the job's
`post:{id}` writes are the action `Warm` of `PostCache`.

## 3. Runs

| Run | Instance | Shows |
|---|---|---|
| `consumer_safety` | 2 workers, 2 partitions, evictions, 1.4 million states | nothing committed unsettled, DLQ only after the retries, exclusive handling, refinement of `AtLeastOnce`, effects in order for workers that are still members, and the inductive invariant of the proof |
| `consumer_liveness` | disruptions bounded | every record is committed in the end |
| `consumer_reorder` (violation) | evictions | a zombie worker applies its record late |
| `follows` | 3 users, 2 requests at a time, threshold 2, one disruption | exact counts and flags, reads under the lock still hold, no event without commit, every request ends, every step implements `FollowGraph` |
| `cache_safety` | 2 posts sharing the tombstone set, 2 requests at a time, lifetimes 1 and 2 | deleted posts stay hidden, stale copies die before the tombstones, live posts are served |
| `cache_liveness` | 1 post, 2 requests, four different lifetimes | a deleted post leaves the cache for good |
| `fanout_ordinary` | 1 author below the threshold, 2 users, 3 posts, 3 follow changes, timelines of 2, backfill of 1 | no gap between fanout and backfill; lists bounded |
| `fanout_celebrity` | the same at exactly the threshold; 581,000 states | posts merged at read time reach the followers, no marker stays after an unfollow, every step implements `Feed` |
| `warm` | one ordinary author and one celebrity, a follower, 2 posts, one run of the job, with and without `-reset`, failing anywhere; from any database and any leftovers in Redis; 1.6 million states | an undisturbed run rebuilds the baseline; beside a worker only what committed meanwhile is lost or revived |
| `feed_pages` | 4 posts by 2 authors, pool 3, pages of 1, two clock values at which posts change places, 2 changes or failures; 780,000 states | no candidate missed by the reads, only a post whose own score fell is shown again, gaps of a scroll are crossings and crossings take time, the scroll ends |
| `fanout_crossing` (violation) | the second follower makes the author a celebrity | an earlier follower misses every later post |
| `fanout_reorder` (violation) | publishes out of order | a marker stays after the unfollow |

Why the bounds are enough. Each hazard needs two actors and one object: two workers for a
handover, two requests for a race on a row or a key, a follower who is there and one who comes.
Two posts are needed where the tombstone set's shared lifetime matters, three where a list of
two overflows. Disruptions and requests are counted so that each can happen between any two
steps at least once. `feed_pages` has pages of one, so that each walk has ends of pages between any two
posts, and a pool smaller than the set of posts, so that a fourth post displaces one; the two
changes may fall anywhere in any of its requests. `warm` starts from every database and every
content of Redis of its size, so that what an earlier run or a lost event left behind need not
be produced by steps. `Batch` in `PostCache` is the sets of IDs a read asks for: the safety run
asks for both posts at once, since posts are resolved independently and a request for one is part
of a request for both. What is not bounded at all is `PostCache`'s number of requests.

`PromiseKept` of `HybridFanout` is checked at the threshold only: on the larger instance below
it the refinement takes TLC too long to run each time. It holds there with two changes instead
of three, and with two posts and lists of one; and `FeedPromised` proves it for both.

Cached counts. In `fanout_ordinary` and `fanout_celebrity` the author stays on one side of the
threshold, so that no count read, however old, changes a decision: `NoGap` and `PromiseKept` are
claimed for such authors and show nothing about stale counts, and neither does `MarkersAreFollows`
in that run. Where an author crosses, a handler may store a count it read before the crossing and
another decide on it after. That the markers come right even then is a theorem only (`MarkersFollow`,
which has no hypothesis on counts; like every passing run it has events published in the order of
their commits). What such an author's followers miss is `fanout_crossing`.

Time in `PostCache` is counted in units longer than a request (hours against seconds): a request
meets at most one `Tick`. The assumption that every cache lifetime is below every tombstone
lifetime holds for the defaults (6h, 24h); the configuration does not enforce it, and without it
a stale copy outlives the tombstone. In the same way `FeedRead` assumes that the feed's pool is
no larger than the worker's lists (200 and 1000 by default, in the configurations of two
services): with a larger pool, a trim between the reads could take a candidate of the pool.
The signals come from the table `engagements`, which no service writes, so that in
`FeedRead` a score moves with time only. The signals loader and the ranker each look at the
clock (`signals/postgres.go:88`, `ranking/heuristic.go:29`); the model takes one time for both, so a
tick between the affinity's window and the ages of one page is left out.

A *crossing* in `FeedRead`: a post that was shown ranks below the end of the last page when
the next page is ranked, or a post that was left below it ranks above. A cursor over moving scores
cannot exclude this; `OnlyTimeCrosses` and `WalkIsComplete` say that nothing else hides a post,
additions, deletions and the deletion of the cursor's own post included. What is shown twice is stated
without it, by the scores alone: `repeats` holds the posts of the last page that were shown before,
with the time they were last shown and the time they are shown now, and `RepeatsLostScore` compares the post's score at the two. Such
repeats do occur in `feed_pages`. A page after a deleted cursor post depends on the three fields
of the cursor agreeing with the rank order, ties included: where only the score is compared, a post
level with the deleted one comes again (the mutant). The property needs scores that only decay:
recency falls with the age, the engagements are fixed, and they leave the affinity's window. A
`FEED_AFFINITY_DEFAULT` above 1 (the default is 0) would let a score rise when the last engagement
leaves the window, and with it the cursor's post and what was shown before it.

`missed` and `late` in `WarmCache` count from the job's read of the table in question: a follow
that commits before `ListFollows` is in what the job writes.

## 4. Fairness

`consumer_liveness` assumes that each worker's loop goes on, that the coordinator assigns
partitions and expires dead members, and that a stopped worker is restarted
(`restart: unless-stopped`, `deploy/docker-compose.yml:208`); crashes, signals and broker errors
are bounded by `MaxDisruptions`, so they end. `follows` assumes that a request thread
runs and that Postgres grants a free row lock to each waiter in turn. `cache_liveness` assumes
only that requests end and time passes. `feed_pages` assumes that a request goes on and that the
viewer asks for the next page; that the scroll then ends is not trivial, as a page that hands
out a token without getting on would not end it. Failures and changes are bounded there.

## 5. Proofs

All theorems are proved for every value of the constants that satisfies the modules' `ASSUME`s.

`FanoutConsumerProofs`. The properties are not inductive. `ConsumerInv` adds what relates the
loop to the group: a worker that is a member and has a record in hand owns the partition
(`HeldInv`, `OwnerInv`), the position of the owner is at most one record ahead of the committed
offset and exactly so while it holds one (`CurrentInv`), everything below the committed offset
is settled and so is the record about to be committed (`SettledInv`), the counter of attempts
stays within the retries (`AttemptsInv`). `Invariance` proves it; `TypeCorrect`,
`NoRecordSkipped`, `RetriesBeforeDLQ` and `ExclusiveHandling` follow, and `OrderedEffects`: what
was last attempted is never beyond the record after the committed offset (`LatestInv`), and a
member attempts exactly that record. `GroupAgrees` states the invariant itself. `Refinement` maps the loop
to `AtLeastOnce` with `Settled` for its settled records: a commit acknowledges a settled record,
everything else settles one, publishes one or stutters.

`SocialGraphProofs`. The inductive part is that a request past `LockUser` holds the row lock, so
no other request changes that row or its follows. `LockedReadsHold` and `CountsCorrect` follow,
the latter for a finite set of users, with the cardinality lemmas of the library.
`EventsAreCommits` rests on a balance (`EventInv`): the events of a change published so far and
the requests that committed it and have not published yet are together no more than its commits. `GraphPromised` is the refinement of `FollowGraph`: a commit is
one change, because what it read under the lock still holds and because, with a follower there, the
count it decrements is not 0 (so the clamp in `decrementFollowers` never acts); a request
past its commit is a sender with an event; everything before leaves the graph alone.

`PostCacheProofs`. `TombstoneOutlivesCopy` needs what is still in flight: a request that passed
the tombstone filter, or carries a copy of a post, was there before the tombstone, has met at
most one `Tick`, and so writes a copy whose lifetime ends before the set's (`Protected`,
`CopyInv`). A post that was hidden when a hydration began and still passed its filter is `Dead`:
its row is deleted, it is not cached and no request carries it, which nothing can undo
(`DeadForever`, `PromiseInv`). `StaleCopiesDieFirst` and `DeletedStayHidden` follow for every
lifetime the assumption allows; `LiveStayServed` follows from `OwedInv`, which says where a post
that a read owes still is. The parts of the invariant hold in `cache_safety`'s instance, too.

`HybridFanoutProofs`. `TypeCorrect` needs that each handler is in a stage its event's kind can
reach (`StageInv`). The other theorems rest on invariants of one pair of a user and an author
each (`MarkOf`, `MarkedOf`, `ListedOf`, `OwedOf`, `BackfillOf`), which `WarmCacheProofs` uses
again for the pairs that a run of the job did not overlap.

- `MarkersFollow` speaks of `Queue`, the published and the unpublished events of a channel one
  after the other: with `Reordering` off a publish does not change it. `OrderedInv` says that the
  last event about a pair in the queue tells what the database says, so an event that no longer
  holds has the one that undoes it behind it. `MarkInv` says that a marker without a follow has a
  `FollowDeleted` coming; the theorem is the case of an empty queue. It holds whatever the counts do.
- `NoPostMissed` assumes `NoCrossing`: each author stays on one side of the threshold whoever
  follows (`Ordinary` or `Celebrity`), so that every count read or cached, however stale, decides
  alike (`SideInv`). For celebrities, a post is in the global list, displaced from it, or its
  event is coming (`ListedInv`), and a follow has its marker or its event (`MarkedInv`). For
  ordinary authors, a post owed to a follower is in the timeline, displaced, or its event is
  coming or in the middle of a fanout that still has the follower to write or has not read the
  followers yet (`OwedInv`, with `OwedFollows`), and a post that a new follower is to find is in
  the timeline, displaced, or the backfill is coming or has it in hand (`BackfillInv`). "Listed or
  displaced" survives every write (`Kept`): a trimmed list keeps the newest, so what a later write
  displaces is older than a full list. Displaced is meant of the list the author's posts are read
  from (`ListFor`), not of any list.
- `OnlyInvited` has no hypotheses: a feed holds nothing of an author its user never followed,
  in any order of events and across the threshold. `ever` remembers the follows of all time;
  `InvitedInv` says that every event was caused by something in the database (`CausedInv`), that the
  followers and posts a handler has read are ones there were (`ReadsInv`), and that timelines hold
  only posts of authors once followed (`ListsInv`). The celebrities' posts are in a list of all
  users; there the marker decides, whose event was caused by a follow.
- `FeedPromised` is the refinement of `Feed`. An author is behind while he has an event in a
  queue (`Behind`), a pair is leaving while its `FollowDeleted` is in one (`Leaving`), a feed shows
  its `Candidates` (`Shown`), and newer posts displace what is off a full list (`Past`). A commit is the
  action of `Feed` with its name and moves no feed; a step of a handler, a publish and the expiry of a
  count are a `Serve` or a stutter. That a `Serve` loses nothing (`HandledKeeps`) needs that each list
  holds the posts of its side of the threshold only (`SidedInv`); that it gains only what it may
  (`HandledGains`) is `InvitedInv`; that an author no longer behind is complete (`QuietIsComplete`)
  is `FeedInv`, the invariant of `NoPostMissed`.

`FeedProofs`. What `Feed` is worth to its users, from `Feed` alone: a follower is shown each
post promised by an author the feeds have caught up with, but those with as many newer posts as a
list holds (`FollowersAreShown`), and nothing else makes a post leave a feed but an unfollow
(`OnlyOldOrLeft`). The newer posts are those of all authors: a list of the celebrities' posts is
shared by all users, so posts of celebrities one does not follow displace those of one that one does.

The hypotheses `NoCrossing` and `~Reordering` are both needed: `fanout_crossing` and
`fanout_reorder` are the counterexamples without them. They are not assumptions on the constants
but hypotheses of the theorems that need them, as the code justifies neither.

`WarmCacheProofs`. `WarmTypeCorrect` extends the types to the job. `RebuildsBaseline` has no
hypotheses: `RebuildInv` says that nobody is written before everybody is listed (`TodoInv`), that
what was read is what the tables say but for what committed since (`ReadInv`), that undisturbed
nothing did (`CalmInv`), and that the keys written so far are the baseline's (`WrittenInv`). A list
written from the newest posts of each author has the same newest posts as one from all posts
(`NewestKeeps`, `KeptNewest`). `DamageBounded` needs the two hypotheses of `NoPostMissed`. Its
`OverlapInv` says that the pairs' invariants of `HybridFanoutProofs` hold for the users that the job
has written, as far as the pair was not `missed` and the post is not `late`; it does not need them
before the run, so any leftovers will do. `ToClear`, `ToList` and `ToMark` are the users whose keys
are still to be cleared, to get their timeline and to get their markers: between the `DEL` and the
`ZADD` of a user the worker may write, too.

`TopProofs`. The first n of a set under a strict total order: how many they are, that adding
elements or cutting twice changes nothing else. The lists (`MaxTimelineLen`), the pool and the
pages are such sets.

`FeedReadProofs`. `NoCandidateMissed` from `LoadInv`: a standing candidate is in what the request has
read so far (`HoldsStanding`), and the posts newer than it that the request found are still in the
lists (`NewerAreListed`), so neither cut removes it; the assumption that the pool fits the
lists is used for the trims. `ScrollShowsAll` and `CrossingTakesTime` follow from `PagesInv`: what
is standing is shown, crossed or below the last page (`CompleteInv`), and while no time has passed, the shown posts rank above the end of the last page and those left below
it do not (`OrderInv`), which the cursor's fields preserve when its post is deleted.
`OnlyLostScoreRepeats` has the hypothesis `ScoresDecay` on the constants: recency does not grow with
the age and the default affinity is at most one engagement. No score grows then (`ScoreDecays`), and
the invariant is `PlaceInv`: the cursor is its post with the score of an earlier time, and no post
shown was below it at the score it was shown with. What the next page may hold is below the cursor
(`RestIsBelow`, whether its post is still there or not), so the next cursor is lower
(`LowerCursor`) and a post that comes again has lost score (`BelowLostScore`).

Only model-checked: liveness (outside the provers' reach, like `ENABLED`), that is
`EveryRecordCommitted`, `EveryRequestEnds`, `DeletedLeavesCache` and `WalkEnds`; and the
counterexamples of the violation runs.

## 6. Disagreements met while modelling

Three violation runs, each with its finding in `PROJECT.json`: the order of effects under
eviction, followers from before an author's crossing of the threshold, and the marker that an
overtaken event leaves behind.

## 7. Not modelled

Lost events are in `SocialGraph` and `PostCache` but not in `HybridFanout`, which no code path
repairs; no property catches the loss itself. A record that ends in the DLQ is settled in
`FanoutConsumer` and its effect is missing;
`HybridFanout` assumes none does. It has one handler per channel: the handler of an expelled worker,
which `consumer_reorder` exhibits, may still write beside its successor's and is left out. The add and
the trim of one list are one step, in a fanout and in the job (between them the list may be
too long, and nothing else differs). Redis writes that arrive after their client gave
up are left out. Equal creation times are left out of `HybridFanout`; `FeedRead` has them, with ties in
the sorted sets taken by number, where Redis compares the members as strings.

`FeedRead` takes the hydrator from `PostCache` as a promise instead of composing the two, and
has the default mode only: `FEED_BYPASS_CACHE` reads `created_at` in microseconds where Redis holds
milliseconds, which is a benchmark's mode and is left out, as is `hydrator/postgres.go`. Deleted
posts stay in the lists and take places in the pool; a standing candidate is therefore one that
is among the newest of all listed posts.

`WarmCache` leaves out authors who cross the threshold (`fanout_crossing` shows what happens
then, and that only a rebuild repairs it), and
different lengths of the baseline's pool and the lists. An account may be a `User`, an `Author` or
both; the lists of one that follows nobody and the count of one that posts nothing are left out. A `-reset` run that fails leaves the
feeds empty until the next one; the model has that behaviour and no property forbids it.

Creating a user is one insert, and a page of followers one query by an immutable key. Gateway and
frontend translate requests and keep no state. Metrics, configuration parsing, wiring in the `main`
functions, schema and deployment contribute assumptions, named where they are used.

## 8. What remains

1. The part of a feed's promise that other modules keep: `Feed` has no deletes and no pages. That
   `PostCache` hides what was deleted and `FeedRead` shows what is standing is proved of each by
   itself; that the three together implement one promise is only stated in section 2.
2. Liveness of `HybridFanout`: every event is applied once failures end.
