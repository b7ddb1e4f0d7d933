-------------------------- MODULE PostCacheProofs --------------------------
(***************************************************************************)
(* Proofs about PostCache, for any number of posts and requests in flight  *)
(* and any lifetimes that LifetimesAssumption allows.                      *)
(***************************************************************************)
EXTENDS PostCache, TLAPS

-----------------------------------------------------------------------------
(* The inductive invariant. *)

\* What the service wrote about a deletion comes after it.
RowInv ==
    /\ tombstones \subseteq hidden
    /\ \A p \in hidden : row[p] = "deleted"
    /\ \A p \in Post : <<"PostDeleted", p>> \in published => row[p] = "deleted"
    /\ \A q \in Request :
         /\ stage[q] \in {"tombstone", "publishDeleted"}
              => \A p \in call[q].missing : row[p] = "deleted"
         /\ call[q].promised \subseteq hidden
         /\ \A p \in call[q].owed : row[p] # "absent"

\* What the place of a request says of what it has gathered.
CallInv ==
    \A q \in Request :
        /\ stage[q] = "backfill" => call[q].op = "hydrate"
        /\ stage[q] \in {"filter", "mget"} => call[q].found = {}
        /\ stage[q] \in {"filter", "mget", "lookup"} => call[q].response = {}
        /\ stage[q] = "query" => call[q].missing \intersect call[q].response = {}

\* The request may still write the post into the cache.
Carries(q, p) ==
    \/ stage[q] = "set" /\ p \in call[q].missing
    \/ /\ stage[q] = "refill"
       /\ p \in call[q].response
       /\ p \in call[q].missing \/ call[q].op = "hydrate"
    \/ /\ stage[q] \in {"query", "backfill"}
       /\ call[q].op = "hydrate"
       /\ p \in call[q].response

\* The tombstone will be there longer than any copy the request can write.
Protected(q, p) ==
    /\ p \in tombstones
    /\ \A c \in CacheLifetimes : tombLeft >= IF q \in aged THEN c ELSE c + 1

\* Nothing can bring the post back into the cache.
Dead(p) ==
    /\ p \in hidden
    /\ cacheLeft[p] = 0
    /\ \A q \in Request : ~Carries(q, p)

\* Copies of hidden posts, in the cache or still on their way to it.
CopyInv ==
    /\ TombstoneOutlivesCopy
    /\ \A q \in Request, p \in hidden : Carries(q, p) => Protected(q, p)
    /\ \A q \in Request, p \in hidden :
         stage[q] \in {"mget", "lookup"} /\ call[q].op = "hydrate" /\ p \in call[q].missing
           => Protected(q, p) \/ Dead(p)

\* A post that was hidden when a hydration began is dead once it is past the filter.
PromiseInv ==
    \A q \in Request : call[q].op = "hydrate" =>
        \A p \in call[q].promised :
            /\ p \notin call[q].found
            /\ p \notin call[q].response
            /\ stage[q] \in {"mget", "lookup"} /\ p \in call[q].missing => Dead(p)

\* No read loses a post that is owed to it.
OwedInv ==
    \A q \in Request : \A p \in call[q].owed : row[p] = "live" =>
        /\ stage[q] \in {"filter", "mget", "lookup", "query"}
             => p \in call[q].missing \union Answer(q)
        /\ stage[q] \in {"refill", "backfill", "reply"} => p \in Answer(q)

-----------------------------------------------------------------------------
(* Facts about the constants and the helpers. *)

\* The lifetimes, each by its name, with what the assumption says of them.
LEMMA Lifetimes ==
  /\ {PostCacheTTL, FeedCacheTTL, WarmCacheTTL} \subseteq CacheLifetimes
  /\ PostTombstoneTTL \in TombstoneLifetimes /\ TombstoneTTL \in TombstoneLifetimes
  /\ \A c \in CacheLifetimes : c \in Nat /\ c > 0
  /\ \A d \in TombstoneLifetimes : d \in Nat /\ \A c \in CacheLifetimes : c + 1 <= d
<1>1. /\ {PostCacheTTL, FeedCacheTTL, WarmCacheTTL} \subseteq CacheLifetimes
      /\ PostTombstoneTTL \in TombstoneLifetimes /\ TombstoneTTL \in TombstoneLifetimes
  BY DEF CacheLifetimes, TombstoneLifetimes
<1>2. /\ \A c \in CacheLifetimes : c \in Nat /\ c > 0
      /\ \A d \in TombstoneLifetimes : d \in Nat
      /\ \A d \in TombstoneLifetimes, c \in CacheLifetimes : c < d
  BY LifetimesAssumption
<1>3. ASSUME NEW d \in TombstoneLifetimes, NEW c \in CacheLifetimes PROVE c + 1 <= d
  BY <1>2
<1>4. QED
  BY <1>1, <1>2, <1>3

\* The cache after a write of posts with a lifetime, or with 0.
LEMMA FillType ==
  ASSUME TypeOK, NEW ps, NEW ttl, ttl \in CacheLifetimes \/ ttl = 0, Fill(ps, ttl)
  PROVE  /\ cacheLeft' \in [Post -> Nat]
         /\ \A p \in Post : \E c \in CacheLifetimes : cacheLeft'[p] <= c
<1>1. ttl \in Nat /\ \E c \in CacheLifetimes : ttl <= c
  BY Lifetimes
<1>2. cacheLeft' \in [Post -> Nat]
  BY <1>1 DEF Fill, TypeOK
<1>3. ASSUME NEW p \in Post PROVE \E c \in CacheLifetimes : cacheLeft'[p] <= c
  BY <1>1 DEF Fill, TypeOK
<1>4. QED
  BY <1>2, <1>3

\* The tombstones after a write of one of their lifetimes.
LEMMA BuryType ==
  ASSUME TypeOK, NEW ps \in SUBSET Post, NEW ttl \in TombstoneLifetimes, Bury(ps, ttl)
  PROVE  /\ tombstones' \in SUBSET Post
         /\ tombLeft' \in Nat
         /\ \E d \in TombstoneLifetimes : tombLeft' <= d
         /\ hidden' \in SUBSET Post
BY Lifetimes DEF Bury, TypeOK

\* The types of what a request has gathered.
LEMMA CallType ==
  ASSUME TypeOK, NEW q \in Request
  PROVE  /\ call[q] \in Call
         /\ call[q].op \in {"create", "delete", "get", "hydrate", "warm"}
         /\ call[q].missing \in SUBSET Post
         /\ call[q].found \in SUBSET Post
         /\ call[q].response \in SUBSET Post
         /\ call[q].promised \in SUBSET Post
         /\ call[q].owed \in SUBSET Post
<1>1. call[q] \in Call
  BY DEF TypeOK
<1>2. QED
  BY <1>1 DEF Call

\* Every request arrives in one of these ways.
LEMMA Beginning ==
  ASSUME TypeOK, NEW q \in Request, Begin(q)
  PROVE  \E o \in {"create", "delete", "get", "hydrate", "warm"}, ps \in SUBSET Post,
            s \in {"create", "delete", "lookup", "filter", "query"} :
              /\ Arrive(q, o, ps, s)
              /\ s = "filter" <=> o = "hydrate"
BY BatchAssumption DEF Begin, Warm

\* A request that ends is idle and has forgotten what it gathered.
LEMMA Ending ==
  ASSUME TypeOK, NEW q \in Request, End(q)
  PROVE  /\ stage' = [stage EXCEPT ![q] = "idle"]
         /\ stage' \in [Request -> Stage]
         /\ call' \in [Request -> Call]
         /\ \A r \in Request \ {q} : call'[r] = call[r] /\ stage'[r] = stage[r]
         /\ stage'[q] = "idle"
         /\ call'[q] = [op |-> "get", missing |-> {}, found |-> {}, response |-> {},
                        promised |-> {}, owed |-> {}]
         /\ aged' = aged \ {q}
<1>1. NoCall \in Call
  BY DEF NoCall, Call
<1>2. QED
  BY <1>1 DEF End, Enter, NoCall, Stage, TypeOK

-----------------------------------------------------------------------------
(* Type correctness. *)

\* The initial states have the types.
LEMMA InitTypeOK == Init => TypeOK
<1>1. NoCall \in Call
  BY DEF NoCall, Call
<1>2. QED
  BY <1>1, Lifetimes DEF Init, TypeOK, Stage

\* Lifetimes shrink within their types.
LEMMA TickType ==
  ASSUME TypeOK, Tick PROVE TypeOK'
<1>1. cacheLeft' \in [Post -> Nat]
  BY DEF Tick, TypeOK
<1>2. ASSUME NEW p \in Post PROVE \E c \in CacheLifetimes : cacheLeft'[p] <= c
  <2>1. PICK c \in CacheLifetimes : cacheLeft[p] <= c
    BY DEF TypeOK
  <2>2. cacheLeft'[p] <= c
    BY <2>1, Lifetimes DEF Tick, TypeOK
  <2>3. QED
    BY <2>2
<1>3. tombLeft' \in Nat /\ \E d \in TombstoneLifetimes : tombLeft' <= d
  <2>1. PICK d \in TombstoneLifetimes : tombLeft <= d
    BY DEF TypeOK
  <2>2. tombLeft' \in Nat /\ tombLeft' <= d
    BY <2>1, Lifetimes DEF Tick, TypeOK
  <2>3. QED
    BY <2>2
<1>4. tombstones' \in SUBSET Post /\ aged' \in SUBSET Request
  BY DEF Tick, TypeOK
<1>5. QED
  BY <1>1, <1>2, <1>3, <1>4 DEF Tick, TypeOK

\* No step leaves the types.
LEMMA NextTypeOK == TypeOK /\ [Next]_vars => TypeOK'
<1> SUFFICES ASSUME TypeOK, [Next]_vars PROVE TypeOK'
  OBVIOUS
<1> USE DEF Stage, Enter, redis
<1>1. ASSUME NEW q \in Request, Begin(q) PROVE TypeOK'
  <2>1. PICK o \in {"create", "delete", "get", "hydrate", "warm"}, ps \in SUBSET Post,
             s \in {"create", "delete", "lookup", "filter", "query"} : Arrive(q, o, ps, s)
    BY <1>1, Beginning
  <2>2. [op |-> o, missing |-> ps, found |-> {}, response |-> {},
         promised |-> ps \intersect hidden, owed |-> ps \intersect Live] \in Call
    BY DEF Call, Live
  <2>3. QED
    BY <2>1, <2>2 DEF Arrive, TypeOK
<1>2. ASSUME NEW q \in Request, Abort(q) PROVE TypeOK'
  BY <1>2, Ending DEF Abort, TypeOK
<1>3. ASSUME NEW q \in Request, Create(q) PROVE TypeOK'
  BY <1>3 DEF Create, TypeOK
<1>4. ASSUME NEW q \in Request, Set(q) PROVE TypeOK'
  <2>1. CASE Fill(call[q].missing, PostCacheTTL)
    BY <1>4, <2>1, Lifetimes, FillType DEF Set, TypeOK
  <2>2. CASE UNCHANGED cacheLeft
    BY <1>4, <2>2 DEF Set, TypeOK
  <2>3. QED
    BY <1>4, <2>1, <2>2 DEF Set
<1>5. ASSUME NEW q \in Request, PublishCreated(q) PROVE TypeOK'
  BY <1>5, Ending, CallType DEF PublishCreated, TypeOK
<1>6. ASSUME NEW q \in Request, Delete(q) PROVE TypeOK'
  BY <1>6 DEF Delete, TypeOK
<1>7. ASSUME NEW q \in Request, Tombstone(q) PROVE TypeOK'
  <2>1. CASE Fill(call[q].missing, 0) /\ Bury(call[q].missing, PostTombstoneTTL)
    BY <1>7, <2>1, Lifetimes, FillType, BuryType, CallType DEF Tombstone, TypeOK
  <2>2. CASE UNCHANGED <<redis, hidden>>
    BY <1>7, <2>2 DEF Tombstone, TypeOK
  <2>3. QED
    BY <1>7, <2>1, <2>2 DEF Tombstone
<1>8. ASSUME NEW q \in Request, PublishDeleted(q) PROVE TypeOK'
  BY <1>8, Ending, CallType DEF PublishDeleted, TypeOK
<1>9. ASSUME NEW q \in Request, Filter(q) PROVE TypeOK'
  <2>1. [call[q] EXCEPT !.missing = @ \ tombstones] \in Call
    BY CallType DEF Call
  <2>2. QED
    BY <1>9, <2>1 DEF Filter, TypeOK
<1>10. ASSUME NEW q \in Request, MGet(q) PROVE TypeOK'
  <2>1. [call[q] EXCEPT !.found = call[q].missing \intersect Cached,
                        !.missing = @ \ Cached] \in Call
    BY CallType DEF Call
  <2>2. call' = [call EXCEPT ![q] = [call[q] EXCEPT
                   !.found = call[q].missing \intersect Cached, !.missing = @ \ Cached]]
    BY <1>10 DEF MGet, TypeOK
  <2>3. QED
    BY <1>10, <2>1, <2>2 DEF MGet, TypeOK
<1>11. ASSUME NEW q \in Request, Lookup(q) PROVE TypeOK'
  <2>1. PICK hits \in {call[q].missing \intersect Cached, {}} :
           /\ call' = [call EXCEPT ![q].response = hits, ![q].missing = @ \ hits]
           /\ Enter(q, IF call[q].missing = hits THEN AfterGetPosts(q) ELSE "query")
    BY <1>11 DEF Lookup
  <2>2. [call[q] EXCEPT !.response = hits, !.missing = @ \ hits] \in Call
    BY CallType DEF Call
  <2>3. call' = [call EXCEPT ![q] =
                   [call[q] EXCEPT !.response = hits, !.missing = @ \ hits]]
    BY <2>1 DEF TypeOK
  <2>4. stage' \in [Request -> Stage]
    BY <2>1 DEF AfterGetPosts, TypeOK
  <2>5. QED
    BY <1>11, <2>2, <2>3, <2>4 DEF Lookup, TypeOK
<1>12. ASSUME NEW q \in Request, Query(q) PROVE TypeOK'
  <2>1. [call[q] EXCEPT !.response = @ \union (call[q].missing \intersect Live)] \in Call
    BY CallType DEF Call
  <2>2. QED
    BY <1>12, <2>1 DEF Query, TypeOK
<1>13. ASSUME NEW q \in Request, Refill(q) PROVE TypeOK'
  BY <1>13, Lifetimes, FillType DEF Refill, AfterGetPosts, TypeOK
<1>14. ASSUME NEW q \in Request, Backfill(q) PROVE TypeOK'
  BY <1>14, Lifetimes, FillType DEF Backfill, TypeOK
<1>15. ASSUME NEW q \in Request, BackfillFails(q) PROVE TypeOK'
  BY <1>15, Lifetimes, FillType, Ending DEF BackfillFails, TypeOK
<1>16. ASSUME NEW q \in Request, Reply(q) PROVE TypeOK'
  BY <1>16, Ending DEF Reply, TypeOK
<1>17. ASSUME AddTombstone PROVE TypeOK'
  BY <1>17, Lifetimes, BuryType DEF AddTombstone, TypeOK
<1>18. ASSUME Tick PROVE TypeOK'
  BY <1>18, TickType
<1>19. CASE UNCHANGED vars
  BY <1>19 DEF vars, TypeOK
<1>20. QED
  BY <1>1, <1>2, <1>3, <1>4, <1>5, <1>6, <1>7, <1>8, <1>9, <1>10, <1>11, <1>12, <1>13,
     <1>14, <1>15, <1>16, <1>17, <1>18, <1>19 DEF Next, Writing, Reading

\* Every variable keeps its type; no lifetime exceeds its configuration.
THEOREM TypeCorrect == Safety => []TypeOK
BY InitTypeOK, NextTypeOK, PTL DEF Safety

-----------------------------------------------------------------------------
(* Deletions and the places of requests. *)

\* Nothing is deleted and nobody is under way at the start.
LEMMA InitRowInv == Init => RowInv /\ CallInv
BY DEF Init, RowInv, CallInv, NoCall

\* Tombstones and PostDeleted events come only after the row is deleted.
LEMMA NextRowInv ==
  ASSUME TypeOK, RowInv, [Next]_vars
  PROVE  RowInv'
<1> USE DEF Stage, Enter, redis
<1>1. ASSUME NEW q \in Request, Begin(q) PROVE RowInv'
  <2>1. PICK o \in {"create", "delete", "get", "hydrate", "warm"}, ps \in SUBSET Post,
             s \in {"create", "delete", "lookup", "filter", "query"} :
               Arrive(q, o, ps, s) /\ (s = "filter" <=> o = "hydrate")
    BY <1>1, Beginning
  <2>2. QED
    BY <2>1 DEF Arrive, TypeOK, RowInv, Live
<1>2. ASSUME NEW q \in Request, Abort(q) PROVE RowInv'
  BY <1>2, Ending DEF Abort, TypeOK, RowInv
<1>3. ASSUME NEW q \in Request, Create(q) PROVE RowInv'
  <2>1. \A p \in Post : row[p] # "absent" => row'[p] = row[p]
    BY <1>3 DEF Create, TypeOK
  <2>2. call[q].missing \in SUBSET Post /\ \A r \in Request : call[r].missing \subseteq Post
                                          /\ call[r].owed \subseteq Post
    BY CallType
  <2>3. /\ stage' = [stage EXCEPT ![q] = "set"]
        /\ UNCHANGED <<tombstones, hidden, published, call>>
    BY <1>3 DEF Create
  <2>4. QED
    BY <2>1, <2>2, <2>3 DEF TypeOK, RowInv
<1>4. ASSUME NEW q \in Request, Set(q) PROVE RowInv'
  BY <1>4 DEF Set, TypeOK, RowInv
<1>5. ASSUME NEW q \in Request, PublishCreated(q) PROVE RowInv'
  <2>1. \A p \in Post : <<"PostDeleted", p>> \in published' => <<"PostDeleted", p>> \in published
    BY <1>5 DEF PublishCreated
  <2>2. QED
    BY <1>5, <2>1, Ending DEF PublishCreated, TypeOK, RowInv
<1>6. ASSUME NEW q \in Request, Delete(q) PROVE RowInv'
  <2>1. \A p \in Post : IF p \in call[q].missing THEN row'[p] = "deleted"
                                                ELSE row'[p] = row[p]
    BY <1>6 DEF Delete, TypeOK
  <2>2. \A r \in Request : /\ call[r].missing \subseteq Post
                             /\ call[r].owed \subseteq Post
    BY CallType
  <2>3. /\ stage' = [stage EXCEPT ![q] = "tombstone"]
        /\ UNCHANGED <<tombstones, hidden, published, call>>
    BY <1>6 DEF Delete
  <2>4. QED
    BY <2>1, <2>2, <2>3 DEF TypeOK, RowInv
<1>7. ASSUME NEW q \in Request, Tombstone(q) PROVE RowInv'
  BY <1>7 DEF Tombstone, TypeOK, RowInv, Bury, Fill
<1>8. ASSUME NEW q \in Request, PublishDeleted(q) PROVE RowInv'
  <2>1. \A p \in Post : <<"PostDeleted", p>> \in published' => row[p] = "deleted"
    BY <1>8 DEF PublishDeleted, RowInv
  <2>2. QED
    BY <1>8, <2>1, Ending DEF PublishDeleted, TypeOK, RowInv
<1>9. ASSUME NEW q \in Request, Filter(q) PROVE RowInv'
  BY <1>9 DEF Filter, TypeOK, RowInv
<1>10. ASSUME NEW q \in Request, MGet(q) PROVE RowInv'
  BY <1>10 DEF MGet, TypeOK, RowInv
<1>11. ASSUME NEW q \in Request, Lookup(q) PROVE RowInv'
  BY <1>11 DEF Lookup, TypeOK, RowInv, Cached, AfterGetPosts
<1>12. ASSUME NEW q \in Request, Query(q) PROVE RowInv'
  BY <1>12 DEF Query, TypeOK, RowInv
<1>13. ASSUME NEW q \in Request, Refill(q) PROVE RowInv'
  BY <1>13 DEF Refill, TypeOK, RowInv, Fill, AfterGetPosts
<1>14. ASSUME NEW q \in Request, Backfill(q) PROVE RowInv'
  BY <1>14 DEF Backfill, TypeOK, RowInv
<1>15. ASSUME NEW q \in Request, BackfillFails(q) PROVE RowInv'
  BY <1>15, Ending DEF BackfillFails, TypeOK, RowInv
<1>16. ASSUME NEW q \in Request, Reply(q) PROVE RowInv'
  BY <1>16, Ending DEF Reply, TypeOK, RowInv
<1>17. ASSUME AddTombstone PROVE RowInv'
  BY <1>17 DEF AddTombstone, TypeOK, RowInv, Bury
<1>18. ASSUME Tick PROVE RowInv'
  BY <1>18 DEF Tick, TypeOK, RowInv
<1>19. CASE UNCHANGED vars
  BY <1>19 DEF vars, TypeOK, RowInv
<1>20. QED
  BY <1>1, <1>2, <1>3, <1>4, <1>5, <1>6, <1>7, <1>8, <1>9, <1>10,
     <1>11, <1>12, <1>13, <1>14, <1>15, <1>16, <1>17, <1>18, <1>19 DEF Next, Writing, Reading

\* What a request has gathered fits its place.
LEMMA NextCallInv ==
  ASSUME TypeOK, CallInv, [Next]_vars
  PROVE  CallInv'
<1> USE DEF Stage, Enter, redis
<1>1. ASSUME NEW q \in Request, Begin(q) PROVE CallInv'
  <2>1. PICK o \in {"create", "delete", "get", "hydrate", "warm"}, ps \in SUBSET Post,
             s \in {"create", "delete", "lookup", "filter", "query"} :
               Arrive(q, o, ps, s) /\ (s = "filter" <=> o = "hydrate")
    BY <1>1, Beginning
  <2>2. QED
    BY <2>1 DEF Arrive, TypeOK, CallInv
<1>2. ASSUME NEW q \in Request, Abort(q) PROVE CallInv'
  BY <1>2, Ending DEF Abort, TypeOK, CallInv
<1>3. ASSUME NEW q \in Request, Create(q) PROVE CallInv'
  BY <1>3 DEF Create, TypeOK, CallInv
<1>4. ASSUME NEW q \in Request, Set(q) PROVE CallInv'
  BY <1>4 DEF Set, TypeOK, CallInv
<1>5. ASSUME NEW q \in Request, PublishCreated(q) PROVE CallInv'
  BY <1>5, Ending, CallType DEF PublishCreated, TypeOK, CallInv
<1>6. ASSUME NEW q \in Request, Delete(q) PROVE CallInv'
  BY <1>6 DEF Delete, TypeOK, CallInv
<1>7. ASSUME NEW q \in Request, Tombstone(q) PROVE CallInv'
  BY <1>7 DEF Tombstone, TypeOK, CallInv
<1>8. ASSUME NEW q \in Request, PublishDeleted(q) PROVE CallInv'
  BY <1>8, Ending, CallType DEF PublishDeleted, TypeOK, CallInv
<1>9. ASSUME NEW q \in Request, Filter(q) PROVE CallInv'
  BY <1>9 DEF Filter, TypeOK, CallInv
<1>10. ASSUME NEW q \in Request, MGet(q) PROVE CallInv'
  BY <1>10 DEF MGet, TypeOK, CallInv, Cached
<1>11. ASSUME NEW q \in Request, Lookup(q) PROVE CallInv'
  BY <1>11 DEF Lookup, TypeOK, CallInv, Cached, AfterGetPosts
<1>12. ASSUME NEW q \in Request, Query(q) PROVE CallInv'
  BY <1>12 DEF Query, TypeOK, CallInv, Live
<1>13. ASSUME NEW q \in Request, Refill(q) PROVE CallInv'
  BY <1>13 DEF Refill, TypeOK, CallInv, AfterGetPosts
<1>14. ASSUME NEW q \in Request, Backfill(q) PROVE CallInv'
  BY <1>14 DEF Backfill, TypeOK, CallInv
<1>15. ASSUME NEW q \in Request, BackfillFails(q) PROVE CallInv'
  BY <1>15, Ending DEF BackfillFails, TypeOK, CallInv
<1>16. ASSUME NEW q \in Request, Reply(q) PROVE CallInv'
  BY <1>16, Ending DEF Reply, TypeOK, CallInv
<1>17. ASSUME AddTombstone PROVE CallInv'
  BY <1>17 DEF AddTombstone, TypeOK, CallInv
<1>18. ASSUME Tick PROVE CallInv'
  BY <1>18 DEF Tick, TypeOK, CallInv
<1>19. CASE UNCHANGED vars
  BY <1>19 DEF vars, TypeOK, CallInv
<1>20. QED
  BY <1>1, <1>2, <1>3, <1>4, <1>5, <1>6, <1>7, <1>8, <1>9, <1>10,
     <1>11, <1>12, <1>13, <1>14, <1>15, <1>16, <1>17, <1>18, <1>19 DEF Next, Writing, Reading

-----------------------------------------------------------------------------
(* One step and what it can do to hidden posts. *)

\* Between two ticks tombstones only come, each with a full lifetime for all of
\* them, and a request stays as old as it is.
LEMMA TombstoneStep ==
  ASSUME TypeOK, [Next]_vars, ~Tick
  PROVE  /\ tombstones \subseteq tombstones' /\ hidden \subseteq hidden'
         /\ \/ tombLeft' = tombLeft /\ hidden' = hidden
            \/ /\ tombLeft' \in TombstoneLifetimes
               /\ hidden' \subseteq hidden \union tombstones'
         /\ \A r \in Request : stage'[r] # "idle" => (r \in aged' <=> r \in aged)
<1> DEFINE Claim ==
             /\ tombstones \subseteq tombstones' /\ hidden \subseteq hidden'
             /\ \/ tombLeft' = tombLeft /\ hidden' = hidden
                \/ /\ tombLeft' \in TombstoneLifetimes
                   /\ hidden' \subseteq hidden \union tombstones'
             /\ \A r \in Request : stage'[r] # "idle" => (r \in aged' <=> r \in aged)
<1> USE DEF Stage, Enter, redis
<1>1. ASSUME NEW q \in Request, Begin(q) PROVE Claim
  <2>1. PICK o \in {"create", "delete", "get", "hydrate", "warm"}, ps \in SUBSET Post,
             s \in {"create", "delete", "lookup", "filter", "query"} :
               Arrive(q, o, ps, s) /\ (s = "filter" <=> o = "hydrate")
    BY <1>1, Beginning
  <2>2. QED
    BY <2>1 DEF Arrive, TypeOK
<1>2. ASSUME NEW q \in Request, Abort(q) PROVE Claim
  BY <1>2, Ending, Lifetimes DEF Abort, TypeOK
<1>3. ASSUME NEW q \in Request, Create(q) PROVE Claim
  BY <1>3, Lifetimes DEF Create, TypeOK
<1>4. ASSUME NEW q \in Request, Set(q) PROVE Claim
  BY <1>4, Lifetimes DEF Set, TypeOK
<1>5. ASSUME NEW q \in Request, PublishCreated(q) PROVE Claim
  BY <1>5, Ending, CallType, Lifetimes DEF PublishCreated, TypeOK
<1>6. ASSUME NEW q \in Request, Delete(q) PROVE Claim
  BY <1>6, Lifetimes DEF Delete, TypeOK
<1>7. ASSUME NEW q \in Request, Tombstone(q) PROVE Claim
  BY <1>7, Lifetimes DEF Tombstone, TypeOK, Bury
<1>8. ASSUME NEW q \in Request, PublishDeleted(q) PROVE Claim
  BY <1>8, Ending, CallType, Lifetimes DEF PublishDeleted, TypeOK
<1>9. ASSUME NEW q \in Request, Filter(q) PROVE Claim
  BY <1>9, Lifetimes DEF Filter, TypeOK
<1>10. ASSUME NEW q \in Request, MGet(q) PROVE Claim
  BY <1>10, Lifetimes DEF MGet, TypeOK
<1>11. ASSUME NEW q \in Request, Lookup(q) PROVE Claim
  BY <1>11, Lifetimes DEF Lookup, TypeOK
<1>12. ASSUME NEW q \in Request, Query(q) PROVE Claim
  BY <1>12, Lifetimes DEF Query, TypeOK
<1>13. ASSUME NEW q \in Request, Refill(q) PROVE Claim
  BY <1>13, Lifetimes DEF Refill, TypeOK
<1>14. ASSUME NEW q \in Request, Backfill(q) PROVE Claim
  BY <1>14, Lifetimes DEF Backfill, TypeOK
<1>15. ASSUME NEW q \in Request, BackfillFails(q) PROVE Claim
  BY <1>15, Ending, Lifetimes DEF BackfillFails, TypeOK
<1>16. ASSUME NEW q \in Request, Reply(q) PROVE Claim
  BY <1>16, Ending, Lifetimes DEF Reply, TypeOK
<1>17. ASSUME AddTombstone PROVE Claim
  BY <1>17, Lifetimes DEF AddTombstone, TypeOK, Bury
<1>18. CASE UNCHANGED vars
  BY <1>18 DEF vars, TypeOK
<1>19. QED
  BY <1>1, <1>2, <1>3, <1>4, <1>5, <1>6, <1>7, <1>8, <1>9, <1>10,
     <1>11, <1>12, <1>13, <1>14, <1>15, <1>16, <1>17, <1>18 DEF Next, Writing, Reading

\* A request comes to carry a hidden post only by finding it in the cache.
LEMMA CarryStep ==
  ASSUME TypeOK, RowInv, CallInv, [Next]_vars,
         NEW r \in Request, NEW p \in hidden, Carries(r, p)'
  PROVE  \/ Carries(r, p)
         \/ /\ stage[r] = "lookup"
            /\ call[r].op = "hydrate"
            /\ p \in call[r].missing
            /\ cacheLeft[p] > 0
<1> DEFINE Claim ==
             \/ Carries(r, p)
             \/ /\ stage[r] = "lookup"
                /\ call[r].op = "hydrate"
                /\ p \in call[r].missing
                /\ cacheLeft[p] > 0
<1> USE DEF Stage, Enter, redis
<1>1. ASSUME NEW q \in Request, Begin(q) PROVE Claim
  <2>1. PICK o \in {"create", "delete", "get", "hydrate", "warm"}, ps \in SUBSET Post,
             s \in {"create", "delete", "lookup", "filter", "query"} :
               Arrive(q, o, ps, s) /\ (s = "filter" <=> o = "hydrate")
    BY <1>1, Beginning
  <2>2. QED
    BY <2>1 DEF Arrive, TypeOK, RowInv, CallInv, Carries
<1>2. ASSUME NEW q \in Request, Abort(q) PROVE Claim
  BY <1>2, Ending, CallType DEF Abort, TypeOK, RowInv, CallInv, Carries
<1>3. ASSUME NEW q \in Request, Create(q) PROVE Claim
  BY <1>3, CallType DEF Create, TypeOK, RowInv, CallInv, Carries
<1>4. ASSUME NEW q \in Request, Set(q) PROVE Claim
  BY <1>4, CallType DEF Set, TypeOK, RowInv, CallInv, Carries
<1>5. ASSUME NEW q \in Request, PublishCreated(q) PROVE Claim
  BY <1>5, Ending, CallType, CallType DEF PublishCreated, TypeOK, RowInv, CallInv, Carries
<1>6. ASSUME NEW q \in Request, Delete(q) PROVE Claim
  BY <1>6, CallType DEF Delete, TypeOK, RowInv, CallInv, Carries
<1>7. ASSUME NEW q \in Request, Tombstone(q) PROVE Claim
  BY <1>7, CallType DEF Tombstone, TypeOK, RowInv, CallInv, Carries
<1>8. ASSUME NEW q \in Request, PublishDeleted(q) PROVE Claim
  BY <1>8, Ending, CallType, CallType DEF PublishDeleted, TypeOK, RowInv, CallInv, Carries
<1>9. ASSUME NEW q \in Request, Filter(q) PROVE Claim
  BY <1>9, CallType DEF Filter, TypeOK, RowInv, CallInv, Carries
<1>10. ASSUME NEW q \in Request, MGet(q) PROVE Claim
  BY <1>10, CallType DEF MGet, TypeOK, RowInv, CallInv, Carries
<1>11. ASSUME NEW q \in Request, Lookup(q) PROVE Claim
  BY <1>11, CallType DEF Lookup, TypeOK, RowInv, CallInv, Carries, AfterGetPosts, Cached
<1>12. ASSUME NEW q \in Request, Query(q) PROVE Claim
  BY <1>12, CallType DEF Query, TypeOK, RowInv, CallInv, Carries, Live
<1>13. ASSUME NEW q \in Request, Refill(q) PROVE Claim
  BY <1>13, CallType DEF Refill, TypeOK, RowInv, CallInv, Carries, AfterGetPosts
<1>14. ASSUME NEW q \in Request, Backfill(q) PROVE Claim
  BY <1>14, CallType DEF Backfill, TypeOK, RowInv, CallInv, Carries
<1>15. ASSUME NEW q \in Request, BackfillFails(q) PROVE Claim
  BY <1>15, Ending, CallType DEF BackfillFails, TypeOK, RowInv, CallInv, Carries
<1>16. ASSUME NEW q \in Request, Reply(q) PROVE Claim
  BY <1>16, Ending, CallType DEF Reply, TypeOK, RowInv, CallInv, Carries
<1>17. ASSUME AddTombstone PROVE Claim
  BY <1>17, CallType DEF AddTombstone, TypeOK, RowInv, CallInv, Carries
<1>18. ASSUME Tick PROVE Claim
  BY <1>18, CallType DEF Tick, TypeOK, RowInv, CallInv, Carries
<1>19. CASE UNCHANGED vars
  BY <1>19 DEF vars, TypeOK, RowInv, CallInv, Carries
<1>20. QED
  BY <1>1, <1>2, <1>3, <1>4, <1>5, <1>6, <1>7, <1>8, <1>9, <1>10,
     <1>11, <1>12, <1>13, <1>14, <1>15, <1>16, <1>17, <1>18, <1>19 DEF Next, Writing, Reading

\* A copy of a hidden post is written only by a request that carries it.
LEMMA CopyStep ==
  ASSUME TypeOK, RowInv, CallInv, [Next]_vars, NEW p \in hidden
  PROVE  \/ cacheLeft'[p] <= cacheLeft[p]
         \/ /\ \E q \in Request : Carries(q, p)
            /\ cacheLeft'[p] \in CacheLifetimes
<1> DEFINE Claim ==
             \/ cacheLeft'[p] <= cacheLeft[p]
             \/ /\ \E q \in Request : Carries(q, p)
                /\ cacheLeft'[p] \in CacheLifetimes
<1> USE DEF Stage, Enter, redis
<1>1. ASSUME NEW q \in Request, Begin(q) PROVE Claim
  <2>1. PICK o \in {"create", "delete", "get", "hydrate", "warm"}, ps \in SUBSET Post,
             s \in {"create", "delete", "lookup", "filter", "query"} :
               Arrive(q, o, ps, s) /\ (s = "filter" <=> o = "hydrate")
    BY <1>1, Beginning
  <2>2. QED
    BY <2>1 DEF Arrive, TypeOK, RowInv, CallInv, Carries
<1>2. ASSUME NEW q \in Request, Abort(q) PROVE Claim
  BY <1>2, Ending, Lifetimes DEF Abort, TypeOK, RowInv, CallInv, Carries
<1>3. ASSUME NEW q \in Request, Create(q) PROVE Claim
  BY <1>3, Lifetimes DEF Create, TypeOK, RowInv, CallInv, Carries
<1>4. ASSUME NEW q \in Request, Set(q) PROVE Claim
  BY <1>4, Lifetimes DEF Set, TypeOK, RowInv, CallInv, Carries, Fill
<1>5. ASSUME NEW q \in Request, PublishCreated(q) PROVE Claim
  BY <1>5, Ending, CallType, Lifetimes DEF PublishCreated, TypeOK, RowInv, CallInv, Carries
<1>6. ASSUME NEW q \in Request, Delete(q) PROVE Claim
  BY <1>6, Lifetimes DEF Delete, TypeOK, RowInv, CallInv, Carries
<1>7. ASSUME NEW q \in Request, Tombstone(q) PROVE Claim
  BY <1>7, Lifetimes DEF Tombstone, TypeOK, RowInv, CallInv, Carries, Fill
<1>8. ASSUME NEW q \in Request, PublishDeleted(q) PROVE Claim
  BY <1>8, Ending, CallType, Lifetimes DEF PublishDeleted, TypeOK, RowInv, CallInv, Carries
<1>9. ASSUME NEW q \in Request, Filter(q) PROVE Claim
  BY <1>9, Lifetimes DEF Filter, TypeOK, RowInv, CallInv, Carries
<1>10. ASSUME NEW q \in Request, MGet(q) PROVE Claim
  BY <1>10, Lifetimes DEF MGet, TypeOK, RowInv, CallInv, Carries
<1>11. ASSUME NEW q \in Request, Lookup(q) PROVE Claim
  BY <1>11, Lifetimes DEF Lookup, TypeOK, RowInv, CallInv, Carries
<1>12. ASSUME NEW q \in Request, Query(q) PROVE Claim
  BY <1>12, Lifetimes DEF Query, TypeOK, RowInv, CallInv, Carries
<1>13. ASSUME NEW q \in Request, Refill(q) PROVE Claim
  BY <1>13, Lifetimes DEF Refill, TypeOK, RowInv, CallInv, Carries, Fill
<1>14. ASSUME NEW q \in Request, Backfill(q) PROVE Claim
  BY <1>14, Lifetimes DEF Backfill, TypeOK, RowInv, CallInv, Carries, Fill
<1>15. ASSUME NEW q \in Request, BackfillFails(q) PROVE Claim
  BY <1>15, Ending, Lifetimes DEF BackfillFails, TypeOK, RowInv, CallInv, Carries, Fill
<1>16. ASSUME NEW q \in Request, Reply(q) PROVE Claim
  BY <1>16, Ending, Lifetimes DEF Reply, TypeOK, RowInv, CallInv, Carries
<1>17. ASSUME AddTombstone PROVE Claim
  BY <1>17, Lifetimes DEF AddTombstone, TypeOK, RowInv, CallInv, Carries
<1>18. ASSUME Tick PROVE Claim
  BY <1>18, Lifetimes DEF Tick, TypeOK, RowInv, CallInv, Carries
<1>19. CASE UNCHANGED vars
  BY <1>19 DEF vars, TypeOK, RowInv, CallInv, Carries
<1>20. QED
  BY <1>1, <1>2, <1>3, <1>4, <1>5, <1>6, <1>7, <1>8, <1>9, <1>10,
     <1>11, <1>12, <1>13, <1>14, <1>15, <1>16, <1>17, <1>18, <1>19 DEF Next, Writing, Reading

\* A hydration waits for a hidden post only when it did before, or when the post
\* just passed the filter.
LEMMA WaitStep ==
  ASSUME TypeOK, [Next]_vars, NEW r \in Request, NEW p \in hidden,
         stage'[r] \in {"mget", "lookup"}, call'[r].op = "hydrate", p \in call'[r].missing
  PROVE  /\ call[r].op = "hydrate"
         /\ p \in call[r].missing
         /\ \/ stage[r] \in {"mget", "lookup"}
            \/ stage[r] = "filter" /\ p \notin tombstones
<1> DEFINE Claim ==
             /\ call[r].op = "hydrate"
             /\ p \in call[r].missing
             /\ \/ stage[r] \in {"mget", "lookup"}
                \/ stage[r] = "filter" /\ p \notin tombstones
<1> USE DEF Stage, Enter, redis
<1>1. ASSUME NEW q \in Request, Begin(q) PROVE Claim
  <2>1. PICK o \in {"create", "delete", "get", "hydrate", "warm"}, ps \in SUBSET Post,
             s \in {"create", "delete", "lookup", "filter", "query"} :
               Arrive(q, o, ps, s) /\ (s = "filter" <=> o = "hydrate")
    BY <1>1, Beginning
  <2>2. QED
    BY <2>1 DEF Arrive, TypeOK
<1>2. ASSUME NEW q \in Request, Abort(q) PROVE Claim
  BY <1>2, Ending DEF Abort, TypeOK
<1>3. ASSUME NEW q \in Request, Create(q) PROVE Claim
  BY <1>3 DEF Create, TypeOK
<1>4. ASSUME NEW q \in Request, Set(q) PROVE Claim
  BY <1>4 DEF Set, TypeOK
<1>5. ASSUME NEW q \in Request, PublishCreated(q) PROVE Claim
  BY <1>5, Ending, CallType DEF PublishCreated, TypeOK
<1>6. ASSUME NEW q \in Request, Delete(q) PROVE Claim
  BY <1>6 DEF Delete, TypeOK
<1>7. ASSUME NEW q \in Request, Tombstone(q) PROVE Claim
  BY <1>7 DEF Tombstone, TypeOK
<1>8. ASSUME NEW q \in Request, PublishDeleted(q) PROVE Claim
  BY <1>8, Ending, CallType DEF PublishDeleted, TypeOK
<1>9. ASSUME NEW q \in Request, Filter(q) PROVE Claim
  BY <1>9 DEF Filter, TypeOK
<1>10. ASSUME NEW q \in Request, MGet(q) PROVE Claim
  BY <1>10 DEF MGet, TypeOK, Cached
<1>11. ASSUME NEW q \in Request, Lookup(q) PROVE Claim
  BY <1>11 DEF Lookup, TypeOK, AfterGetPosts
<1>12. ASSUME NEW q \in Request, Query(q) PROVE Claim
  BY <1>12 DEF Query, TypeOK
<1>13. ASSUME NEW q \in Request, Refill(q) PROVE Claim
  BY <1>13 DEF Refill, TypeOK, AfterGetPosts
<1>14. ASSUME NEW q \in Request, Backfill(q) PROVE Claim
  BY <1>14 DEF Backfill, TypeOK
<1>15. ASSUME NEW q \in Request, BackfillFails(q) PROVE Claim
  BY <1>15, Ending DEF BackfillFails, TypeOK
<1>16. ASSUME NEW q \in Request, Reply(q) PROVE Claim
  BY <1>16, Ending DEF Reply, TypeOK
<1>17. ASSUME AddTombstone PROVE Claim
  BY <1>17 DEF AddTombstone, TypeOK
<1>18. ASSUME Tick PROVE Claim
  BY <1>18 DEF Tick, TypeOK
<1>19. CASE UNCHANGED vars
  BY <1>19 DEF vars, TypeOK
<1>20. QED
  BY <1>1, <1>2, <1>3, <1>4, <1>5, <1>6, <1>7, <1>8, <1>9, <1>10,
     <1>11, <1>12, <1>13, <1>14, <1>15, <1>16, <1>17, <1>18, <1>19 DEF Next, Writing, Reading

-----------------------------------------------------------------------------
(* Hidden posts stay dead or protected. *)

\* A post that nothing can bring back stays so.
LEMMA DeadForever ==
  ASSUME TypeOK, RowInv, CallInv, [Next]_vars, NEW p \in Post, Dead(p)
  PROVE  Dead(p)'
<1>1. p \in hidden /\ cacheLeft[p] = 0 /\ \A q \in Request : ~Carries(q, p)
  BY DEF Dead
<1>2. p \in hidden'
  BY <1>1, TombstoneStep DEF Tick
<1>3. cacheLeft'[p] = 0
  <2>1. cacheLeft'[p] \in Nat
    BY NextTypeOK DEF TypeOK
  <2>2. cacheLeft'[p] <= cacheLeft[p]
    BY <1>1, CopyStep
  <2>3. QED
    BY <1>1, <2>1, <2>2
<1>4. ASSUME NEW q \in Request, Carries(q, p)' PROVE FALSE
  BY <1>1, <1>4, CarryStep
<1>5. QED
  BY <1>2, <1>3, <1>4 DEF Dead

\* The tombstones outlast every request that began before them.
LEMMA ProtectionStays ==
  ASSUME TypeOK, [Next]_vars, NEW r \in Request, NEW p \in Post, Protected(r, p),
         stage[r] # "idle", stage'[r] # "idle"
  PROVE  Protected(r, p)'
<1>1. CASE Tick
  <2>1. r \notin aged /\ r \in aged'
    BY <1>1 DEF Tick
  <2>2. \A c \in CacheLifetimes : tombLeft >= c + 1
    BY <2>1 DEF Protected
  <2>3. tombLeft \in Nat /\ tombLeft > 1
    BY <2>2, Lifetimes DEF TypeOK
  <2>4. tombLeft' = tombLeft - 1 /\ tombstones' = tombstones
    BY <1>1, <2>3 DEF Tick
  <2>5. \A c \in CacheLifetimes : tombLeft' >= c
    BY <2>2, <2>3, <2>4, Lifetimes
  <2>6. QED
    BY <2>1, <2>4, <2>5 DEF Protected
<1>2. CASE ~Tick
  <2>1. p \in tombstones' /\ (r \in aged' <=> r \in aged)
    BY <1>2, TombstoneStep DEF Protected
  <2>2. CASE tombLeft' = tombLeft
    BY <2>1, <2>2 DEF Protected
  <2>3. CASE tombLeft' \in TombstoneLifetimes
    <3>1. \A c \in CacheLifetimes : c \in Nat /\ tombLeft' \in Nat /\ tombLeft' >= c + 1
      BY <2>3, Lifetimes
    <3>2. QED
      BY <2>1, <3>1 DEF Protected
  <2>4. QED
    BY <1>2, <2>2, <2>3, TombstoneStep
<1>3. QED
  BY <1>1, <1>2

\* A new tombstone has a life longer than every copy's, present or to come.
LEMMA BurialProtects ==
  ASSUME TypeOK, [Next]_vars, NEW p \in hidden', p \notin hidden
  PROVE  /\ p \in tombstones' /\ tombLeft' \in Nat
         /\ \A c \in CacheLifetimes : tombLeft' >= c + 1
         /\ \A r \in Request : Protected(r, p)'
<1>1. ~Tick
  BY DEF Tick
<1>2. tombLeft' \in TombstoneLifetimes /\ p \in tombstones'
  BY <1>1, TombstoneStep
<1>3. \A c \in CacheLifetimes : c \in Nat /\ tombLeft' \in Nat /\ tombLeft' >= c + 1
  BY <1>2, Lifetimes
<1>4. tombLeft' \in Nat
  BY <1>2, Lifetimes
<1>5. QED
  BY <1>2, <1>3, <1>4 DEF Protected

-----------------------------------------------------------------------------
(* Stale copies. *)

\* Nothing is hidden at the start.
LEMMA InitCopyInv == Init => CopyInv
BY DEF Init, CopyInv, TombstoneOutlivesCopy

\* Whatever writes a copy of a hidden post, the tombstones outlive it.
LEMMA NextOutlives ==
  ASSUME TypeOK, RowInv, CallInv, CopyInv, [Next]_vars
  PROVE  TombstoneOutlivesCopy'
<1> SUFFICES ASSUME NEW p \in hidden', cacheLeft'[p] > 0
             PROVE  p \in tombstones' /\ tombLeft' >= cacheLeft'[p]
  BY DEF TombstoneOutlivesCopy
<1>1. TypeOK' /\ p \in Post
  BY NextTypeOK DEF TypeOK
<1>2. PICK m \in CacheLifetimes : cacheLeft'[p] <= m
  BY <1>1 DEF TypeOK
<1>3. cacheLeft'[p] \in Nat /\ cacheLeft[p] \in Nat /\ m \in Nat /\ tombLeft \in Nat
      /\ tombLeft' \in Nat
  BY <1>1, Lifetimes DEF TypeOK
<1>4. CASE p \notin hidden
  <2>1. p \in tombstones' /\ tombLeft' >= m + 1
    BY <1>4, BurialProtects
  <2>2. QED
    BY <1>2, <1>3, <2>1
<1>5. CASE p \in hidden /\ Tick
  <2>1. cacheLeft[p] > 0 /\ cacheLeft'[p] = cacheLeft[p] - 1
    BY <1>1, <1>3, <1>5 DEF Tick
  <2>2. p \in tombstones /\ tombLeft >= cacheLeft[p]
    BY <1>5, <2>1 DEF CopyInv, TombstoneOutlivesCopy
  <2>3. tombLeft > 1
    BY <1>3, <2>1, <2>2
  <2>4. tombstones' = tombstones /\ tombLeft' = tombLeft - 1
    BY <1>5, <2>3, <1>3 DEF Tick
  <2>5. QED
    BY <1>3, <2>1, <2>2, <2>4
<1>6. CASE p \in hidden /\ ~Tick
  <2>1. /\ p \in tombstones => p \in tombstones'
        /\ tombLeft' = tombLeft \/ tombLeft' >= m + 1
    BY <1>6, TombstoneStep, Lifetimes
  <2>2. CASE cacheLeft'[p] <= cacheLeft[p]
    <3>1. p \in tombstones /\ tombLeft >= cacheLeft[p]
      BY <1>3, <1>6, <2>2 DEF CopyInv, TombstoneOutlivesCopy
    <3>2. QED
      BY <1>2, <1>3, <2>1, <2>2, <3>1
  <2>3. CASE \E q \in Request : Carries(q, p)
    <3>1. p \in tombstones /\ tombLeft >= m
      BY <1>3, <1>6, <2>3 DEF CopyInv, Protected
    <3>2. QED
      BY <1>2, <1>3, <2>1, <3>1
  <2>4. QED
    BY <1>6, <2>2, <2>3, CopyStep
<1>7. QED
  BY <1>4, <1>5, <1>6

\* A hidden post without a tombstone is out of reach of every request.
LEMMA FilteredIsDead ==
  ASSUME TypeOK, CopyInv, NEW p \in hidden, p \notin tombstones
  PROVE  Dead(p)
<1>1. cacheLeft[p] \in Nat
  BY DEF TypeOK
<1>2. ~(cacheLeft[p] > 0)
  BY DEF CopyInv, TombstoneOutlivesCopy
<1>3. \A q \in Request : ~Carries(q, p)
  BY DEF CopyInv, Protected
<1>4. QED
  BY <1>1, <1>2, <1>3 DEF Dead

\* What is on its way into the cache stays protected by the tombstones.
LEMMA NextCopyInv ==
  ASSUME TypeOK, RowInv, CallInv, CopyInv, [Next]_vars
  PROVE  CopyInv'
<1>1. hidden' \subseteq Post
  BY NextTypeOK DEF TypeOK
<1>2. ASSUME NEW r \in Request, NEW p \in hidden', Carries(r, p)'
      PROVE  Protected(r, p)'
  <2>1. CASE p \notin hidden
    BY <2>1, BurialProtects
  <2>2. CASE p \in hidden
    <3>1. Carries(r, p)
            \/ (/\ stage[r] = "lookup" /\ call[r].op = "hydrate"
                /\ p \in call[r].missing /\ cacheLeft[p] > 0)
      BY <1>2, <2>2, CarryStep
    <3>2. stage[r] # "idle" /\ stage'[r] # "idle"
      BY <1>2, <3>1 DEF Carries
    <3>3. Protected(r, p)
      BY <2>2, <3>1 DEF CopyInv, Dead
    <3>4. QED
      BY <1>1, <3>2, <3>3, ProtectionStays
  <2>3. QED
    BY <2>1, <2>2
<1>3. ASSUME NEW r \in Request, NEW p \in hidden', stage'[r] \in {"mget", "lookup"},
             call'[r].op = "hydrate", p \in call'[r].missing
      PROVE  Protected(r, p)' \/ Dead(p)'
  <2>1. CASE p \notin hidden
    BY <2>1, BurialProtects
  <2>2. CASE p \in hidden
    <3>1. /\ call[r].op = "hydrate" /\ p \in call[r].missing
          /\ \/ stage[r] \in {"mget", "lookup"}
             \/ stage[r] = "filter" /\ p \notin tombstones
      BY <1>3, <2>2, WaitStep
    <3>2. CASE stage[r] = "filter" /\ p \notin tombstones
      <4>1. Dead(p)
        BY <2>2, <3>2, FilteredIsDead
      <4>2. QED
        BY <1>1, <4>1, DeadForever
    <3>3. CASE stage[r] \in {"mget", "lookup"}
      <4>1. Protected(r, p) \/ Dead(p)
        BY <2>2, <3>1, <3>3 DEF CopyInv
      <4>2. QED
        BY <1>1, <1>3, <3>3, <4>1, ProtectionStays, DeadForever
    <3>4. QED
      BY <3>1, <3>2, <3>3
  <2>3. QED
    BY <2>1, <2>2
<1>4. QED
  BY <1>2, <1>3, NextOutlives DEF CopyInv

-----------------------------------------------------------------------------
(* What a hydration answers. *)

\* A hydration gets a post it must not show only from the cache.
LEMMA PromiseStep ==
  ASSUME TypeOK, RowInv, [Next]_vars, NEW r \in Request, call'[r].op = "hydrate",
         NEW p \in call'[r].promised
  PROVE  \/ stage'[r] = "filter" /\ call'[r].found = {} /\ call'[r].response = {}
         \/ /\ call[r].op = "hydrate"
            /\ p \in call[r].promised
            /\ p \in call'[r].found \ call[r].found
                 => stage[r] = "mget" /\ p \in call[r].missing /\ cacheLeft[p] > 0
            /\ p \in call'[r].response \ call[r].response
                 => stage[r] = "lookup" /\ p \in call[r].missing /\ cacheLeft[p] > 0
<1> DEFINE Claim ==
             \/ stage'[r] = "filter" /\ call'[r].found = {} /\ call'[r].response = {}
             \/ /\ call[r].op = "hydrate"
                /\ p \in call[r].promised
                /\ p \in call'[r].found \ call[r].found
                     => stage[r] = "mget" /\ p \in call[r].missing /\ cacheLeft[p] > 0
                /\ p \in call'[r].response \ call[r].response
                     => stage[r] = "lookup" /\ p \in call[r].missing /\ cacheLeft[p] > 0
<1> USE DEF Stage, Enter, redis
<1>1. ASSUME NEW q \in Request, Begin(q) PROVE Claim
  <2>1. PICK o \in {"create", "delete", "get", "hydrate", "warm"}, ps \in SUBSET Post,
             s \in {"create", "delete", "lookup", "filter", "query"} :
               Arrive(q, o, ps, s) /\ (s = "filter" <=> o = "hydrate")
    BY <1>1, Beginning
  <2>2. QED
    BY <2>1 DEF Arrive, TypeOK, RowInv
<1>2. ASSUME NEW q \in Request, Abort(q) PROVE Claim
  BY <1>2, Ending, CallType DEF Abort, TypeOK, RowInv
<1>3. ASSUME NEW q \in Request, Create(q) PROVE Claim
  BY <1>3, CallType DEF Create, TypeOK, RowInv
<1>4. ASSUME NEW q \in Request, Set(q) PROVE Claim
  BY <1>4, CallType DEF Set, TypeOK, RowInv
<1>5. ASSUME NEW q \in Request, PublishCreated(q) PROVE Claim
  BY <1>5, Ending, CallType, CallType DEF PublishCreated, TypeOK, RowInv
<1>6. ASSUME NEW q \in Request, Delete(q) PROVE Claim
  BY <1>6, CallType DEF Delete, TypeOK, RowInv
<1>7. ASSUME NEW q \in Request, Tombstone(q) PROVE Claim
  BY <1>7, CallType DEF Tombstone, TypeOK, RowInv
<1>8. ASSUME NEW q \in Request, PublishDeleted(q) PROVE Claim
  BY <1>8, Ending, CallType, CallType DEF PublishDeleted, TypeOK, RowInv
<1>9. ASSUME NEW q \in Request, Filter(q) PROVE Claim
  BY <1>9, CallType DEF Filter, TypeOK, RowInv
<1>10. ASSUME NEW q \in Request, MGet(q) PROVE Claim
  BY <1>10, CallType DEF MGet, TypeOK, RowInv, Cached
<1>11. ASSUME NEW q \in Request, Lookup(q) PROVE Claim
  BY <1>11, CallType DEF Lookup, TypeOK, RowInv, AfterGetPosts, Cached
<1>12. ASSUME NEW q \in Request, Query(q) PROVE Claim
  BY <1>12, CallType DEF Query, TypeOK, RowInv, Live
<1>13. ASSUME NEW q \in Request, Refill(q) PROVE Claim
  BY <1>13, CallType DEF Refill, TypeOK, RowInv, AfterGetPosts
<1>14. ASSUME NEW q \in Request, Backfill(q) PROVE Claim
  BY <1>14, CallType DEF Backfill, TypeOK, RowInv
<1>15. ASSUME NEW q \in Request, BackfillFails(q) PROVE Claim
  BY <1>15, Ending, CallType DEF BackfillFails, TypeOK, RowInv
<1>16. ASSUME NEW q \in Request, Reply(q) PROVE Claim
  BY <1>16, Ending, CallType DEF Reply, TypeOK, RowInv
<1>17. ASSUME AddTombstone PROVE Claim
  BY <1>17, CallType DEF AddTombstone, TypeOK, RowInv
<1>18. ASSUME Tick PROVE Claim
  BY <1>18, CallType DEF Tick, TypeOK, RowInv
<1>19. CASE UNCHANGED vars
  BY <1>19 DEF vars, TypeOK, RowInv
<1>20. QED
  BY <1>1, <1>2, <1>3, <1>4, <1>5, <1>6, <1>7, <1>8, <1>9, <1>10,
     <1>11, <1>12, <1>13, <1>14, <1>15, <1>16, <1>17, <1>18, <1>19 DEF Next, Writing, Reading

\* Nothing is promised or owed at the start.
LEMMA InitAnswers == Init => PromiseInv /\ OwedInv
BY DEF Init, PromiseInv, OwedInv, NoCall

\* A post that was hidden when a hydration began does not get into its answer.
LEMMA NextPromiseInv ==
  ASSUME TypeOK, RowInv, CallInv, CopyInv, PromiseInv, [Next]_vars
  PROVE  PromiseInv'
<1> SUFFICES ASSUME NEW r \in Request, call'[r].op = "hydrate",
                    NEW p \in call'[r].promised
             PROVE  /\ p \notin call'[r].found
                    /\ p \notin call'[r].response
                    /\ stage'[r] \in {"mget", "lookup"} /\ p \in call'[r].missing
                         => Dead(p)'
  BY DEF PromiseInv
<1>1. CASE stage'[r] = "filter" /\ call'[r].found = {} /\ call'[r].response = {}
  BY <1>1
<1>2. CASE call[r].op = "hydrate" /\ p \in call[r].promised
  <2>1. p \in hidden /\ p \in Post
    BY <1>2, CallType DEF RowInv
  <2>2. stage[r] \in {"mget", "lookup"} /\ p \in call[r].missing => cacheLeft[p] = 0
    BY <1>2 DEF PromiseInv, Dead
  <2>3. p \notin call'[r].found /\ p \notin call'[r].response
    BY <1>2, <2>2, PromiseStep DEF PromiseInv
  <2>4. ASSUME stage'[r] \in {"mget", "lookup"}, p \in call'[r].missing
        PROVE  Dead(p)'
    <3>1. Dead(p)
      BY <1>2, <2>1, <2>4, WaitStep, FilteredIsDead DEF PromiseInv
    <3>2. QED
      BY <2>1, <3>1, DeadForever
  <2>5. QED
    BY <2>3, <2>4
<1>3. QED
  BY <1>1, <1>2, PromiseStep

\* A post that was live when a read began is not lost on the way.
LEMMA NextOwedInv ==
  ASSUME TypeOK, RowInv, CallInv, OwedInv, [Next]_vars
  PROVE  OwedInv'
<1> USE DEF Stage, Enter, redis
<1>1. ASSUME NEW q \in Request, Begin(q) PROVE OwedInv'
  <2>1. PICK o \in {"create", "delete", "get", "hydrate", "warm"}, ps \in SUBSET Post,
             s \in {"create", "delete", "lookup", "filter", "query"} :
               Arrive(q, o, ps, s) /\ (s = "filter" <=> o = "hydrate")
    BY <1>1, Beginning
  <2>2. QED
    BY <2>1 DEF Arrive, TypeOK, RowInv, OwedInv, Answer, Live
<1>2. ASSUME NEW q \in Request, Abort(q) PROVE OwedInv'
  BY <1>2, Ending, CallType DEF Abort, TypeOK, RowInv, OwedInv, Answer
<1>3. ASSUME NEW q \in Request, Create(q) PROVE OwedInv'
  BY <1>3, CallType DEF Create, TypeOK, RowInv, OwedInv, Answer, Live
<1>4. ASSUME NEW q \in Request, Set(q) PROVE OwedInv'
  BY <1>4, CallType DEF Set, TypeOK, RowInv, OwedInv, Answer
<1>5. ASSUME NEW q \in Request, PublishCreated(q) PROVE OwedInv'
  BY <1>5, Ending, CallType, CallType DEF PublishCreated, TypeOK, RowInv, OwedInv, Answer
<1>6. ASSUME NEW q \in Request, Delete(q) PROVE OwedInv'
  BY <1>6, CallType DEF Delete, TypeOK, RowInv, OwedInv, Answer, Live
<1>7. ASSUME NEW q \in Request, Tombstone(q) PROVE OwedInv'
  BY <1>7, CallType DEF Tombstone, TypeOK, RowInv, OwedInv, Answer
<1>8. ASSUME NEW q \in Request, PublishDeleted(q) PROVE OwedInv'
  BY <1>8, Ending, CallType, CallType DEF PublishDeleted, TypeOK, RowInv, OwedInv, Answer
<1>9. ASSUME NEW q \in Request, Filter(q) PROVE OwedInv'
  BY <1>9, CallType DEF Filter, TypeOK, RowInv, OwedInv, Answer
<1>10. ASSUME NEW q \in Request, MGet(q) PROVE OwedInv'
  <2>1. /\ call'[q].owed = call[q].owed
        /\ call[q].missing \union Answer(q) \subseteq call'[q].missing \union Answer(q)'
        /\ \/ stage'[q] = "reply" /\ call'[q].missing = {}
           \/ stage'[q] = "lookup"
    BY <1>10, CallType DEF MGet, TypeOK, CallInv, Answer, Cached
  <2>2. \A r \in Request \ {q} : call'[r] = call[r] /\ stage'[r] = stage[r]
    BY <1>10 DEF MGet, TypeOK
  <2>3. row' = row /\ stage[q] = "mget"
    BY <1>10 DEF MGet
  <2>4. QED
    BY <2>1, <2>2, <2>3 DEF OwedInv, Answer
<1>11. ASSUME NEW q \in Request, Lookup(q) PROVE OwedInv'
  <2>1. PICK hits \in {call[q].missing \intersect Cached, {}} :
           /\ call' = [call EXCEPT ![q].response = hits, ![q].missing = @ \ hits]
           /\ Enter(q, IF call[q].missing = hits THEN AfterGetPosts(q) ELSE "query")
    BY <1>11 DEF Lookup
  <2>2. /\ call'[q].owed = call[q].owed
        /\ call'[q].missing = call[q].missing \ hits
        /\ call'[q].response = hits
        /\ call'[q].found = call[q].found
    BY <2>1, CallType DEF TypeOK
  <2>3. /\ call[q].missing \union Answer(q) \subseteq call'[q].missing \union Answer(q)'
        /\ call'[q].missing = {} \/ stage'[q] = "query"
    BY <1>11, <2>1, <2>2 DEF Lookup, TypeOK, CallInv, Answer
  <2>4. \A r \in Request \ {q} : call'[r] = call[r] /\ stage'[r] = stage[r]
    BY <2>1 DEF TypeOK
  <2>5. row' = row /\ stage[q] = "lookup"
    BY <1>11 DEF Lookup
  <2>6. QED
    BY <2>2, <2>3, <2>4, <2>5 DEF OwedInv, Answer
<1>12. ASSUME NEW q \in Request, Query(q) PROVE OwedInv'
  BY <1>12, CallType DEF Query, TypeOK, RowInv, OwedInv, Answer, Live
<1>13. ASSUME NEW q \in Request, Refill(q) PROVE OwedInv'
  BY <1>13, CallType DEF Refill, TypeOK, RowInv, OwedInv, Answer, AfterGetPosts
<1>14. ASSUME NEW q \in Request, Backfill(q) PROVE OwedInv'
  BY <1>14, CallType DEF Backfill, TypeOK, RowInv, OwedInv, Answer
<1>15. ASSUME NEW q \in Request, BackfillFails(q) PROVE OwedInv'
  BY <1>15, Ending, CallType DEF BackfillFails, TypeOK, RowInv, OwedInv, Answer
<1>16. ASSUME NEW q \in Request, Reply(q) PROVE OwedInv'
  BY <1>16, Ending, CallType DEF Reply, TypeOK, RowInv, OwedInv, Answer
<1>17. ASSUME AddTombstone PROVE OwedInv'
  BY <1>17, CallType DEF AddTombstone, TypeOK, RowInv, OwedInv, Answer
<1>18. ASSUME Tick PROVE OwedInv'
  BY <1>18, CallType DEF Tick, TypeOK, RowInv, OwedInv, Answer
<1>19. CASE UNCHANGED vars
  BY <1>19 DEF vars, TypeOK, RowInv, OwedInv, Answer
<1>20. QED
  BY <1>1, <1>2, <1>3, <1>4, <1>5, <1>6, <1>7, <1>8, <1>9, <1>10,
     <1>11, <1>12, <1>13, <1>14, <1>15, <1>16, <1>17, <1>18, <1>19 DEF Next, Writing, Reading

-----------------------------------------------------------------------------
(* The invariant and what follows from it. *)

PostCacheInv ==
    /\ TypeOK
    /\ RowInv
    /\ CallInv
    /\ CopyInv
    /\ PromiseInv
    /\ OwedInv

\* The conjunction that a hydration and a delete rely on holds throughout.
THEOREM Invariance == Safety => []PostCacheInv
<1>1. Init => PostCacheInv
  BY InitTypeOK, InitRowInv, InitCopyInv, InitAnswers DEF PostCacheInv
<1>2. PostCacheInv /\ [Next]_vars => PostCacheInv'
  BY NextTypeOK, NextRowInv, NextCallInv, NextCopyInv, NextPromiseInv, NextOwedInv
     DEF PostCacheInv
<1>3. QED
  BY <1>1, <1>2, PTL DEF Safety

\* A stale copy of a tombstoned post is gone before the tombstones are.
THEOREM StaleCopiesDieFirst == Safety => []TombstoneOutlivesCopy
<1>1. PostCacheInv => TombstoneOutlivesCopy
  BY DEF PostCacheInv, CopyInv
<1>2. QED
  BY <1>1, Invariance, PTL

\* A hydration that begins after the tombstone was written never shows the post.
THEOREM DeletedStayHidden == Safety => []FeedHidesDeleted
<1>1. PostCacheInv => FeedHidesDeleted
  BY DEF PostCacheInv, PromiseInv, FeedHidesDeleted, Answer
<1>2. QED
  BY <1>1, Invariance, PTL

\* No read misses a post that was live all along.
THEOREM LiveStayServed == Safety => []LivePostsServed
<1>1. PostCacheInv => LivePostsServed
  BY DEF PostCacheInv, RowInv, OwedInv, LivePostsServed, Live
<1>2. QED
  BY <1>1, Invariance, PTL
=============================================================================
