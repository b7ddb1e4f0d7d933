---------------------------- MODULE FeedReadProofs ----------------------------
(***************************************************************************)
(* Proofs about FeedRead: for any posts, lists, scores, page sizes and     *)
(* number of changes, a page misses no standing candidate, omissions are   *)
(* crossings, only time makes a post cross, and while scores only decay a  *)
(* post is shown again only when its own score fell.                       *)
(***************************************************************************)
EXTENDS FeedRead, TopProofs

-----------------------------------------------------------------------------
(* The two orders of the feed. *)

Times == Start..MaxTime

\* A set of engagements has at most as many members as there are engagements.
LEMMA EngagementsBound ==
    ASSUME NEW E \in SUBSET Engagements
    PROVE  /\ IsFiniteSet(E)
           /\ Cardinality(E) \in Nat
           /\ Cardinality(Engagements) \in Nat
           /\ Cardinality(E) <= Cardinality(Engagements)
BY ConstantsAssumption, FS_Subset, FS_CardinalityType DEF ConstantsAssumption

\* A post's likes and comments index the engagement scores.
LEMMA CountsBound ==
    ASSUME NEW p \in Post
    PROVE  Count(p, "like") + 2 * Count(p, "comment") \in 0..(2 * Cardinality(Engagements))
<1> DEFINE Likes == {e \in Engagements : e.post = p /\ e.type = "like"}
           Comments == {e \in Engagements : e.post = p /\ e.type = "comment"}
<1>1. /\ Likes \in SUBSET Engagements
      /\ Comments \in SUBSET Engagements
      /\ Likes \union Comments \in SUBSET Engagements
      /\ Likes \intersect Comments = {}
  OBVIOUS
<1> HIDE DEF Likes, Comments
<1>2. /\ IsFiniteSet(Likes) /\ Cardinality(Likes) \in Nat
      /\ IsFiniteSet(Comments) /\ Cardinality(Comments) \in Nat
      /\ Cardinality(Comments) <= Cardinality(Engagements)
      /\ Cardinality(Engagements) \in Nat
      /\ Cardinality(Likes \union Comments) <= Cardinality(Engagements)
  BY <1>1, EngagementsBound
<1>3. Cardinality(Likes \intersect Comments) = 0
  BY <1>1, FS_EmptySet
<1>4. Cardinality(Likes \union Comments)
        = Cardinality(Likes) + Cardinality(Comments) - Cardinality(Likes \intersect Comments)
  BY <1>2, FS_Union
<1>5. Count(p, "like") = Cardinality(Likes) /\ Count(p, "comment") = Cardinality(Comments)
  BY DEF Count, Likes, Comments
<1> QED
  BY <1>2, <1>3, <1>4, <1>5

\* The affinity with an author is a number.
LEMMA AffinityType ==
    ASSUME NEW a, NEW t
    PROVE  Affinity(a, t) \in Nat
<1> DEFINE Recent == {e \in Engagements : /\ e.user = Viewer
                                          /\ e.at >= t - AffinityWindow
                                          /\ AuthorOf[e.post] = a}
<1>1. Recent \in SUBSET Engagements
  OBVIOUS
<1>2. Affinity(a, t) = IF Recent = {} THEN AffinityDefault ELSE Cardinality(Recent)
  BY DEF Affinity
<1> HIDE DEF Recent
<1> QED
  BY <1>1, <1>2, EngagementsBound, ConstantsAssumption DEF ConstantsAssumption

\* Every post has a score at every time.
LEMMA ScoreType ==
    ASSUME NEW p \in Post, NEW t \in Times
    PROVE  Score[t][p] \in Nat
<1>1. Age(p, t) \in 0..MaxTime
  BY ConstantsAssumption DEF Age, Times, ConstantsAssumption
<1>2. RecencyScore[Age(p, t)] \in Nat
  BY <1>1, ConstantsAssumption DEF ConstantsAssumption
<1>3. EngagementScore[Count(p, "like") + 2 * Count(p, "comment")] \in Nat
  BY CountsBound, ConstantsAssumption DEF ConstantsAssumption
<1>4. AffinityWeight * Affinity(AuthorOf[p], t) \in Nat
  BY AffinityType, ConstantsAssumption DEF ConstantsAssumption
<1>5. Score[t][p] = RecencyScore[Age(p, t)]
                      + EngagementScore[Count(p, "like") + 2 * Count(p, "comment")]
                      + AffinityWeight * Affinity(AuthorOf[p], t)
  BY DEF Score, Times
<1> QED
  BY <1>2, <1>3, <1>4, <1>5

NewerPairs == {pq \in Post \X Post : Newer(pq[1], pq[2])}
AbovePairs(t) == {pq \in Post \X Post : Above(pq[1], pq[2], t)}

\* Posts are totally ordered by creation time and ID, ...
LEMMA NewerOrder ==
    ASSUME NEW S \in SUBSET Post
    PROVE  StrictOrder(NewerPairs, S)
<1>1. \A p \in Post : p \in Nat /\ Created[p] \in Nat
  BY ConstantsAssumption DEF ConstantsAssumption
<1>2. \A p, q \in S : <<p, q>> \in NewerPairs <=> Newer(p, q)
  BY DEF NewerPairs
<1>3. /\ \A p \in S : ~Newer(p, p)
      /\ \A p, q, r \in S : Newer(p, q) /\ Newer(q, r) => Newer(p, r)
      /\ \A p, q \in S : p = q \/ Newer(p, q) \/ Newer(q, p)
  BY <1>1 DEF Newer
<1> QED
  BY <1>2, <1>3 DEF StrictOrder

\* ... and by score, creation time and ID.
LEMMA AboveOrder ==
    ASSUME NEW S \in SUBSET Post, NEW t \in Times
    PROVE  /\ \A p \in S : ~Above(p, p, t)
           /\ \A p, q, r \in S : Above(p, q, t) /\ Above(q, r, t) => Above(p, r, t)
           /\ \A p, q \in S : p = q \/ Above(p, q, t) \/ Above(q, p, t)
           /\ StrictOrder(AbovePairs(t), S)
<1>1. \A p \in Post : p \in Nat /\ Created[p] \in Nat /\ Score[t][p] \in Nat
  BY ScoreType, ConstantsAssumption DEF ConstantsAssumption
<1>2. \A p, q \in S : <<p, q>> \in AbovePairs(t) <=> Above(p, q, t)
  BY DEF AbovePairs
<1>3. /\ \A p \in S : ~Above(p, p, t)
      /\ \A p, q, r \in S : Above(p, q, t) /\ Above(q, r, t) => Above(p, r, t)
      /\ \A p, q \in S : p = q \/ Above(p, q, t) \/ Above(q, p, t)
  BY <1>1 DEF Above, Newer
<1> QED
  BY <1>2, <1>3 DEF StrictOrder

\* Newest takes the first by Newer.
LEMMA NewestIsTop ==
    ASSUME NEW S \in SUBSET Post, NEW n
    PROVE  Newest(n, S) = TopOf(NewerPairs, n, S)
<1>1. \A p \in S : {q \in S : Newer(q, p)} = AboveIn(NewerPairs, S, p)
  BY DEF AboveIn, NewerPairs
<1> QED
  BY <1>1 DEF Newest, TopOf

\* Page takes the first by Above.
LEMMA PageIsTop ==
    ASSUME NEW S \in SUBSET Post, NEW t
    PROVE  Page(S, t) = TopOf(AbovePairs(t), PageSize, S)
<1>1. \A p \in S : {q \in S : Above(q, p, t)} = AboveIn(AbovePairs(t), S, p)
  BY DEF AboveIn, AbovePairs
<1> QED
  BY <1>1 DEF Page, TopOf

\* The posts left over rank below the page.
LEMMA PageIsAbove ==
    ASSUME NEW S \in SUBSET Post, NEW t \in Times,
           NEW p \in Page(S, t), NEW q \in S \ Page(S, t)
    PROVE  Above(p, q, t)
<1>1. IsFiniteSet(S)
  BY FS_Subset, ConstantsAssumption DEF ConstantsAssumption
<1>2. StrictOrder(AbovePairs(t), S)
  BY AboveOrder
<1>3. PageSize \in Nat
  BY ConstantsAssumption DEF ConstantsAssumption
<1>4. <<p, q>> \in AbovePairs(t)
  BY <1>1, <1>2, <1>3, PageIsTop, TopIsAbove
<1> QED
  BY <1>4 DEF AbovePairs

\* The cursor of a post compares as the post itself does, at the same time.
LEMMA CursorCompares ==
    ASSUME NEW p \in Post, NEW q \in Post, NEW t \in Times
    PROVE  BelowCursor(p, CursorAt(q, t), t) <=> Above(q, p, t)
<1>1. /\ p \in Nat /\ Created[p] \in Nat /\ Score[t][p] \in Nat
      /\ q \in Nat /\ Created[q] \in Nat /\ Score[t][q] \in Nat
  BY ScoreType, ConstantsAssumption DEF ConstantsAssumption
<1>2. /\ CursorAt(q, t).score = Score[t][q]
      /\ CursorAt(q, t).created = Created[q]
      /\ CursorAt(q, t).id = q
  BY DEF CursorAt
<1> QED
  BY <1>1, <1>2 DEF BelowCursor, Above, Newer

\* A post among the n newest of a set is among the n newest of a subset ...
LEMMA NewestOfSubset ==
    ASSUME NEW S \in SUBSET Post, NEW T \in SUBSET S, NEW n \in Nat,
           NEW p \in T, p \in Newest(n, S)
    PROVE  p \in Newest(n, T)
<1> DEFINE InS == {q \in S : Newer(q, p)}
           InT == {q \in T : Newer(q, p)}
<1>1. InS \in SUBSET Post /\ InT \in SUBSET InS
  OBVIOUS
<1>2. Cardinality(InS) < n
  BY DEF Newest
<1> HIDE DEF InS, InT
<1>3. IsFiniteSet(InS)
  BY <1>1, FS_Subset, ConstantsAssumption DEF ConstantsAssumption
<1>4. Cardinality(InT) \in Nat /\ Cardinality(InS) \in Nat /\ Cardinality(InT) <= Cardinality(InS)
  BY <1>1, <1>3, FS_Subset, FS_CardinalityType
<1>5. Cardinality(InT) < n
  BY <1>2, <1>4
<1> QED
  BY <1>5 DEF Newest, InT

\* ... and of a set that holds no newer post besides.
LEMMA NewestOfFewer ==
    ASSUME NEW S \in SUBSET Post, NEW T \in SUBSET Post, NEW n \in Nat,
           NEW p \in T, p \in Newest(n, S), \A q \in T : Newer(q, p) => q \in S
    PROVE  p \in Newest(n, T)
<1> DEFINE InS == {q \in S : Newer(q, p)}
           InT == {q \in T : Newer(q, p)}
<1>1. InS \in SUBSET Post /\ InT \in SUBSET InS
  OBVIOUS
<1>2. Cardinality(InS) < n
  BY DEF Newest
<1> HIDE DEF InS, InT
<1>3. IsFiniteSet(InS)
  BY <1>1, FS_Subset, ConstantsAssumption DEF ConstantsAssumption
<1>4. Cardinality(InT) \in Nat /\ Cardinality(InS) \in Nat /\ Cardinality(InT) <= Cardinality(InS)
  BY <1>1, <1>3, FS_Subset, FS_CardinalityType
<1>5. Cardinality(InT) < n
  BY <1>2, <1>4
<1> QED
  BY <1>5 DEF Newest, InT

\* What a trim drops has MaxTimelineLen newer posts in the list, so it is not
\* newer than a post in the pool.
LEMMA TrimKeepsPool ==
    ASSUME NEW S \in SUBSET Post, NEW T \in SUBSET Post,
           Newest(MaxTimelineLen, S) \subseteq T,
           NEW p \in Newest(CandidatePool, T),
           NEW q \in S, q \notin T, Newer(q, p)
    PROVE  FALSE
<1> DEFINE Kept == Newest(MaxTimelineLen, S)
           InT == {r \in T : Newer(r, p)}
<1>1. /\ MaxTimelineLen \in Nat /\ CandidatePool \in Nat
      /\ CandidatePool <= MaxTimelineLen
      /\ IsFiniteSet(S) /\ IsFiniteSet(T)
  BY FS_Subset, ConstantsAssumption DEF ConstantsAssumption
<1>2. StrictOrder(NewerPairs, S)
  BY NewerOrder
<1>3. Kept = TopOf(NewerPairs, MaxTimelineLen, S)
  BY NewestIsTop
<1>4. q \in S \ Kept
  OBVIOUS
<1>5. /\ IsFiniteSet(Kept) /\ Cardinality(Kept) \in Nat
      /\ Cardinality(Kept) >= MaxTimelineLen
  BY <1>1, <1>2, <1>3, <1>4, TopIsFull
<1>6. ASSUME NEW r \in Kept PROVE r \in InT
  <2>1. <<r, q>> \in NewerPairs
    BY <1>1, <1>2, <1>3, <1>4, <1>6, TopIsAbove
  <2>2. Newer(r, q)
    BY <2>1 DEF NewerPairs
  <2>3. p \in Post /\ q \in Post /\ r \in Post
    BY <2>1 DEF NewerPairs, Newest
  <2>4. Newer(r, p)
    BY <2>2, <2>3, ConstantsAssumption DEF Newer, ConstantsAssumption
  <2> QED
    BY <2>4
<1>7. Cardinality(InT) < CandidatePool
  BY DEF Newest
<1>8. Kept \in SUBSET InT /\ InT \in SUBSET T
  BY <1>6
<1> HIDE DEF Kept, InT
<1>9. IsFiniteSet(InT)
  BY <1>1, <1>8, FS_Subset
<1>10. Cardinality(Kept) <= Cardinality(InT) /\ Cardinality(InT) \in Nat
  BY <1>8, <1>9, FS_Subset, FS_CardinalityType
<1> QED
  BY <1>1, <1>5, <1>7, <1>10

-----------------------------------------------------------------------------
(* Types. *)

\* Times and bounds, as the constants give them.
LEMMA ConstantFacts ==
    /\ CandidatePool \in Nat /\ MaxTimelineLen \in Nat /\ PageSize \in Nat
    /\ CandidatePool <= MaxTimelineLen
    /\ Start \in Nat /\ MaxTime \in Nat /\ Start <= MaxTime /\ MaxChanges \in Nat
    /\ NoCursor \notin Cursor
    /\ \A p \in Post : AuthorOf[p] \in Author
BY ConstantsAssumption DEF ConstantsAssumption

\* A cursor holds a score, a creation time and a post.
LEMMA CursorType ==
    ASSUME NEW p \in Post, NEW t \in Times
    PROVE  CursorAt(p, t) \in Cursor
BY ScoreType, ConstantsAssumption DEF CursorAt, Cursor, ConstantsAssumption

\* What stands is a set of posts, each with a list.
LEMMA StandingType ==
    TypeOK => Standing \in SUBSET (Post \X {"timeline", "celebrity"})
BY DEF TypeOK, Standing, Newest

\* The beginning has the types.
LEMMA InitType == Init => TypeOK
<1> SUFFICES ASSUME Init PROVE TypeOK
  OBVIOUS
<1> USE ConstantFacts
<1>1. timeline \in SUBSET Post /\ celebrityPosts \in SUBSET Post
  BY DEF Init
<1>2. now \in Start..MaxTime /\ changes \in 0..MaxChanges
  BY DEF Init
<1>3. /\ {shown, below, crossed} \subseteq SUBSET Post
      /\ seen \in [Post -> Start..MaxTime]
      /\ repeats \subseteq [post : Post, from : Start..MaxTime, to : Start..MaxTime]
  BY DEF Init
<1> QED
  BY <1>1, <1>2, <1>3 DEF Init, TypeOK, Stage

\* Each write of another process keeps them.
LEMMA WorldType == TypeOK /\ World => TypeOK'
<1> SUFFICES ASSUME TypeOK, World PROVE TypeOK'
  OBVIOUS
<1> USE ConstantFacts
<1>1. ASSUME Change PROVE /\ standing' \in SUBSET (Post \X {"timeline", "celebrity"})
                          /\ changes' \in 0..MaxChanges
                          /\ UNCHANGED <<now, stage, candidates, posts, walk, ticked>>
  BY <1>1 DEF Change, TypeOK
<1>2. ASSUME NEW p \in Post, AddToTimeline(p) PROVE TypeOK'
  BY <1>1, <1>2 DEF AddToTimeline, Newest, TypeOK, candidates, walk
<1>3. ASSUME NEW p \in Post, AddCelebrityPost(p) PROVE TypeOK'
  BY <1>1, <1>3 DEF AddCelebrityPost, Newest, TypeOK, candidates, walk
<1>4. ASSUME NEW p \in Post, Delete(p) PROVE TypeOK'
  BY <1>1, <1>4 DEF Delete, TypeOK, candidates, walk
<1>5. ASSUME NEW p \in Post, Tombstone(p) PROVE TypeOK'
  BY <1>1, <1>5 DEF Tombstone, TypeOK, candidates, walk
<1>6. ASSUME NEW a \in Author, FollowCelebrity(a) PROVE TypeOK'
  BY <1>1, <1>6 DEF FollowCelebrity, TypeOK, candidates, walk
<1>7. CASE Tick
  BY <1>7 DEF Tick, TypeOK, lists, candidates, walk
<1> QED
  BY <1>2, <1>3, <1>4, <1>5, <1>6, <1>7 DEF World

\* Each step of the viewer and of a request keeps them.
LEMMA ReaderType ==
    TypeOK /\ (Open \/ Scroll \/ GetFeed \/ Fail) => TypeOK'
<1> SUFFICES ASSUME TypeOK, Open \/ Scroll \/ GetFeed \/ Fail PROVE TypeOK'
  OBVIOUS
<1> USE ConstantFacts DEF At, Go, Stage
<1>1. CASE Open
  <2>1. /\ {shown', below', crossed'} \subseteq SUBSET Post
        /\ seen' \in [Post -> Start..MaxTime]
        /\ repeats' \subseteq [post : Post, from : Start..MaxTime, to : Start..MaxTime]
    BY <1>1 DEF Open
  <2> QED
    BY <1>1, <2>1, StandingType DEF Open, TypeOK, lists, candidates
<1>2. CASE Scroll
  BY <1>2 DEF Scroll, TypeOK, lists, candidates, walk
<1>3. CASE ReadTimeline
  BY <1>3 DEF ReadTimeline, Newest, TypeOK, lists, walk
<1>4. CASE ReadCelebrityPosts
  BY <1>4 DEF ReadCelebrityPosts, Newest, TypeOK, lists, walk
<1>5. CASE ReadFollowing
  BY <1>5 DEF ReadFollowing, TypeOK, lists, walk
<1>6. CASE ReadTombstones
  BY <1>6 DEF ReadTombstones, TypeOK, lists, walk
<1>7. CASE Hydrate
  <2>1. posts' \in SUBSET Post
    BY <1>7 DEF Hydrate, SelectPosts, Newest, TypeOK
  <2> QED
    BY <1>7, <2>1 DEF Hydrate, NoCandidates, TypeOK, lists, walk
<1>8. CASE Serve
  <2> DEFINE rest == FromPageStart(posts, cursor, now)
             page == Page(rest, now)
  <2>1. rest \in SUBSET posts /\ page \in SUBSET rest
    BY DEF FromPageStart, Page
  <2>2. now \in Times
    BY DEF TypeOK, Times
  <2>3. Crossing \in SUBSET Post
    BY DEF Crossing, TypeOK
  <2>4. /\ shown' = shown \union page
        /\ seen' = [p \in Post |-> IF p \in page THEN now ELSE seen[p]]
        /\ repeats' = {[post |-> p, from |-> seen[p], to |-> now] :
                          p \in shown \intersect page}
        /\ below' = rest \ page
        /\ crossed' = crossed \union Crossing
    BY <1>8 DEF Serve
  <2> HIDE DEF rest, page
  <2>5. /\ {shown', below', crossed'} \subseteq SUBSET Post
        /\ seen' \in [Post -> Start..MaxTime]
        /\ repeats' \subseteq [post : Post, from : Start..MaxTime, to : Start..MaxTime]
    <3>1. {shown', below', crossed'} \subseteq SUBSET Post
      BY <2>1, <2>3, <2>4 DEF TypeOK
    <3>2. seen' \in [Post -> Start..MaxTime]
      BY <2>2, <2>4 DEF TypeOK, Times
    <3>3. ASSUME NEW p \in shown \intersect page
          PROVE  [post |-> p, from |-> seen[p], to |-> now]
                   \in [post : Post, from : Start..MaxTime, to : Start..MaxTime]
      BY <2>1, <2>2 DEF TypeOK, Times
    <3> QED
      BY <2>4, <3>1, <3>2, <3>3 DEF TypeOK
  <2>6. stage' \in Stage /\ cursor' \in Cursor \union {NoCursor}
    <3>1. CASE rest = page
      BY <1>8, <3>1 DEF Serve, rest, page
    <3>2. CASE rest # page
      <4>1. PICK last \in page : stage' = "scroll" /\ cursor' = CursorAt(last, now)
        BY <1>8, <3>2 DEF Serve, rest, page
      <4>2. last \in Post
        BY <2>1 DEF TypeOK
      <4> QED
        BY <2>2, <4>1, <4>2, CursorType
    <3> QED
      BY <3>1, <3>2
  <2> QED
    BY <1>8, <2>5, <2>6 DEF Serve, TypeOK, lists, candidates
<1>9. CASE Fail
  BY <1>9 DEF Fail, NoCandidates, TypeOK, lists, walk
<1> QED
  BY <1>1, <1>2, <1>3, <1>4, <1>5, <1>6, <1>7, <1>8, <1>9 DEF GetFeed

\* No step leaves the types.
LEMMA NextType == TypeOK /\ [Next]_vars => TypeOK'
<1>1. ASSUME TypeOK, UNCHANGED vars PROVE TypeOK'
  BY <1>1 DEF vars, lists, candidates, walk, TypeOK
<1> QED
  BY <1>1, WorldType, ReaderType DEF Next

\* The lists, the request and the walk stay in their types, for any posts and
\* scores: a token always holds a score, a time and a post (cursor.go:22-33).
THEOREM TypeCorrect == Safety => []TypeOK
BY InitType, NextType, PTL DEF Safety

-----------------------------------------------------------------------------
(* Load misses none. *)

Reading == {"celebrity", "following", "tombstones", "hydrate"}

\* What stands is a candidate now.
StandingInv == standing \subseteq Standing

\* Between requests there are no candidates of a request.
NoneLeft == stage \in {"home", "scroll", "rank"} => normal = {} /\ celebrity = {}

\* What has been read holds what stands, ...
HoldsStanding ==
    \A p \in Post :
        /\ <<p, "timeline">> \in standing =>
             /\ stage \in Reading => p \in normal
             /\ stage = "rank" => p \in posts
        /\ <<p, "celebrity">> \in standing =>
             /\ stage \in Reading \ {"celebrity"} => p \in celebrity
             /\ stage \in {"tombstones", "hydrate"} => AuthorOf[p] \in followed
             /\ stage = "rank" => p \in posts

\* ... and nothing newer than what stands has left the lists: whatever crowds a
\* post out of the pool at the end of Load would have done so in the lists.
NewerAreListed ==
    \A q \in normal \union celebrity, s \in standing :
        Newer(q, s[1]) => q \in timeline \union celebrityPosts

LoadInv == StandingInv /\ NoneLeft /\ HoldsStanding /\ NewerAreListed

\* The members of Standing, by list.
LEMMA StandingMembers ==
    ASSUME NEW p
    PROVE  /\ <<p, "timeline">> \in Standing <=>
                /\ p \in Newest(CandidatePool, timeline \union celebrityPosts)
                /\ p \notin deleted
                /\ p \in timeline
           /\ <<p, "celebrity">> \in Standing <=>
                /\ p \in Newest(CandidatePool, timeline \union celebrityPosts)
                /\ p \notin deleted
                /\ p \in celebrityPosts
                /\ AuthorOf[p] \in following
BY DEF Standing

\* A post that stands does so by one of its lists.
LEMMA StandingPairs ==
    ASSUME TypeOK, NEW s \in standing
    PROVE  /\ s[1] \in Post
           /\ s = <<s[1], "timeline">> \/ s = <<s[1], "celebrity">>
BY DEF TypeOK

\* What stands is in the pool of both lists together.
LEMMA StandingInPool ==
    ASSUME TypeOK, StandingInv, NEW s \in standing
    PROVE  /\ s[1] \in Newest(CandidatePool, timeline \union celebrityPosts)
           /\ s[1] \notin deleted
BY StandingPairs, StandingMembers DEF StandingInv

\* HoldsStanding is about one post and list, and implies the property.
LEMMA HeldAreRanked == TypeOK /\ HoldsStanding => LoadMissesNone
BY StandingPairs DEF HoldsStanding, LoadMissesNone, At

\* The beginning.
LEMMA InitLoadInv == Init => LoadInv
BY DEF Init, LoadInv, StandingInv, NoneLeft, HoldsStanding, NewerAreListed, Reading

\* A write may end the standing of a post but brings none into it, and a list
\* that is trimmed keeps everything newer than what still stands.
LEMMA WorldLoadInv == TypeOK /\ TypeOK' /\ LoadInv /\ World => LoadInv'
<1> SUFFICES ASSUME TypeOK, TypeOK', LoadInv, World PROVE LoadInv'
  OBVIOUS
<1>1. CASE Tick
  <2>1. UNCHANGED Standing
    BY <1>1 DEF Tick, lists, Standing, Newest
  <2> QED
    BY <1>1, <2>1 DEF Tick, lists, candidates, LoadInv, StandingInv, NoneLeft,
                      HoldsStanding, NewerAreListed
<1>2. ASSUME Change, timeline \union celebrityPosts \subseteq timeline' \union celebrityPosts'
      PROVE  LoadInv'
  <2>1. /\ standing' \subseteq standing /\ StandingInv'
        /\ UNCHANGED <<stage, normal, celebrity, followed, posts>>
    BY <1>2 DEF Change, candidates, StandingInv
  <2> QED
    BY <1>2, <2>1 DEF LoadInv, NoneLeft, HoldsStanding, NewerAreListed
<1>3. ASSUME NEW S \in SUBSET Post, Newest(MaxTimelineLen, S) \subseteq timeline' \union celebrityPosts',
             timeline \union celebrityPosts \subseteq S \union timeline' \union celebrityPosts',
             Change
      PROVE  LoadInv'
  <2>1. /\ standing' \subseteq standing /\ StandingInv'
        /\ UNCHANGED <<stage, normal, celebrity, followed, posts>>
    BY <1>3 DEF Change, candidates, StandingInv
  <2>2. NoneLeft' /\ HoldsStanding'
    BY <2>1 DEF LoadInv, NoneLeft, HoldsStanding
  <2>3. ASSUME NEW q \in normal' \union celebrity', NEW s \in standing', Newer(q, s[1]),
               q \notin timeline' \union celebrityPosts'
        PROVE  FALSE
    <3>1. q \in timeline \union celebrityPosts
      BY <2>1, <2>3 DEF LoadInv, NewerAreListed
    <3>2. q \in S
      BY <1>3, <2>3, <3>1
    <3>3. s[1] \in Newest(CandidatePool, timeline' \union celebrityPosts')
      <4>1. s \in Standing'
        BY <2>1 DEF StandingInv
      <4>2. s = <<s[1], "timeline">> \/ s = <<s[1], "celebrity">>
        BY DEF TypeOK
      <4> QED
        BY <4>1, <4>2 DEF Standing
    <3>4. timeline' \union celebrityPosts' \in SUBSET Post
      BY DEF TypeOK
    <3> QED
      BY <1>3, <2>3, <3>2, <3>3, <3>4, TrimKeepsPool
  <2> QED
    BY <2>1, <2>2, <2>3 DEF LoadInv, NewerAreListed
<1>4. ASSUME NEW p \in Post, AddToTimeline(p) PROVE LoadInv'
  <2>1. timeline \union {p} \in SUBSET Post
    BY DEF TypeOK
  <2>2. /\ Newest(MaxTimelineLen, timeline \union {p}) \subseteq timeline' \union celebrityPosts'
        /\ timeline \union celebrityPosts
             \subseteq (timeline \union {p}) \union timeline' \union celebrityPosts'
        /\ Change
    BY <1>4 DEF AddToTimeline
  <2> QED
    BY <1>3, <2>1, <2>2
<1>5. ASSUME NEW p \in Post, AddCelebrityPost(p) PROVE LoadInv'
  <2>1. celebrityPosts \union {p} \in SUBSET Post
    BY DEF TypeOK
  <2>2. /\ Newest(MaxTimelineLen, celebrityPosts \union {p}) \subseteq timeline' \union celebrityPosts'
        /\ timeline \union celebrityPosts
             \subseteq (celebrityPosts \union {p}) \union timeline' \union celebrityPosts'
        /\ Change
    BY <1>5 DEF AddCelebrityPost
  <2> QED
    BY <1>3, <2>1, <2>2
<1>6. ASSUME NEW p \in Post, Delete(p) PROVE LoadInv'
  BY <1>2, <1>6 DEF Delete
<1>7. ASSUME NEW p \in Post, Tombstone(p) PROVE LoadInv'
  BY <1>2, <1>7 DEF Tombstone
<1>8. ASSUME NEW a \in Author, FollowCelebrity(a) PROVE LoadInv'
  BY <1>2, <1>8 DEF FollowCelebrity
<1> QED
  BY <1>1, <1>4, <1>5, <1>6, <1>7, <1>8 DEF World

\* While the lists do not change, neither does what stands in them.
LEMMA SameStanding ==
    ASSUME UNCHANGED lists
    PROVE  UNCHANGED Standing
BY DEF lists, Standing, Newest

\* The reads of Load and the cut of selectPosts.
LEMMA ReaderLoadInv ==
    TypeOK /\ LoadInv /\ (Open \/ Scroll \/ GetFeed \/ Fail) => LoadInv'
<1> SUFFICES ASSUME TypeOK, LoadInv, Open \/ Scroll \/ GetFeed \/ Fail PROVE LoadInv'
  OBVIOUS
<1> USE DEF At, Go, Reading
<1>1. UNCHANGED Standing /\ UNCHANGED lists
  BY SameStanding DEF Open, Scroll, GetFeed, Fail, ReadTimeline, ReadCelebrityPosts,
                      ReadFollowing, ReadTombstones, Hydrate, Serve, lists
<1>2. UNCHANGED <<timeline, celebrityPosts>>
  BY <1>1 DEF lists
<1>3. /\ timeline \in SUBSET Post /\ celebrityPosts \in SUBSET Post
      /\ timeline \union celebrityPosts \in SUBSET Post
      /\ CandidatePool \in Nat
  BY ConstantFacts DEF TypeOK
<1>4. /\ Newest(CandidatePool, timeline) \subseteq timeline
      /\ Newest(CandidatePool, celebrityPosts) \subseteq celebrityPosts
  BY DEF Newest
<1>5. CASE Open
  <2>1. /\ standing' = Standing
        /\ normal' = {} /\ celebrity' = {} /\ stage' = "timeline"
    BY <1>5 DEF Open, candidates, LoadInv, NoneLeft
  <2> QED
    BY <1>1, <2>1 DEF LoadInv, StandingInv, NoneLeft, HoldsStanding, NewerAreListed
<1>6. CASE Scroll
  BY <1>1, <1>2, <1>6 DEF Scroll, candidates, LoadInv, StandingInv, NoneLeft, HoldsStanding, NewerAreListed
<1>7. CASE ReadTimeline
  <2>1. /\ stage = "timeline" /\ stage' = "celebrity"
        /\ normal' = Newest(CandidatePool, timeline)
        /\ UNCHANGED <<celebrity, followed, posts, standing>>
    BY <1>7 DEF ReadTimeline
  <2>2. ASSUME NEW p \in Post, <<p, "timeline">> \in standing PROVE p \in normal'
    <3>1. p \in Newest(CandidatePool, timeline \union celebrityPosts) /\ p \in timeline
      BY <2>2, StandingMembers DEF LoadInv, StandingInv
    <3> QED
      BY <1>3, <2>1, <3>1, NewestOfSubset
  <2>3. HoldsStanding'
    BY <2>1, <2>2 DEF HoldsStanding
  <2>4. NewerAreListed'
    BY <1>2, <1>4, <2>1 DEF LoadInv, NewerAreListed
  <2> QED
    BY <1>1, <2>1, <2>3, <2>4 DEF LoadInv, StandingInv, NoneLeft
<1>8. CASE ReadCelebrityPosts
  <2>1. /\ stage = "celebrity" /\ stage' = "following"
        /\ celebrity' = Newest(CandidatePool, celebrityPosts)
        /\ UNCHANGED <<normal, followed, posts, standing>>
    BY <1>8 DEF ReadCelebrityPosts
  <2>2. ASSUME NEW p \in Post, <<p, "celebrity">> \in standing PROVE p \in celebrity'
    <3>1. p \in Newest(CandidatePool, timeline \union celebrityPosts) /\ p \in celebrityPosts
      BY <2>2, StandingMembers DEF LoadInv, StandingInv
    <3> QED
      BY <1>3, <2>1, <3>1, NewestOfSubset
  <2>3. HoldsStanding'
    BY <2>1, <2>2 DEF LoadInv, HoldsStanding
  <2>4. NewerAreListed'
    BY <1>2, <1>4, <2>1 DEF LoadInv, NewerAreListed
  <2> QED
    BY <1>1, <2>1, <2>3, <2>4 DEF LoadInv, StandingInv, NoneLeft
<1>9. CASE ReadFollowing
  <2>1. /\ stage = "following" /\ stage' = "tombstones"
        /\ followed' = following
        /\ UNCHANGED <<normal, celebrity, posts, standing>>
    BY <1>9 DEF ReadFollowing
  <2>2. ASSUME NEW p \in Post, <<p, "celebrity">> \in standing PROVE AuthorOf[p] \in followed'
    BY <2>1, <2>2, StandingMembers DEF LoadInv, StandingInv
  <2>3. HoldsStanding'
    BY <2>1, <2>2 DEF LoadInv, HoldsStanding
  <2> QED
    BY <1>1, <1>2, <2>1, <2>3 DEF LoadInv, StandingInv, NoneLeft, NewerAreListed
<1>10. CASE ReadTombstones
  <2>1. /\ stage = "tombstones" /\ stage' = "hydrate"
        /\ normal' = normal \ tombstones /\ celebrity' = celebrity \ tombstones
        /\ UNCHANGED <<followed, posts, standing>>
    BY <1>10 DEF ReadTombstones
  <2>2. \A s \in standing : s[1] \notin tombstones
    BY StandingInPool DEF TypeOK, LoadInv
  <2>3. \A p \in Post : <<p, "timeline">> \in standing \/ <<p, "celebrity">> \in standing
                           => p \notin tombstones
    BY <2>2
  <2>4. HoldsStanding'
    BY <2>1, <2>3 DEF LoadInv, HoldsStanding
  <2>5. NewerAreListed'
    BY <1>2, <2>1 DEF LoadInv, NewerAreListed
  <2> QED
    BY <1>1, <2>1, <2>4, <2>5 DEF LoadInv, StandingInv, NoneLeft
<1>11. CASE Hydrate
  <2> DEFINE ids == normal \union celebrity
  <2>1. /\ stage = "hydrate" /\ stage' = "rank"
        /\ normal' = {} /\ celebrity' = {} /\ UNCHANGED standing
    BY <1>11 DEF Hydrate, NoCandidates
  <2>2. PICK stale \in SUBSET (ids \intersect (deleted \ tombstones)) :
          posts' = SelectPosts((ids \ deleted) \union stale)
    BY <1>11 DEF Hydrate
  <2> DEFINE hydrated == (ids \ deleted) \union stale
             chosen == {p \in hydrated : p \in normal \/ (p \in celebrity /\ AuthorOf[p] \in followed)}
  <2>3. posts' = Newest(CandidatePool, chosen) /\ chosen \subseteq ids
    BY <2>2 DEF SelectPosts
  <2>4. chosen \in SUBSET Post
    BY <2>3 DEF TypeOK
  <2>5. ASSUME NEW s \in standing PROVE s[1] \in posts'
    <3>1. /\ s[1] \in Post
          /\ s = <<s[1], "timeline">> \/ s = <<s[1], "celebrity">>
      BY StandingPairs
    <3>2. s[1] \in normal \/ (s[1] \in celebrity /\ AuthorOf[s[1]] \in followed)
      BY <2>1, <3>1 DEF LoadInv, HoldsStanding
    <3>3. /\ s[1] \in Newest(CandidatePool, timeline \union celebrityPosts)
          /\ s[1] \notin deleted
      BY StandingInPool DEF LoadInv
    <3>4. s[1] \in chosen
      BY <3>2, <3>3
    <3>5. \A q \in chosen : Newer(q, s[1]) => q \in timeline \union celebrityPosts
      BY <2>3 DEF LoadInv, NewerAreListed
    <3> HIDE DEF chosen
    <3> QED
      BY <1>3, <2>3, <2>4, <3>3, <3>4, <3>5, NewestOfFewer
  <2>6. \A p \in Post : <<p, "timeline">> \in standing \/ <<p, "celebrity">> \in standing
                           => p \in posts'
    BY <2>5
  <2>7. HoldsStanding'
    BY <2>1, <2>6 DEF HoldsStanding
  <2> QED
    BY <1>1, <2>1, <2>7 DEF LoadInv, StandingInv, NoneLeft, NewerAreListed
<1>12. CASE Serve
  <2>1. /\ stage = "rank" /\ stage' \in {"home", "scroll"}
        /\ UNCHANGED <<normal, celebrity, followed, standing>>
    BY <1>12 DEF Serve, candidates
  <2> QED
    BY <1>1, <1>2, <2>1 DEF LoadInv, StandingInv, NoneLeft, HoldsStanding, NewerAreListed
<1>13. CASE Fail
  <2>1. /\ stage' \in {"home", "scroll"} /\ normal' = {} /\ celebrity' = {}
        /\ standing' \subseteq standing
    BY <1>13 DEF Fail, NoCandidates
  <2> QED
    BY <1>1, <2>1 DEF LoadInv, StandingInv, NoneLeft, HoldsStanding, NewerAreListed
<1> QED
  BY <1>5, <1>6, <1>7, <1>8, <1>9, <1>10, <1>11, <1>12, <1>13 DEF GetFeed

\* LoadInv is inductive together with the types.
LEMMA NextLoadInv == TypeOK /\ TypeOK' /\ LoadInv /\ [Next]_vars => LoadInv'
<1>1. ASSUME LoadInv, UNCHANGED vars PROVE LoadInv'
  <2>1. UNCHANGED Standing
    BY <1>1, SameStanding DEF vars, lists
  <2> QED
    BY <1>1, <2>1 DEF vars, lists, candidates, LoadInv, StandingInv, NoneLeft,
                      HoldsStanding, NewerAreListed
<1> QED
  BY <1>1, WorldLoadInv, ReaderLoadInv DEF Next

\* Any number of writes between the three reads of Load, the tombstones and the
\* hydration (redis.go:32-71, server.go:97-108) drops no post that was a candidate
\* all along, for any pool not larger than the lists.
THEOREM NoCandidateMissed == Safety => []LoadMissesNone
<1>1. Safety => [](TypeOK /\ LoadInv)
  <2>1. Init => TypeOK /\ LoadInv
    BY InitType, InitLoadInv
  <2>2. (TypeOK /\ LoadInv) /\ [Next]_vars => (TypeOK /\ LoadInv)'
    BY NextType, NextLoadInv
  <2> QED
    BY <2>1, <2>2, PTL DEF Safety
<1>2. TypeOK /\ LoadInv => LoadMissesNone
  BY HeldAreRanked DEF LoadInv
<1> QED
  BY <1>1, <1>2, PTL

-----------------------------------------------------------------------------
(* Walks. *)

\* A page after the first has a cursor, and before it nothing is shown.
WalkInv ==
    /\ stage = "scroll" => cursor # NoCursor
    /\ stage # "home" /\ cursor = NoCursor => shown = {}

\* In a walk, what stands has been shown, is below the last page, or crossed.
CompleteInv ==
    stage # "home" /\ cursor # NoCursor =>
        \A s \in standing : s[1] \in shown \union crossed \union below

\* Until time passes the cursor is a post as it ranks, between what was shown
\* and what is left.
OrderInv ==
    stage # "home" /\ cursor # NoCursor /\ ~ticked =>
        /\ cursor.id \in Post
        /\ cursor = CursorAt(cursor.id, now)
        /\ \A p \in shown : p = cursor.id \/ Above(p, cursor.id, now)
        /\ \A p \in below : Above(cursor.id, p, now)

PagesInv ==
    /\ WalkInv
    /\ CompleteInv
    /\ OrderInv
    /\ WalkIsComplete
    /\ OnlyTimeCrosses

\* The beginning.
LEMMA InitPagesInv == Init => PagesInv
BY DEF Init, PagesInv, WalkInv, CompleteInv, OrderInv, WalkIsComplete,
       OnlyTimeCrosses, At

\* After the first page, a page's posts are those beyond the last page.
LEMMA BeyondIsRest ==
    ASSUME cursor # NoCursor, NEW p \in posts
    PROVE  p \in FromPageStart(posts, cursor, now) <=> Beyond(p)
BY DEF FromPageStart, Beyond

\* While time stands still nothing crosses: the cursor's post, there or gone,
\* divides the posts as it did.
LEMMA NothingCrosses ==
    ASSUME TypeOK, OrderInv, stage = "rank", ~ticked
    PROVE  Crossing = {}
<1>1. CASE cursor = NoCursor
  BY <1>1 DEF Crossing
<1>2. CASE cursor # NoCursor
  <2> DEFINE c == cursor.id
  <2>1. /\ c \in Post /\ now \in Times
        /\ cursor = CursorAt(c, now)
        /\ \A p \in shown : p = c \/ Above(p, c, now)
        /\ \A p \in below : Above(c, p, now)
        /\ posts \subseteq Post /\ shown \subseteq Post /\ below \subseteq Post
    BY <1>2 DEF OrderInv, TypeOK, Times
  <2>2. \A p \in Post : Beyond(p) <=> Above(c, p, now)
    BY <2>1, CursorCompares DEF Beyond
  <2>3. \A p \in shown : ~Above(c, p, now)
    <3>1. /\ \A p \in Post : ~Above(p, p, now)
          /\ \A p, q, r \in Post : Above(p, q, now) /\ Above(q, r, now) => Above(p, r, now)
      BY <2>1, AboveOrder
    <3> QED
      BY <2>1, <3>1
  <2> QED
    BY <1>2, <2>1, <2>2, <2>3 DEF Crossing
<1> QED
  BY <1>1, <1>2

\* Serving a page: what it does to the history of the walk.
LEMMA ServePagesInv ==
    TypeOK /\ TypeOK' /\ LoadMissesNone /\ PagesInv /\ Serve => PagesInv'
<1> SUFFICES ASSUME TypeOK, TypeOK', LoadMissesNone, PagesInv, Serve PROVE PagesInv'
  OBVIOUS
<1> DEFINE rest == FromPageStart(posts, cursor, now)
           page == Page(rest, now)
<1>1. /\ stage = "rank"
      /\ shown' = shown \union page
      /\ below' = rest \ page
      /\ crossed' = crossed \union Crossing
      /\ UNCHANGED <<now, ticked, standing>>
  BY DEF Serve, At
<1>2. /\ now \in Times /\ posts \subseteq Post /\ shown \subseteq Post
      /\ rest \subseteq posts /\ page \subseteq rest
  BY DEF TypeOK, Times, FromPageStart, Page
<1>3. \/ /\ rest = page /\ stage' = "home" /\ cursor' = NoCursor
      \/ /\ stage' = "scroll"
         /\ \E last \in page : /\ \A p \in page \ {last} : Above(p, last, now)
                               /\ cursor' = CursorAt(last, now)
  BY DEF Serve, Go
<1>4. /\ cursor = NoCursor => rest = posts /\ shown = {} /\ Crossing = {}
      /\ \A p \in posts : cursor # NoCursor => (p \in rest <=> Beyond(p))
  BY <1>1, BeyondIsRest DEF FromPageStart, Crossing, PagesInv, WalkInv
<1>5. cursor # NoCursor =>
        Crossing = {p \in shown \intersect posts : Beyond(p)}
                     \union {p \in below \intersect posts : ~Beyond(p)}
  BY DEF Crossing
<1>6. \A s \in standing : s[1] \in posts
  BY <1>1 DEF LoadMissesNone, At
<1>7. stage' = "scroll" => cursor' \in Cursor /\ cursor' # NoCursor
  BY <1>2, <1>3, CursorType, ConstantFacts
<1>8. ~ticked => Crossing = {}
  BY <1>1, NothingCrosses DEF PagesInv
<1> HIDE DEF rest, page
<1>10. OnlyTimeCrosses'
  BY <1>1, <1>8 DEF PagesInv, OnlyTimeCrosses
<1>11. ASSUME NEW s \in standing, s[1] \notin rest PROVE s[1] \in shown \union crossed'
  <2>1. cursor # NoCursor /\ ~Beyond(s[1])
    BY <1>4, <1>6, <1>11
  <2>2. s[1] \in shown \union crossed \union below
    BY <1>1, <2>1 DEF PagesInv, CompleteInv
  <2> QED
    BY <1>1, <1>5, <1>6, <2>1, <2>2
<1>12. \A s \in standing' : s[1] \in shown' \union crossed' \union below'
  BY <1>1, <1>11
<1>13. CompleteInv'
  BY <1>12 DEF CompleteInv
<1>14. WalkIsComplete'
  BY <1>1, <1>3, <1>12 DEF WalkIsComplete, At
<1>15. WalkInv'
  BY <1>3, <1>7 DEF WalkInv
<1>16. OrderInv'
  <2> SUFFICES ASSUME stage' # "home", ~ticked PROVE OrderInv'
    BY <1>1 DEF OrderInv
  <2>1. PICK last \in page : /\ \A p \in page \ {last} : Above(p, last, now)
                             /\ cursor' = CursorAt(last, now)
    BY <1>3
  <2>2. last \in Post /\ cursor'.id = last
    BY <1>2, <2>1 DEF CursorAt
  <2>3. /\ \A p, q, r \in Post : Above(p, q, now) /\ Above(q, r, now) => Above(p, r, now)
        /\ \A p, q \in Post : p = q \/ Above(p, q, now) \/ Above(q, p, now)
    BY <1>2, AboveOrder
  <2>4. ASSUME NEW p \in shown PROVE Above(p, last, now)
    <3>1. cursor # NoCursor
      BY <1>4
    <3>2. /\ cursor.id \in Post /\ cursor = CursorAt(cursor.id, now)
          /\ p = cursor.id \/ Above(p, cursor.id, now)
      BY <1>1, <3>1 DEF PagesInv, OrderInv
    <3>3. Beyond(last)
      BY <1>2, <1>4, <3>1
    <3>4. Above(cursor.id, last, now)
      BY <1>2, <2>2, <3>2, <3>3, CursorCompares DEF Beyond
    <3> QED
      BY <1>2, <2>2, <2>3, <3>2, <3>4
  <2>5. ASSUME NEW p \in below' PROVE Above(last, p, now)
    <3>1. rest \in SUBSET Post /\ last \in Page(rest, now) /\ p \in rest \ Page(rest, now)
      BY <1>1, <1>2, <2>5 DEF page
    <3> QED
      BY <1>2, <3>1, PageIsAbove
  <2> QED
    BY <1>1, <2>1, <2>2, <2>4, <2>5 DEF OrderInv
<1> QED
  BY <1>10, <1>13, <1>14, <1>15, <1>16 DEF PagesInv

\* The other steps leave the walk alone, or begin one, or only let time pass.
LEMMA OtherPagesInv ==
    ASSUME PagesInv,
           \/ World \/ Open \/ Scroll \/ Fail
           \/ ReadTimeline \/ ReadCelebrityPosts \/ ReadFollowing \/ ReadTombstones \/ Hydrate
    PROVE  PagesInv'
<1> USE DEF At, Go
<1>1. ASSUME UNCHANGED <<cursor, shown, below, crossed>>, standing' \subseteq standing, stage' # "home", stage # "home",
             stage' = "scroll" => stage = "scroll" \/ cursor # NoCursor,
             UNCHANGED <<now, ticked>>
      PROVE  PagesInv'
  BY <1>1 DEF PagesInv, WalkInv, CompleteInv, OrderInv, 
              WalkIsComplete, OnlyTimeCrosses
<1>2. CASE World
  <2>1. ASSUME Tick PROVE PagesInv'
    BY <2>1 DEF Tick, walk, PagesInv, WalkInv, CompleteInv, OrderInv, 
                WalkIsComplete, OnlyTimeCrosses
  <2>2. ASSUME Change PROVE PagesInv'
    <3>1. UNCHANGED <<now, stage, walk, ticked>> /\ standing' \subseteq standing
      BY <2>2 DEF Change
    <3> QED
      BY <3>1 DEF walk, PagesInv, WalkInv, CompleteInv, OrderInv, 
                  WalkIsComplete, OnlyTimeCrosses
  <2> QED
    BY <1>2, <2>1, <2>2 DEF World, AddToTimeline, AddCelebrityPost, Delete, Tombstone, FollowCelebrity
<1>3. CASE Open
  BY <1>3 DEF Open, PagesInv, WalkInv, CompleteInv, OrderInv, 
              WalkIsComplete, OnlyTimeCrosses
<1>4. CASE Scroll
  BY <1>1, <1>4 DEF Scroll
<1>5. CASE Fail
  <2>1. CASE cursor = NoCursor
    <3>1. /\ stage' = "home" /\ standing' = {} /\ UNCHANGED <<now, walk, ticked>>
      BY <1>5, <2>1 DEF Fail
    <3> QED
      BY <3>1 DEF walk, PagesInv, WalkInv, CompleteInv, OrderInv, 
                  WalkIsComplete, OnlyTimeCrosses
  <2>2. CASE cursor # NoCursor
    BY <1>1, <1>5, <2>2 DEF Fail, walk
  <2> QED
    BY <2>1, <2>2
<1>6. CASE ReadTimeline
  BY <1>1, <1>6 DEF ReadTimeline, walk
<1>7. CASE ReadCelebrityPosts
  BY <1>1, <1>7 DEF ReadCelebrityPosts, walk
<1>8. CASE ReadFollowing
  BY <1>1, <1>8 DEF ReadFollowing, walk
<1>9. CASE ReadTombstones
  BY <1>1, <1>9 DEF ReadTombstones, walk
<1>10. CASE Hydrate
  BY <1>1, <1>10 DEF Hydrate, walk
<1> QED
  BY <1>2, <1>3, <1>4, <1>5, <1>6, <1>7, <1>8, <1>9, <1>10

ReadInv == TypeOK /\ LoadInv /\ PagesInv

\* The invariant of the whole read path.
THEOREM ReadInvariance == Safety => []ReadInv
<1>1. Init => ReadInv
  BY InitType, InitLoadInv, InitPagesInv DEF ReadInv
<1>2. ReadInv /\ [Next]_vars => ReadInv'
  <2> SUFFICES ASSUME ReadInv, [Next]_vars PROVE ReadInv'
    OBVIOUS
  <2>1. TypeOK' /\ LoadInv' /\ LoadMissesNone
    BY NextType, NextLoadInv, HeldAreRanked DEF ReadInv, LoadInv
  <2>2. PagesInv'
    <3>1. CASE UNCHANGED vars
      BY <3>1 DEF ReadInv, vars, walk, PagesInv, WalkInv, CompleteInv, OrderInv,
                  WalkIsComplete, OnlyTimeCrosses, At
    <3>2. CASE Serve
      BY <2>1, <3>2, ServePagesInv DEF ReadInv
    <3>3. CASE \/ World \/ Open \/ Scroll \/ Fail
               \/ ReadTimeline \/ ReadCelebrityPosts \/ ReadFollowing \/ ReadTombstones \/ Hydrate
      BY <3>3, OtherPagesInv DEF ReadInv
    <3> QED
      BY <3>1, <3>2, <3>3 DEF Next, GetFeed
  <2> QED
    BY <2>1, <2>2 DEF ReadInv
<1> QED
  BY <1>1, <1>2, PTL DEF Safety

\* A scroll to the last page shows every post that was a candidate throughout, but
\* for those that overtook the end of a page.
THEOREM ScrollShowsAll == Safety => []WalkIsComplete
<1>1. ReadInv => WalkIsComplete
  BY DEF ReadInv, PagesInv
<1> QED
  BY <1>1, ReadInvariance, PTL

\* New posts and deletes, of the cursor's own post too, move nothing across the end
\* of a page: while the scores stand still the pages are those of one ranking.
THEOREM CrossingTakesTime == Safety => []OnlyTimeCrosses
<1>1. ReadInv => OnlyTimeCrosses
  BY DEF ReadInv, PagesInv
<1> QED
  BY <1>1, ReadInvariance, PTL

-----------------------------------------------------------------------------
(* Repeats. *)

\* Scores only decay: recency falls with the age, and an author the viewer has
\* engaged with counts for no less than one the viewer has not.
ScoresDecay ==
    /\ \A a, b \in 0..MaxTime : a <= b => RecencyScore[b] <= RecencyScore[a]
    /\ AffinityDefault <= 1

\* Engagements leave the window and do not come back.
LEMMA AffinityDecays ==
    ASSUME ScoresDecay, NEW a, NEW s \in Times, NEW t \in Times, s <= t
    PROVE  Affinity(a, t) <= Affinity(a, s)
<1> DEFINE Recent(u) == {e \in Engagements : /\ e.user = Viewer
                                             /\ e.at >= u - AffinityWindow
                                             /\ AuthorOf[e.post] = a}
<1>1. \A u : Affinity(a, u) = IF Recent(u) = {} THEN AffinityDefault ELSE Cardinality(Recent(u))
  BY DEF Affinity
<1>2. Recent(s) \in SUBSET Engagements
  OBVIOUS
<1>3. Recent(t) \in SUBSET Recent(s)
  <2>1. \A e \in Engagements : e.at >= t - AffinityWindow => e.at >= s - AffinityWindow
    BY ConstantsAssumption DEF ConstantsAssumption, Times
  <2> QED
    BY <2>1
<1> HIDE DEF Recent
<1>4. IsFiniteSet(Recent(s)) /\ Cardinality(Recent(s)) \in Nat
  BY <1>2, EngagementsBound
<1>5. Cardinality(Recent(t)) \in Nat /\ Cardinality(Recent(t)) <= Cardinality(Recent(s))
  BY <1>3, <1>4, FS_Subset, FS_CardinalityType
<1>6. Recent(s) # {} => Cardinality(Recent(s)) >= 1
  BY <1>4, FS_EmptySet
<1>7. Recent(s) = {} => Recent(t) = {}
  BY <1>3
<1>8. AffinityDefault \in Nat /\ AffinityDefault <= 1
  BY ConstantsAssumption DEF ConstantsAssumption, ScoresDecay
<1> QED
  BY <1>1, <1>4, <1>5, <1>6, <1>7, <1>8

\* A product with a fixed weight grows with its factor.
LEMMA WeightKeepsOrder ==
    ASSUME NEW w \in Nat, NEW m \in Nat, NEW n \in Nat, m <= n
    PROVE  w * m <= w * n
<1>1. w * (n - m) \in Nat
  OBVIOUS
<1>2. w * n = w * m + w * (n - m)
  OBVIOUS
<1> QED
  BY <1>1, <1>2

\* No post scores more later.
LEMMA ScoreDecays ==
    ASSUME ScoresDecay, NEW p \in Post, NEW s \in Times, NEW t \in Times, s <= t
    PROVE  Score[t][p] <= Score[s][p]
<1> DEFINE E == EngagementScore[Count(p, "like") + 2 * Count(p, "comment")]
           A(u) == AffinityWeight * Affinity(AuthorOf[p], u)
<1>1. /\ Age(p, s) \in 0..MaxTime /\ Age(p, t) \in 0..MaxTime
      /\ Age(p, s) <= Age(p, t)
  BY ConstantsAssumption DEF Age, Times, ConstantsAssumption
<1>2. /\ RecencyScore[Age(p, s)] \in Nat /\ RecencyScore[Age(p, t)] \in Nat
      /\ RecencyScore[Age(p, t)] <= RecencyScore[Age(p, s)]
  BY <1>1, ConstantsAssumption DEF ConstantsAssumption, ScoresDecay
<1>3. E \in Nat
  BY CountsBound, ConstantsAssumption DEF ConstantsAssumption
<1>4. /\ A(s) \in Nat /\ A(t) \in Nat
      /\ A(t) <= A(s)
  <2>1. /\ Affinity(AuthorOf[p], s) \in Nat /\ Affinity(AuthorOf[p], t) \in Nat
        /\ Affinity(AuthorOf[p], t) <= Affinity(AuthorOf[p], s)
        /\ AffinityWeight \in Nat
    BY AffinityType, AffinityDecays, ConstantsAssumption DEF ConstantsAssumption
  <2> QED
    BY <2>1, WeightKeepsOrder
<1>5. \A u \in Times : Score[u][p] = RecencyScore[Age(p, u)] + E + A(u)
  BY DEF Score, Times
<1> HIDE DEF E, A
<1> QED
  BY <1>2, <1>3, <1>4, <1>5

\* The page token names a post at the place it had, which the posts shown had not
\* fallen behind when they were shown.
PlaceInv ==
    stage # "home" /\ cursor # NoCursor =>
        /\ cursor.id \in Post
        /\ \E s \in Start..now : cursor = CursorAt(cursor.id, s)
        /\ \A p \in shown : seen[p] \in Start..now /\ ~BelowCursor(p, cursor, seen[p])

RepeatsInv == TypeOK /\ WalkInv /\ PlaceInv /\ RepeatsLostScore

\* What the next page may hold is below the cursor at the scores of now, as the
\* cursor's post, if it is still there, has only fallen.
LEMMA RestIsBelow ==
    ASSUME ScoresDecay, TypeOK, PlaceInv, stage # "home", cursor # NoCursor,
           NEW p \in FromPageStart(posts, cursor, now)
    PROVE  BelowCursor(p, cursor, now)
<1> DEFINE c == cursor.id
<1>1. PICK s \in Start..now : cursor = CursorAt(c, s)
  BY DEF PlaceInv
<1>2. c \in Post /\ p \in Post /\ now \in Times /\ s \in Times /\ s <= now
  BY <1>1, ConstantFacts DEF PlaceInv, FromPageStart, TypeOK, Times
<1>3. CASE c \in posts
  <2>1. Above(c, p, now)
    BY <1>3 DEF FromPageStart
  <2>2. Score[now][c] <= Score[s][c]
    BY <1>2, ScoreDecays
  <2>3. cursor.score = Score[s][c] /\ cursor.created = Created[c] /\ cursor.id = c
    BY <1>1 DEF CursorAt
  <2>4. /\ Score[now][c] \in Nat /\ Score[s][c] \in Nat /\ Score[now][p] \in Nat
        /\ c \in Nat /\ p \in Nat /\ Created[c] \in Nat /\ Created[p] \in Nat
    BY <1>2, ScoreType, ConstantsAssumption DEF ConstantsAssumption
  <2> HIDE DEF c
  <2> QED
    BY <2>1, <2>2, <2>3, <2>4 DEF Above, Newer, BelowCursor
<1>4. CASE c \notin posts
  BY <1>4 DEF FromPageStart
<1> QED
  BY <1>3, <1>4

\* A post that is below the cursor now and was not when it was shown lost score.
LEMMA BelowLostScore ==
    ASSUME NEW c \in Cursor, NEW p \in Post, NEW s \in Times, NEW t \in Times,
           ~BelowCursor(p, c, s), BelowCursor(p, c, t)
    PROVE  Score[t][p] < Score[s][p]
<1>1. /\ Score[s][p] \in Nat /\ Score[t][p] \in Nat
      /\ c.score \in Nat
  BY ScoreType DEF Cursor
<1> QED
  BY <1>1 DEF BelowCursor

\* A post that is not below one cursor is not below a lower one.
LEMMA LowerCursor ==
    ASSUME NEW c \in Cursor, NEW last \in Post, NEW t \in Times, BelowCursor(last, c, t),
           NEW p \in Post, NEW s \in Times, ~BelowCursor(p, c, s)
    PROVE  ~BelowCursor(p, CursorAt(last, t), s)
<1>1. /\ Score[s][p] \in Nat /\ Score[t][last] \in Nat
      /\ Created[p] \in Nat /\ Created[last] \in Nat
      /\ p \in Nat /\ last \in Nat
  BY ScoreType, ConstantsAssumption DEF ConstantsAssumption
<1>2. c.score \in Nat /\ c.created \in Nat /\ c.id \in Nat
  BY ConstantsAssumption DEF Cursor, ConstantsAssumption
<1>3. /\ CursorAt(last, t).score = Score[t][last]
      /\ CursorAt(last, t).created = Created[last]
      /\ CursorAt(last, t).id = last
  BY DEF CursorAt
<1> QED
  BY <1>1, <1>2, <1>3 DEF BelowCursor

\* Serving a page: the posts shown again lost score, and the new cursor is below
\* the old one.
LEMMA ServeRepeatsInv ==
    ASSUME ScoresDecay, RepeatsInv, TypeOK', Serve
    PROVE  RepeatsInv'
<1> DEFINE rest == FromPageStart(posts, cursor, now)
           page == Page(rest, now)
<1>1. /\ stage = "rank"
      /\ shown' = shown \union page
      /\ seen' = [p \in Post |-> IF p \in page THEN now ELSE seen[p]]
      /\ repeats' = {[post |-> p, from |-> seen[p], to |-> now] :
                        p \in shown \intersect page}
      /\ UNCHANGED now
  BY DEF Serve, At
<1>2. /\ now \in Times /\ posts \subseteq Post /\ shown \subseteq Post
      /\ rest \subseteq posts /\ page \subseteq rest
      /\ cursor # NoCursor => cursor \in Cursor
  BY DEF RepeatsInv, TypeOK, Times, FromPageStart, Page
<1>3. \/ stage' = "home" /\ cursor' = NoCursor
      \/ /\ stage' = "scroll"
         /\ \E last \in page : /\ \A p \in page \ {last} : Above(p, last, now)
                               /\ cursor' = CursorAt(last, now)
  BY DEF Serve, Go
<1>4. cursor = NoCursor => shown = {}
  BY <1>1 DEF RepeatsInv, WalkInv
<1>5. cursor # NoCursor =>
        /\ \A p \in rest : BelowCursor(p, cursor, now)
        /\ \A p \in shown : seen[p] \in Times /\ seen[p] \in Start..now
                              /\ ~BelowCursor(p, cursor, seen[p])
  <2> SUFFICES ASSUME cursor # NoCursor
               PROVE  /\ \A p \in rest : BelowCursor(p, cursor, now)
                      /\ \A p \in shown : seen[p] \in Times /\ seen[p] \in Start..now
                                            /\ ~BelowCursor(p, cursor, seen[p])
    OBVIOUS
  <2>1. \A p \in rest : BelowCursor(p, cursor, now)
    BY <1>1, RestIsBelow DEF RepeatsInv
  <2>2. \A p \in shown : seen[p] \in Start..now /\ ~BelowCursor(p, cursor, seen[p])
    BY <1>1 DEF RepeatsInv, PlaceInv
  <2>3. \A p \in shown : seen[p] \in Times
    BY <1>2 DEF RepeatsInv, TypeOK, Times
  <2> QED
    BY <2>1, <2>2, <2>3
<1> HIDE DEF rest, page
<1>6. ASSUME NEW p \in shown \intersect page PROVE Score[now][p] < Score[seen[p]][p]
  <2>1. cursor # NoCursor
    BY <1>4
  <2>2. /\ cursor \in Cursor /\ p \in Post /\ seen[p] \in Times
        /\ BelowCursor(p, cursor, now) /\ ~BelowCursor(p, cursor, seen[p])
    BY <1>2, <1>5, <2>1
  <2> QED
    BY <1>2, <2>2, BelowLostScore
<1>7. RepeatsLostScore'
  <2> SUFFICES ASSUME NEW r \in repeats' PROVE Score[r.to][r.post] < Score[r.from][r.post]
    BY DEF RepeatsLostScore
  <2>1. PICK p \in shown \intersect page : r = [post |-> p, from |-> seen[p], to |-> now]
    BY <1>1
  <2>2. r.post = p /\ r.from = seen[p] /\ r.to = now
    BY <2>1
  <2> QED
    BY <1>6, <2>2
<1>8. PlaceInv' /\ WalkInv'
  <2>1. CASE stage' = "home"
    BY <2>1 DEF PlaceInv, WalkInv
  <2>2. CASE stage' # "home"
    <3>1. PICK last \in page : /\ \A p \in page \ {last} : Above(p, last, now)
                               /\ cursor' = CursorAt(last, now)
      BY <1>3, <2>2
    <3>2. last \in Post /\ last \in rest
      BY <1>2
    <3>3. cursor'.id = last /\ cursor' \in Cursor /\ cursor' # NoCursor
      BY <1>2, <3>1, <3>2, CursorType, ConstantFacts DEF CursorAt
    <3>4. now \in Start..now
      BY <1>2, ConstantFacts DEF Times
    <3>5. ASSUME NEW p \in page PROVE ~BelowCursor(p, cursor', now)
      <4>1. p \in Post
        BY <1>2
      <4>2. ~Above(last, p, now)
        <5>1. \/ p = last
              \/ Above(p, last, now)
          BY <3>1
        <5>2. /\ \A x \in Post : ~Above(x, x, now)
              /\ \A x, y, z \in Post : Above(x, y, now) /\ Above(y, z, now) => Above(x, z, now)
          BY <1>2, AboveOrder
        <5> QED
          BY <3>2, <4>1, <5>1, <5>2
      <4> QED
        BY <1>2, <3>1, <3>2, <4>1, <4>2, CursorCompares
    <3>6. ASSUME NEW p \in shown, p \notin page
          PROVE  seen[p] \in Start..now /\ ~BelowCursor(p, cursor', seen[p])
      <4>1. cursor # NoCursor
        BY <1>4
      <4>2. /\ cursor \in Cursor /\ p \in Post /\ seen[p] \in Times
            /\ seen[p] \in Start..now
            /\ ~BelowCursor(p, cursor, seen[p]) /\ BelowCursor(last, cursor, now)
        BY <1>2, <1>5, <3>2, <4>1
      <4>3. ~BelowCursor(p, CursorAt(last, now), seen[p])
        BY <1>2, <3>2, <4>2, LowerCursor
      <4> QED
        BY <3>1, <4>2, <4>3
    <3>7. ASSUME NEW p \in shown' PROVE seen'[p] \in Start..now' /\ ~BelowCursor(p, cursor', seen'[p])
      <4>1. p \in Post /\ p \in shown \union page
        BY <1>1, <1>2
      <4>2. seen'[p] = IF p \in page THEN now ELSE seen[p]
        BY <1>1, <4>1
      <4>3. CASE p \in page
        BY <1>1, <3>4, <3>5, <4>2, <4>3
      <4>4. CASE p \notin page
        BY <1>1, <3>6, <4>1, <4>2, <4>4
      <4> QED
        BY <4>3, <4>4
    <3>8. \E s \in Start..now' : cursor' = CursorAt(cursor'.id, s)
      BY <1>1, <3>1, <3>3, <3>4
    <3>9. (\A p \in shown : seen[p] \in Start..now /\ ~BelowCursor(p, cursor, seen[p]))'
      BY <3>7
    <3>10. PlaceInv'
      BY <3>2, <3>3, <3>8, <3>9 DEF PlaceInv
    <3> QED
      BY <3>3, <3>10 DEF WalkInv
  <2> QED
    BY <2>1, <2>2
<1> QED
  BY <1>7, <1>8 DEF RepeatsInv

\* The other steps leave the cursor and the histories alone, or begin a walk.
LEMMA OtherRepeatsInv ==
    ASSUME RepeatsInv, TypeOK', [Next]_vars, ~Serve
    PROVE  RepeatsInv'
<1> USE DEF At, Go
<1>1. CASE Open
  BY <1>1 DEF Open, RepeatsInv, WalkInv, PlaceInv, RepeatsLostScore
<1>2. ASSUME UNCHANGED <<cursor, shown, seen>>, repeats' \subseteq repeats,
             now' \in Nat, now <= now', stage' # "home" => stage # "home",
             stage' = "scroll" => stage = "scroll" \/ cursor # NoCursor
      PROVE  RepeatsInv'
  <2>1. \A s \in Start..now : s \in Start..now'
    BY <1>2, ConstantFacts DEF RepeatsInv, TypeOK
  <2>2. PlaceInv'
    BY <1>2, <2>1 DEF RepeatsInv, PlaceInv
  <2> QED
    BY <1>2, <2>2 DEF RepeatsInv, WalkInv, RepeatsLostScore
<1>3. now \in Nat
  BY ConstantFacts DEF RepeatsInv, TypeOK
<1>4. ASSUME Change PROVE RepeatsInv'
  BY <1>2, <1>3, <1>4 DEF Change, walk
<1>5. CASE World
  <2>1. ASSUME Tick PROVE RepeatsInv'
    BY <1>2, <1>3, <2>1 DEF Tick, walk
  <2> QED
    BY <1>4, <1>5, <2>1 DEF World, AddToTimeline, AddCelebrityPost, Delete, Tombstone, FollowCelebrity
<1>6. CASE Scroll
  BY <1>2, <1>3, <1>6 DEF Scroll
<1>7. CASE Fail
  BY <1>2, <1>3, <1>7 DEF Fail, walk
<1>8. CASE ReadTimeline
  BY <1>2, <1>3, <1>8 DEF ReadTimeline, walk
<1>9. CASE ReadCelebrityPosts
  BY <1>2, <1>3, <1>9 DEF ReadCelebrityPosts, walk
<1>10. CASE ReadFollowing
  BY <1>2, <1>3, <1>10 DEF ReadFollowing, walk
<1>11. CASE ReadTombstones
  BY <1>2, <1>3, <1>11 DEF ReadTombstones, walk
<1>12. CASE Hydrate
  BY <1>2, <1>3, <1>12 DEF Hydrate, walk
<1>13. CASE UNCHANGED vars
  BY <1>2, <1>3, <1>13 DEF vars, walk
<1> QED
  BY <1>1, <1>5, <1>6, <1>7, <1>8, <1>9, <1>10, <1>11, <1>12, <1>13 DEF Next, GetFeed

\* Where scores only decay, a post is shown again in a scroll only when its own
\* score fell since, for any page size, any posts and any deletes, trims, stale
\* hydrations and retries between the pages (server.go:198-215).
THEOREM OnlyLostScoreRepeats ==
    ASSUME ScoresDecay
    PROVE  Safety => []RepeatsLostScore
<1>1. Init => RepeatsInv
  BY InitType DEF Init, RepeatsInv, WalkInv, PlaceInv, RepeatsLostScore
<1>2. RepeatsInv /\ [Next]_vars => RepeatsInv'
  BY NextType, ServeRepeatsInv, OtherRepeatsInv DEF RepeatsInv
<1>3. RepeatsInv => RepeatsLostScore
  BY DEF RepeatsInv
<1> QED
  BY <1>1, <1>2, <1>3, PTL DEF Safety
===============================================================================
