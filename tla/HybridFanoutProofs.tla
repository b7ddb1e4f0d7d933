-------------------------- MODULE HybridFanoutProofs --------------------------
(***************************************************************************)
(* Proofs about HybridFanout: for any users, authors, posts, list lengths  *)
(* and numbers of events in flight, the lists stay bounded, the markers    *)
(* follow the follows table, nobody is shown an author never followed,     *)
(* and, as long as no author crosses the threshold, no post falls between  *)
(* a fanout and a backfill and the worker implements Feed.                 *)
(***************************************************************************)
EXTENDS HybridFanout, TopProofs

-----------------------------------------------------------------------------
(* Lists. *)

LaterPairs == {pq \in Post \X Post : pq[1] > pq[2]}

\* Sets of posts are finite and ordered by creation.
LEMMA PostSets ==
    ASSUME NEW S \in SUBSET Post
    PROVE  IsFiniteSet(S) /\ Cardinality(S) \in Nat /\ StrictOrder(LaterPairs, S)
<1>1. IsFiniteSet(Post)
  BY FS_Interval, ConstantsAssumption DEF Post, ConstantsAssumption
<1>2. IsFiniteSet(S) /\ Cardinality(S) \in Nat
  BY <1>1, FS_Subset, FS_CardinalityType
<1>3. \A p \in S : p \in Post /\ p \in Int
  BY DEF Post
<1>4. StrictOrder(LaterPairs, S)
  BY <1>3 DEF StrictOrder, LaterPairs
<1> QED
  BY <1>2, <1>4

\* Newest takes the first by creation.
LEMMA NewestIsTop ==
    ASSUME NEW S \in SUBSET Post, NEW n
    PROVE  Newest(n, S) = TopOf(LaterPairs, n, S)
<1>1. \A p \in S : {q \in S : q > p} = AboveIn(LaterPairs, S, p)
  BY DEF AboveIn, LaterPairs
<1> QED
  BY <1>1 DEF Newest, TopOf

\* A trimmed list is not too long.
LEMMA TrimmedIsBounded ==
    ASSUME NEW S \in SUBSET Post
    PROVE  /\ Trimmed(S) \in SUBSET Post
           /\ Cardinality(Trimmed(S)) <= MaxTimelineLen
<1>1. MaxTimelineLen \in Nat
  BY ConstantsAssumption DEF ConstantsAssumption
<1>2. Cardinality(Newest(MaxTimelineLen, S)) <= MaxTimelineLen
  BY <1>1, PostSets, NewestIsTop, TopIsBounded
<1> QED
  BY <1>2 DEF Trimmed, Newest

Later(p, S) == {q \in S : q > p}

\* Later posts of a larger list are at least as many.
LEMMA LaterGrows ==
    ASSUME NEW S \in SUBSET Post, NEW T \in SUBSET S, NEW p
    PROVE  /\ Cardinality(Later(p, T)) \in Nat
           /\ Cardinality(Later(p, S)) \in Nat
           /\ Cardinality(Later(p, T)) <= Cardinality(Later(p, S))
<1>1. /\ Later(p, T) \in SUBSET Later(p, S)
      /\ Later(p, S) \in SUBSET Post /\ Later(p, T) \in SUBSET Post
  BY DEF Later
<1> QED
  BY <1>1, PostSets, FS_Subset

\* A post with a full list of later ones in S has it in what a trim leaves of S.
LEMMA TrimKeepsDisplaced ==
    ASSUME NEW S \in SUBSET Post, NEW p \in Post, Displaced(p, S)
    PROVE  Displaced(p, Trimmed(S))
<1> DEFINE U == Later(p, S)
           K == Newest(MaxTimelineLen, U)
<1>1. MaxTimelineLen \in Nat /\ Cardinality(U) >= MaxTimelineLen
  BY ConstantsAssumption DEF ConstantsAssumption, Displaced, Later
<1>2. U \in SUBSET Post /\ K \in SUBSET U
  BY DEF Later, Newest
<1>3. Cardinality(K) >= MaxTimelineLen
  <2>1. CASE K = U
    BY <1>1, <2>1
  <2>2. CASE K # U
    <3> HIDE DEF U, K
    <3>1. K = TopOf(LaterPairs, MaxTimelineLen, U) /\ IsFiniteSet(U) /\ StrictOrder(LaterPairs, U)
      BY <1>2, NewestIsTop, PostSets DEF K
    <3>2. Cardinality(TopOf(LaterPairs, MaxTimelineLen, U)) >= MaxTimelineLen
      BY <1>1, <2>2, <3>1, TopIsFull
    <3> QED
      BY <3>1, <3>2
  <2> QED
    BY <2>1, <2>2
<1>4. ASSUME NEW r \in K PROVE r \in Later(p, Trimmed(S))
  <2>1. r \in S /\ r > p /\ r \in Post
    BY <1>2, <1>4 DEF Later
  <2>2. {q \in U : q > r} = {q \in S : q > r}
    <3>1. \A q \in S : q \in Int /\ (q > r => q > p)
      <4>1. \A q \in Post : q \in Int
        BY ConstantsAssumption DEF Post, ConstantsAssumption
      <4> QED
        BY <2>1, <4>1
    <3> QED
      BY <3>1 DEF Later
  <2>3. Cardinality({q \in U : q > r}) < MaxTimelineLen
    BY <1>4 DEF Newest
  <2> QED
    BY <2>1, <2>2, <2>3 DEF Later, Trimmed, Newest
<1>5. K \in SUBSET Later(p, Trimmed(S)) /\ Later(p, Trimmed(S)) \in SUBSET Post
  BY <1>4 DEF Later, Trimmed, Newest
<1> HIDE DEF K
<1>6. /\ Cardinality(K) <= Cardinality(Later(p, Trimmed(S)))
      /\ Cardinality(K) \in Nat /\ Cardinality(Later(p, Trimmed(S))) \in Nat
  BY <1>2, <1>5, PostSets, FS_Subset
<1> QED
  BY <1>1, <1>3, <1>6 DEF Displaced, Later

\* A post is kept by a list that has it or a full list of later ones.
Kept(p, S) == p \in S \/ Displaced(p, S)

\* Adding posts and trimming keeps what the list kept, and what is added.
LEMMA TrimKeeps ==
    ASSUME NEW T \in SUBSET Post, NEW A \in SUBSET Post, NEW p \in Post,
           Kept(p, T) \/ p \in A
    PROVE  Kept(p, Trimmed(T \union A))
<1> DEFINE S == T \union A
<1>1. S \in SUBSET Post /\ T \in SUBSET S /\ MaxTimelineLen \in Nat
  BY ConstantsAssumption DEF ConstantsAssumption
<1>2. CASE Displaced(p, S)
  BY <1>1, <1>2, TrimKeepsDisplaced DEF Kept
<1>3. CASE ~Displaced(p, S)
  <2>1. Cardinality(Later(p, T)) <= Cardinality(Later(p, S))
        /\ Cardinality(Later(p, T)) \in Nat /\ Cardinality(Later(p, S)) \in Nat
    BY <1>1, LaterGrows
  <2>2. Cardinality(Later(p, S)) < MaxTimelineLen
    BY <1>1, <1>3, <2>1 DEF Displaced, Later
  <2>3. p \in S
    BY <1>1, <2>1, <2>2 DEF Kept, Displaced, Later
  <2>4. p \in Trimmed(S)
    BY <2>2, <2>3 DEF Trimmed, Newest, Later
  <2> QED
    BY <2>4 DEF Kept
<1> QED
  BY <1>2, <1>3

\* Among the newest of a set, among the newest of its subsets.
LEMMA NewestOfSubset ==
    ASSUME NEW S \in SUBSET Post, NEW T \in SUBSET S, NEW n \in Nat,
           NEW p \in T, p \in Newest(n, S)
    PROVE  p \in Newest(n, T)
<1>1. Cardinality(Later(p, S)) < n
  BY DEF Newest, Later
<1>2. Cardinality(Later(p, T)) < n
  BY <1>1, LaterGrows
<1> QED
  BY <1>2 DEF Newest, Later

-----------------------------------------------------------------------------
(* Types, and which handler works on which event. *)

PostEvent == [kind : {"PostCreated"}, post : Post]
FollowEvent == [kind : {"FollowCreated", "FollowDeleted"}, user : User]
EventsOf(c) == IF c[2] = "post" THEN PostEvent ELSE FollowEvent

\* A channel carries the events of its topic.
EventInv ==
    \A c \in Channel : log[c] \in Seq(EventsOf(c)) /\ unsent[c] \in Seq(EventsOf(c))

StagesOf(k) ==
    IF k = "PostCreated"
    THEN {"idle", "cached", "query", "store", "celebrity", "followers", "fanout", "applied"}
    ELSE IF k = "FollowCreated"
    THEN {"idle", "invalidate", "cached", "query", "store", "mark", "recent", "backfill", "applied"}
    ELSE {"idle", "unmark", "invalidateAfter", "applied"}

\* A handler is where the code for its event can be.
StageInv ==
    \A c \in Channel : log[c] # <<>> => work[c].stage \in StagesOf(Current(c).kind)

\* There are no more posts than the bound.
PostsInv == Len(author) <= MaxPosts

TypeInv == TypeOK /\ EventInv /\ StageInv /\ PostsInv

\* The constants, as the proofs use them.
LEMMA ConstantFacts ==
    /\ IsFiniteSet(User) /\ Crowd \in Nat /\ Threshold \in Nat /\ MaxTimelineLen \in Nat
    /\ BackfillCount \in Nat /\ MaxPosts \in Nat /\ MaxChanges \in Nat
BY ConstantsAssumption DEF ConstantsAssumption

\* A channel belongs to an author.
LEMMA ChannelType ==
    ASSUME NEW c \in Channel
    PROVE  /\ AuthorOf(c) \in Author
           /\ c[2] \in {"post", "follow"}
           /\ c = <<AuthorOf(c), c[2]>>
BY DEF Channel, AuthorOf

\* An author has two channels.
LEMMA ChannelsOfAuthor ==
    ASSUME NEW a \in Author
    PROVE  /\ <<a, "post">> \in Channel /\ <<a, "follow">> \in Channel
           /\ AuthorOf(<<a, "post">>) = a /\ AuthorOf(<<a, "follow">>) = a
           /\ EventsOf(<<a, "post">>) = PostEvent /\ EventsOf(<<a, "follow">>) = FollowEvent
BY DEF Channel, AuthorOf, EventsOf

\* The event in hand is one of its channel's.
LEMMA CurrentType ==
    ASSUME TypeInv, NEW c \in Channel, log[c] # <<>>
    PROVE  /\ Current(c) = log[c][1]
           /\ 1 \in DOMAIN log[c]
           /\ Current(c) \in EventsOf(c)
           /\ work[c].stage \in StagesOf(Current(c).kind)
<1>1. log[c] \in Seq(EventsOf(c))
  BY DEF TypeInv, EventInv
<1> QED
  BY <1>1 DEF Current, TypeInv, StageInv

\* Working with an event: there is one, of the kind its stage says.
LEMMA StageKind ==
    ASSUME TypeInv, NEW c \in Channel, ~At(c, "idle")
    PROVE  /\ log[c] # <<>>
           /\ work[c].stage \in StagesOf(Current(c).kind)
           /\ work[c].stage \in {"celebrity", "followers", "fanout"} =>
                /\ Current(c).kind = "PostCreated" /\ c[2] = "post"
                /\ Current(c).post \in Post
           /\ work[c].stage \in {"invalidate", "mark", "recent", "backfill"} =>
                /\ Current(c).kind = "FollowCreated" /\ c[2] = "follow"
                /\ Current(c).user \in User
           /\ work[c].stage \in {"unmark", "invalidateAfter"} =>
                /\ Current(c).kind = "FollowDeleted" /\ c[2] = "follow"
                /\ Current(c).user \in User
           /\ work[c].stage \in {"cached", "query", "store"} => Current(c).kind # "FollowDeleted"
<1>1. log[c] # <<>>
  BY DEF TypeInv, TypeOK, NoWork, Working, At
<1>2. Current(c) \in EventsOf(c) /\ work[c].stage \in StagesOf(Current(c).kind)
  BY <1>1, CurrentType
<1>3. \/ c[2] = "post" /\ Current(c).kind = "PostCreated" /\ Current(c).post \in Post
      \/ /\ c[2] = "follow" /\ Current(c).kind \in {"FollowCreated", "FollowDeleted"}
         /\ Current(c).user \in User
  BY <1>2, ChannelType DEF EventsOf, PostEvent, FollowEvent
<1> QED
  BY <1>1, <1>2, <1>3 DEF StagesOf

\* Where a decision leads is a place of its event's handler.
LEMMA DecideStage ==
    ASSUME NEW c, NEW n, Current(c).kind \in {"PostCreated", "FollowCreated"}
    PROVE  Decide(c, n) \in StagesOf(Current(c).kind)
BY DEF Decide, StagesOf

\* Followers are counted.
LEMMA FollowersType ==
    ASSUME NEW a
    PROVE  /\ FollowersOf(a) \in SUBSET User
           /\ Cardinality(FollowersOf(a)) \in Nat
           /\ Cardinality(FollowersOf(a)) <= Cardinality(User)
           /\ Cardinality(User) \in Nat
           /\ Outside(a) \in Nat
           /\ FollowerCount(a) \in Nat
           /\ FollowerCount(a) = Cardinality(FollowersOf(a)) + Outside(a)
<1>1. FollowersOf(a) \in SUBSET User
  BY DEF FollowersOf
<1>2. /\ Cardinality(FollowersOf(a)) \in Nat /\ Cardinality(User) \in Nat
      /\ Cardinality(FollowersOf(a)) <= Cardinality(User)
  BY <1>1, ConstantFacts, FS_Subset, FS_CardinalityType
<1>3. Outside(a) \in Nat
  BY ConstantFacts DEF Outside
<1> QED
  BY <1>1, <1>2, <1>3 DEF FollowerCount

\* Taking an element out of a sequence leaves a sequence of the rest.
LEMMA RemoveAtType ==
    ASSUME NEW E, NEW s \in Seq(E), NEW i \in DOMAIN s
    PROVE  RemoveAt(s, i) \in Seq(E)
<1>1. SubSeq(s, 1, i - 1) \in Seq(E) /\ SubSeq(s, i + 1, Len(s)) \in Seq(E)
  OBVIOUS
<1> QED
  BY <1>1 DEF RemoveAt

\* Appending keeps what is there.
LEMMA AppendFacts ==
    ASSUME NEW E, NEW s \in Seq(E), NEW e \in E
    PROVE  /\ Append(s, e) \in Seq(E)
           /\ Append(s, e) # <<>>
           /\ Len(Append(s, e)) = Len(s) + 1
           /\ Append(s, e)[Len(s) + 1] = e
           /\ \A i \in 1..Len(s) : Append(s, e)[i] = s[i]
           /\ s # <<>> => Head(Append(s, e)) = Head(s)
<1>1. /\ Append(s, e) \in Seq(E)
      /\ Len(Append(s, e)) = Len(s) + 1
      /\ Append(s, e)[Len(s) + 1] = e
      /\ \A i \in 1..Len(s) : Append(s, e)[i] = s[i]
      /\ Len(s) \in Nat
  OBVIOUS
<1>2. Append(s, e) # <<>>
  BY <1>1
<1>3. s # <<>> => Head(Append(s, e)) = Head(s)
  BY <1>1
<1> QED
  BY <1>1, <1>2, <1>3

\* Taking out the first leaves the tail.
LEMMA RemoveFirstIsTail ==
    ASSUME NEW E, NEW s \in Seq(E), s # <<>>
    PROVE  RemoveAt(s, 1) = Tail(s)
<1>1. SubSeq(s, 1, 0) = <<>> /\ SubSeq(s, 2, Len(s)) = Tail(s)
  OBVIOUS
<1>2. Tail(s) \in Seq(E)
  OBVIOUS
<1> QED
  BY <1>1, <1>2 DEF RemoveAt

-----------------------------------------------------------------------------
(* Type correctness. *)

CacheType ==
    /\ timeline \in [User -> SUBSET Post]
    /\ \A u \in User : Cardinality(timeline[u]) <= MaxTimelineLen
    /\ celebrityPosts \in SUBSET Post
    /\ Cardinality(celebrityPosts) <= MaxTimelineLen
    /\ following \in [User -> SUBSET Author]
    /\ count \in [Author -> Nat \union {-1}]

\* The initial states have the types.
LEMMA InitTypeInv == Init => TypeInv
<1> SUFFICES ASSUME Init PROVE TypeInv
  OBVIOUS
<1>1. NoWork \in Work
  BY DEF NoWork, Working, Work, Stage
<1>2. Cardinality({}) = 0 /\ 0 <= MaxTimelineLen
  BY FS_EmptySet, ConstantFacts
<1>3. author \in Seq(Author) /\ \A E : <<>> \in Seq(E)
  BY DEF Init
<1>4. TypeOK
  BY <1>1, <1>2, <1>3, ConstantFacts DEF Init, TypeOK
<1>5. EventInv /\ StageInv
  BY <1>3 DEF Init, EventInv, StageInv
<1>6. PostsInv
  BY ConstantFacts DEF Init, PostsInv
<1> QED
  BY <1>4, <1>5, <1>6 DEF TypeInv

\* A place of a handler is a stage.
LEMMA StagesAreStages ==
    ASSUME NEW k, NEW s \in StagesOf(k)
    PROVE  s \in Stage
BY DEF StagesOf, Stage

\* A step of a handler that goes to a place of its own keeps the types, if what it
\* writes has its type.
LEMMA HandlerStep ==
    ASSUME TypeInv, NEW c \in Channel, log[c] # <<>>,
           NEW w \in Work, w.stage \in StagesOf(Current(c).kind), GoWith(c, w),
           CacheType', UNCHANGED <<follows, author, ever, unsent, log, owed, changes>>
    PROVE  TypeInv'
<1>1. work \in [Channel -> Work] /\ work' = [work EXCEPT ![c] = w]
  BY DEF TypeInv, TypeOK, GoWith
<1>2. TypeOK'
  <2>1. work' \in [Channel -> Work]
    BY <1>1
  <2>2. \A d \in Channel : log'[d] = <<>> => work'[d] = NoWork
    BY <1>1 DEF TypeInv, TypeOK
  <2> QED
    BY <2>1, <2>2 DEF TypeInv, TypeOK, CacheType
<1>3. EventInv'
  BY DEF TypeInv, EventInv
<1>4. StageInv'
  BY <1>1 DEF TypeInv, StageInv, Current
<1> QED
  BY <1>2, <1>3, <1>4 DEF TypeInv, PostsInv

\* The types of a work record.
LEMMA WorkingType ==
    ASSUME NEW s \in Stage
    PROVE  Working(s) \in Work /\ Working(s).stage = s
BY DEF Working, Work

\* A change of the database keeps the types.
LEMMA CommittedType ==
    ASSUME TypeInv, NEW c \in Channel, NEW e \in EventsOf(c), Committed(c, e),
           follows' \in SUBSET (User \X Author), ever' \in SUBSET (User \X Author),
           author' \in Seq(Author), Len(author') <= MaxPosts,
           owed' \in [User -> SUBSET Post], changes' \in 0..MaxChanges,
           UNCHANGED <<log, work, cache>>
    PROVE  TypeInv'
<1>1. unsent[c] \in Seq(EventsOf(c)) /\ unsent[c] \in Seq(Event)
  BY DEF TypeInv, EventInv, TypeOK
<1>2. e \in Event
  BY DEF EventsOf, PostEvent, FollowEvent, Event
<1>3. Append(unsent[c], e) \in Seq(EventsOf(c)) /\ Append(unsent[c], e) \in Seq(Event)
  BY <1>1, <1>2
<1>4. unsent' = [unsent EXCEPT ![c] = Append(unsent[c], e)]
  BY DEF Committed
<1>5. TypeOK'
  BY <1>3, <1>4 DEF TypeInv, TypeOK, cache
<1>6. EventInv'
  BY <1>3, <1>4 DEF TypeInv, TypeOK, EventInv
<1>7. StageInv'
  BY DEF TypeInv, StageInv, Current
<1> QED
  BY <1>5, <1>6, <1>7 DEF TypeInv, PostsInv

\* Creating a post keeps the types.
LEMMA CreatePostType ==
    ASSUME TypeInv, NEW a \in Author, CreatePost(a)
    PROVE  TypeInv'
<1>1. author \in Seq(Author) /\ author' = Append(author, a)
  BY DEF TypeInv, TypeOK, CreatePost
<1>2. author' \in Seq(Author) /\ Len(author') = Len(author) + 1 /\ Len(author) \in Nat
  BY <1>1
<1>3. Len(author') \in Post /\ Len(author') <= MaxPosts
  BY <1>2, ConstantFacts DEF CreatePost, Post
<1>4. [kind |-> "PostCreated", post |-> Len(author')] \in EventsOf(<<a, "post">>)
  BY <1>3, ChannelsOfAuthor DEF PostEvent
<1>5. owed' \in [User -> SUBSET Post]
  BY <1>3 DEF TypeInv, TypeOK, CreatePost
<1> QED
  BY <1>2, <1>3, <1>4, <1>5, ChannelsOfAuthor, CommittedType DEF TypeInv, TypeOK, CreatePost, cache

\* A follow keeps the types.
LEMMA FollowType ==
    ASSUME TypeInv, NEW u \in User, NEW a \in Author, Follow(u, a)
    PROVE  TypeInv'
<1>1. [kind |-> "FollowCreated", user |-> u] \in EventsOf(<<a, "follow">>)
  BY ChannelsOfAuthor DEF FollowEvent
<1>2. changes' \in 0..MaxChanges
  BY ConstantFacts DEF TypeInv, TypeOK, Follow
<1>3. follows' \in SUBSET (User \X Author) /\ ever' \in SUBSET (User \X Author)
  BY DEF TypeInv, TypeOK, Follow
<1> QED
  BY <1>1, <1>2, <1>3, ChannelsOfAuthor, CommittedType DEF TypeInv, TypeOK, PostsInv, Follow, cache

\* An unfollow keeps the types.
LEMMA UnfollowType ==
    ASSUME TypeInv, NEW u \in User, NEW a \in Author, Unfollow(u, a)
    PROVE  TypeInv'
<1>1. [kind |-> "FollowDeleted", user |-> u] \in EventsOf(<<a, "follow">>)
  BY ChannelsOfAuthor DEF FollowEvent
<1>2. changes' \in 0..MaxChanges
  BY ConstantFacts DEF TypeInv, TypeOK, Unfollow
<1>3. follows' \in SUBSET (User \X Author) /\ owed' \in [User -> SUBSET Post]
  BY DEF TypeInv, TypeOK, Unfollow
<1> QED
  BY <1>1, <1>2, <1>3, ChannelsOfAuthor, CommittedType DEF TypeInv, TypeOK, PostsInv, Unfollow, cache

\* Publishing keeps the types.
LEMMA PublishType ==
    ASSUME TypeInv, NEW c \in Channel, Publish(c)
    PROVE  TypeInv'
<1>1. PICK i \in DOMAIN unsent[c] :
         /\ log' = [log EXCEPT ![c] = Append(log[c], unsent[c][i])]
         /\ unsent' = [unsent EXCEPT ![c] = RemoveAt(unsent[c], i)]
  BY DEF Publish
<1>2. /\ unsent[c] \in Seq(EventsOf(c)) /\ unsent[c] \in Seq(Event)
      /\ log[c] \in Seq(EventsOf(c)) /\ log[c] \in Seq(Event)
  BY DEF TypeInv, EventInv, TypeOK
<1>3. RemoveAt(unsent[c], i) \in Seq(EventsOf(c)) /\ RemoveAt(unsent[c], i) \in Seq(Event)
  BY <1>2, RemoveAtType
<1>4. unsent[c][i] \in EventsOf(c) /\ unsent[c][i] \in Event
  BY <1>2
<1>5. /\ Append(log[c], unsent[c][i]) \in Seq(EventsOf(c))
      /\ Append(log[c], unsent[c][i]) \in Seq(Event)
      /\ Append(log[c], unsent[c][i]) # <<>>
      /\ log[c] # <<>> => Head(Append(log[c], unsent[c][i])) = Head(log[c])
  BY <1>2, <1>4, AppendFacts
<1>6. UNCHANGED <<follows, author, ever, work, timeline, celebrityPosts, following, count, owed, changes>>
  BY DEF Publish, database, cache
<1>7. TypeOK'
  <2>1. log' \in [Channel -> Seq(Event)] /\ unsent' \in [Channel -> Seq(Event)]
    BY <1>1, <1>3, <1>5 DEF TypeInv, TypeOK
  <2>2. \A d \in Channel : log'[d] = <<>> => work'[d] = NoWork
    BY <1>1, <1>5, <1>6 DEF TypeInv, TypeOK
  <2> QED
    BY <1>6, <2>1, <2>2 DEF TypeInv, TypeOK
<1>8. EventInv'
  BY <1>1, <1>3, <1>5 DEF TypeInv, TypeOK, EventInv
<1>9. StageInv'
  <2> SUFFICES ASSUME NEW d \in Channel, log'[d] # <<>>
               PROVE  work'[d].stage \in StagesOf(Head(log'[d]).kind)
    BY DEF StageInv, Current
  <2>1. CASE log[d] = <<>>
    BY <1>6, <2>1 DEF TypeInv, TypeOK, NoWork, Working, StagesOf
  <2>2. CASE log[d] # <<>>
    BY <1>1, <1>5, <1>6, <2>2 DEF TypeInv, TypeOK, StageInv, Current
  <2> QED
    BY <2>1, <2>2
<1> QED
  BY <1>6, <1>7, <1>8, <1>9 DEF TypeInv, PostsInv

\* Committing the offset keeps the types.
LEMMA DoneType ==
    ASSUME TypeInv, NEW c \in Channel, Done(c)
    PROVE  TypeInv'
<1>1. log[c] # <<>> /\ log[c] \in Seq(EventsOf(c)) /\ log[c] \in Seq(Event)
  BY StageKind DEF Done, At, TypeInv, EventInv, TypeOK
<1>2. Tail(log[c]) \in Seq(EventsOf(c)) /\ Tail(log[c]) \in Seq(Event)
  BY <1>1
<1>3. /\ log' = [log EXCEPT ![c] = Tail(log[c])]
      /\ work' = [work EXCEPT ![c] = NoWork]
      /\ UNCHANGED <<database, unsent, timeline, celebrityPosts, following, count, owed, changes>>
  BY DEF Done, Go, GoWith, NoWork, database, cache
<1>4. NoWork \in Work /\ NoWork.stage = "idle"
  BY DEF NoWork, Working, Work, Stage
<1>5. TypeOK'
  BY <1>2, <1>3, <1>4 DEF TypeInv, TypeOK, database
<1>6. EventInv'
  BY <1>2, <1>3 DEF TypeInv, TypeOK, EventInv
<1>7. StageInv'
  BY <1>3, <1>4 DEF TypeInv, TypeOK, StageInv, Current, StagesOf
<1> QED
  BY <1>3, <1>5, <1>6, <1>7 DEF TypeInv, PostsInv, database

\* A key's lifetime that passes keeps the types.
LEMMA ExpiryType ==
    ASSUME TypeInv, NEW a \in Author, CountExpires(a)
    PROVE  TypeInv'
<1>1. count' \in [Author -> Nat \union {-1}]
  BY DEF CountExpires, TypeInv, TypeOK
<1>2. TypeOK'
  BY <1>1 DEF CountExpires, TypeInv, TypeOK, database
<1>3. EventInv' /\ StageInv' /\ PostsInv'
  BY DEF CountExpires, TypeInv, EventInv, StageInv, PostsInv, Current, database
<1> QED
  BY <1>2, <1>3 DEF TypeInv

\* The posts of an author are posts.
LEMMA PostsOfType ==
    ASSUME TypeInv, NEW a, NEW n
    PROVE  PostsOf(a) \in SUBSET Post /\ Newest(n, PostsOf(a)) \in SUBSET Post
<1>1. author \in Seq(Author) /\ Len(author) <= MaxPosts
  BY DEF TypeInv, TypeOK, PostsInv
<1>2. DOMAIN author \in SUBSET Post
  BY <1>1, ConstantFacts DEF Post
<1> QED
  BY <1>2 DEF PostsOf, Newest

\* No step of a handler leaves the types.
LEMMA StepType ==
    ASSUME TypeInv, NEW c \in Channel, Step(c)
    PROVE  TypeInv'
<1> DEFINE k == Current(c).kind
           a == AuthorOf(c)
<1>0. /\ a \in Author /\ CacheType /\ log \in [Channel -> Seq(Event)]
      /\ follows \in SUBSET (User \X Author)
  BY ChannelType DEF CacheType, TypeInv, TypeOK
<1>a. ASSUME NEW s \in StagesOf(k) PROVE Working(s) \in Work /\ Working(s).stage \in StagesOf(k)
  BY <1>a, StagesAreStages, WorkingType
<1>1. CASE Process(c)
  <2>1. log[c] # <<>> /\ Current(c) \in EventsOf(c)
    BY <1>1, CurrentType DEF Process
  <2>2. k \in {"PostCreated", "FollowCreated", "FollowDeleted"}
    BY <2>1 DEF EventsOf, PostEvent, FollowEvent
  <2>3. PICK s \in StagesOf(k) : Go(c, s)
    BY <1>1, <2>2 DEF Process, StagesOf
  <2> QED
    BY <1>0, <1>1, <1>a, <2>1, <2>3, HandlerStep DEF Process, Go, CacheType, cache, database
<1>2. CASE Invalidate(c)
  <2>1. log[c] # <<>> /\ k = "FollowCreated"
    BY <1>2, StageKind DEF Invalidate, At
  <2>2. "cached" \in StagesOf(k)
    BY <2>1 DEF StagesOf
  <2>3. CacheType'
    BY <1>0, <1>2 DEF Invalidate, CacheType
  <2> QED
    BY <1>2, <1>a, <2>1, <2>2, <2>3, HandlerStep DEF Invalidate, Go, database
<1>3. CASE InvalidateAfter(c)
  <2>1. log[c] # <<>> /\ k = "FollowDeleted"
    BY <1>3, StageKind DEF InvalidateAfter, At
  <2>2. "applied" \in StagesOf(k)
    BY <2>1 DEF StagesOf
  <2>3. CacheType'
    BY <1>0, <1>3 DEF InvalidateAfter, CacheType
  <2> QED
    BY <1>3, <1>a, <2>1, <2>2, <2>3, HandlerStep DEF InvalidateAfter, Go, database
<1>4. CASE Cached(c)
  <2>1. log[c] # <<>> /\ k # "FollowDeleted" /\ Current(c) \in EventsOf(c)
    BY <1>4, StageKind, CurrentType DEF Cached, At
  <2>2. k \in {"PostCreated", "FollowCreated"}
    BY <2>1 DEF EventsOf, PostEvent, FollowEvent
  <2>3. "query" \in StagesOf(k) /\ Decide(c, count[a]) \in StagesOf(k)
    BY <2>2, DecideStage DEF StagesOf
  <2>4. PICK s \in StagesOf(k) : Go(c, s)
    BY <1>4, <2>3 DEF Cached
  <2> QED
    BY <1>0, <1>4, <1>a, <2>1, <2>4, HandlerStep DEF Cached, Go, CacheType, cache, database
<1>5. CASE Query(c)
  <2>1. log[c] # <<>> /\ k # "FollowDeleted" /\ Current(c) \in EventsOf(c)
    BY <1>5, StageKind, CurrentType DEF Query, At
  <2>2. k \in {"PostCreated", "FollowCreated"}
    BY <2>1 DEF EventsOf, PostEvent, FollowEvent
  <2> DEFINE w == [stage |-> "store", count |-> FollowerCount(a), users |-> {}, posts |-> {}]
  <2>3. w \in Work /\ w.stage \in StagesOf(k)
    BY <2>2, FollowersType DEF Work, StagesOf, Stage
  <2> QED
    BY <1>0, <1>5, <2>1, <2>3, HandlerStep DEF Query, CacheType, cache, database
<1>6. CASE Store(c)
  <2>1. log[c] # <<>> /\ k # "FollowDeleted" /\ Current(c) \in EventsOf(c)
    BY <1>6, StageKind, CurrentType DEF Store, At
  <2>2. k \in {"PostCreated", "FollowCreated"}
    BY <2>1 DEF EventsOf, PostEvent, FollowEvent
  <2>3. Decide(c, work[c].count) \in StagesOf(k)
    BY <2>2, DecideStage
  <2>4. work[c].count \in Nat
    BY DEF TypeInv, TypeOK, Work
  <2>5. CacheType'
    BY <1>0, <1>6, <2>4 DEF Store, CacheType
  <2> QED
    BY <1>6, <1>a, <2>1, <2>3, <2>5, HandlerStep DEF Store, Go, database
<1>7. CASE AddCelebrityPost(c)
  <2>1. log[c] # <<>> /\ k = "PostCreated" /\ {Current(c).post} \in SUBSET Post
    BY <1>7, StageKind DEF AddCelebrityPost, At
  <2>2. "applied" \in StagesOf(k)
    BY <2>1 DEF StagesOf
  <2>3. /\ Trimmed(celebrityPosts \union {Current(c).post}) \in SUBSET Post
        /\ Cardinality(Trimmed(celebrityPosts \union {Current(c).post})) <= MaxTimelineLen
    BY <1>0, <2>1, TrimmedIsBounded DEF CacheType
  <2>4. CacheType'
    BY <1>0, <1>7, <2>3 DEF AddCelebrityPost, CacheType
  <2> QED
    BY <1>7, <1>a, <2>1, <2>2, <2>4, HandlerStep DEF AddCelebrityPost, Go, database
<1>8. CASE FollowerIDs(c)
  <2>1. log[c] # <<>> /\ k = "PostCreated"
    BY <1>8, StageKind DEF FollowerIDs, At
  <2> DEFINE w == [stage |-> "fanout", count |-> 0, users |-> FollowersOf(a), posts |-> {}]
  <2>2. w \in Work /\ w.stage \in StagesOf(k)
    BY <2>1, FollowersType DEF Work, StagesOf, Stage
  <2> QED
    BY <1>0, <1>8, <2>1, <2>2, HandlerStep DEF FollowerIDs, CacheType, cache, database
<1>9. CASE FanoutPost(c)
  <2>1. log[c] # <<>> /\ k = "PostCreated" /\ {Current(c).post} \in SUBSET Post
    BY <1>9, StageKind DEF FanoutPost, At
  <2>2. PICK u \in work[c].users :
          /\ timeline' = [timeline EXCEPT ![u] = Trimmed(timeline[u] \union {Current(c).post})]
          /\ GoWith(c, [stage |-> "fanout", count |-> 0, users |-> work[c].users \ {u}, posts |-> {}])
    BY <1>9 DEF FanoutPost
  <2>3. work[c].users \in SUBSET User
    BY DEF TypeInv, TypeOK, Work
  <2> DEFINE w == [stage |-> "fanout", count |-> 0, users |-> work[c].users \ {u}, posts |-> {}]
  <2>4. w \in Work /\ w.stage \in StagesOf(k)
    BY <2>1, <2>3 DEF Work, StagesOf, Stage
  <2>5. /\ Trimmed(timeline[u] \union {Current(c).post}) \in SUBSET Post
        /\ Cardinality(Trimmed(timeline[u] \union {Current(c).post})) <= MaxTimelineLen
    BY <1>0, <2>1, <2>3, TrimmedIsBounded DEF CacheType
  <2>6. CacheType'
    BY <1>0, <1>9, <2>2, <2>3, <2>5 DEF FanoutPost, CacheType
  <2> QED
    BY <1>9, <2>1, <2>2, <2>4, <2>6, HandlerStep DEF FanoutPost, database
<1>10. CASE FanoutDone(c)
  <2>1. log[c] # <<>> /\ k = "PostCreated"
    BY <1>10, StageKind DEF FanoutDone, At
  <2>2. "applied" \in StagesOf(k)
    BY <2>1 DEF StagesOf
  <2> QED
    BY <1>0, <1>10, <1>a, <2>1, <2>2, HandlerStep DEF FanoutDone, Go, CacheType, cache, database
<1>11. CASE AddCelebrityFollow(c)
  <2>1. log[c] # <<>> /\ k = "FollowCreated" /\ Current(c).user \in User
    BY <1>11, StageKind DEF AddCelebrityFollow, At
  <2>2. "applied" \in StagesOf(k)
    BY <2>1 DEF StagesOf
  <2>3. CacheType'
    BY <1>0, <1>11, <2>1 DEF AddCelebrityFollow, CacheType
  <2> QED
    BY <1>11, <1>a, <2>1, <2>2, <2>3, HandlerStep DEF AddCelebrityFollow, Go, database
<1>12. CASE RemoveCelebrityFollow(c)
  <2>1. log[c] # <<>> /\ k = "FollowDeleted" /\ Current(c).user \in User
    BY <1>12, StageKind DEF RemoveCelebrityFollow, At
  <2>2. "invalidateAfter" \in StagesOf(k)
    BY <2>1 DEF StagesOf
  <2>3. CacheType'
    BY <1>0, <1>12, <2>1 DEF RemoveCelebrityFollow, CacheType
  <2> QED
    BY <1>12, <1>a, <2>1, <2>2, <2>3, HandlerStep DEF RemoveCelebrityFollow, Go, database
<1>13. CASE RecentPosts(c)
  <2>1. log[c] # <<>> /\ k = "FollowCreated"
    BY <1>13, StageKind DEF RecentPosts, At
  <2> DEFINE w == [stage |-> "backfill", count |-> 0, users |-> {},
                   posts |-> Newest(BackfillCount, PostsOf(a))]
  <2>2. w \in Work /\ w.stage \in StagesOf(k)
    BY <2>1, PostsOfType DEF Work, StagesOf, Stage
  <2> QED
    BY <1>0, <1>13, <2>1, <2>2, HandlerStep DEF RecentPosts, CacheType, cache, database
<1>14. CASE Backfill(c)
  <2>1. log[c] # <<>> /\ k = "FollowCreated" /\ Current(c).user \in User
    BY <1>14, StageKind DEF Backfill, At
  <2>2. "applied" \in StagesOf(k) /\ work[c].posts \in SUBSET Post
    BY <2>1 DEF StagesOf, TypeInv, TypeOK, Work
  <2>3. /\ Trimmed(timeline[Current(c).user] \union work[c].posts) \in SUBSET Post
        /\ Cardinality(Trimmed(timeline[Current(c).user] \union work[c].posts)) <= MaxTimelineLen
    BY <1>0, <2>1, <2>2, TrimmedIsBounded DEF CacheType
  <2>4. CacheType'
    BY <1>0, <1>14, <2>1, <2>3 DEF Backfill, CacheType
  <2> QED
    BY <1>14, <1>a, <2>1, <2>2, <2>4, HandlerStep DEF Backfill, Go, database
<1>15. CASE Done(c)
  BY <1>15, DoneType
<1> QED
  BY <1>1, <1>2, <1>3, <1>4, <1>5, <1>6, <1>7, <1>8, <1>9, <1>10, <1>11, <1>12, <1>13, <1>14, <1>15
     DEF Step

\* Starting over keeps the types.
LEMMA StartOverType ==
    ASSUME TypeInv, NEW c \in Channel, StartOver(c)
    PROVE  TypeInv'
<1>1. log[c] # <<>> /\ "idle" \in StagesOf(Current(c).kind)
  BY StageKind DEF StartOver, StagesOf
<1>2. Working("idle") \in Work /\ Working("idle").stage \in StagesOf(Current(c).kind)
  BY <1>1, StagesAreStages, WorkingType
<1>3. CacheType'
  BY DEF TypeInv, TypeOK, CacheType, StartOver, cache
<1> QED
  BY <1>1, <1>2, <1>3, HandlerStep DEF StartOver, Go, database

\* No step leaves the types.
LEMMA NextTypeInv == TypeInv /\ [Next]_vars => TypeInv'
<1> SUFFICES ASSUME TypeInv, [Next]_vars PROVE TypeInv'
  OBVIOUS
<1>1. CASE UNCHANGED vars
  BY <1>1 DEF vars, database, cache, TypeInv, TypeOK, EventInv, StageInv, PostsInv, Current
<1> QED
  BY <1>1, CreatePostType, ExpiryType, FollowType, UnfollowType, PublishType, StepType, StartOverType
     DEF Next

\* The types and the places of the handlers are invariant.
LEMMA TypeInvariance == Safety => []TypeInv
BY InitTypeInv, NextTypeInv, PTL DEF Safety

\* Every variable keeps its type; in particular every list keeps its bound,
\* whatever the handlers of all the authors do to it side by side.
THEOREM TypeCorrect == Safety => []TypeOK
<1>1. TypeInv => TypeOK
  BY DEF TypeInv
<1> QED
  BY <1>1, TypeInvariance, PTL

-----------------------------------------------------------------------------
(* The events of a channel that are still to be handled, published or not. *)

Queue(c) == log[c] \o unsent[c]

Posted(p) == [kind |-> "PostCreated", post |-> p]
Created(u) == [kind |-> "FollowCreated", user |-> u]
Deleted(u) == [kind |-> "FollowDeleted", user |-> u]

IsFirst(q, e) == q # <<>> /\ q[1] = e
IsBehind(q, e) == \E i \in 2..Len(q) : q[i] = e

\* An event is behind others, or first and its handler at none of the places S.
Coming(c, e, S) == IsBehind(Queue(c), e) \/ (IsFirst(Queue(c), e) /\ work[c].stage \notin S)

\* Every event about u that is not of kind k has one of kind k behind it.
Answered(q, u, k) ==
    \A i \in DOMAIN q : q[i].user = u /\ q[i].kind # k =>
        \E j \in DOMAIN q : j > i /\ q[j] = [kind |-> k, user |-> u]

\* Moving the first of what waits to the end of what is published changes nothing.
LEMMA ConcatMove ==
    ASSUME NEW E, NEW l \in Seq(E), NEW s \in Seq(E), s # <<>>
    PROVE  Append(l, s[1]) \o Tail(s) = l \o s
PROOF OBVIOUS

\* Adding to what waits adds to both.
LEMMA ConcatAppend ==
    ASSUME NEW E, NEW l \in Seq(E), NEW s \in Seq(E), NEW e \in E
    PROVE  l \o Append(s, e) = Append(l \o s, e)
PROOF OBVIOUS

\* Dropping the first of what is published drops the first of both.
LEMMA ConcatTail ==
    ASSUME NEW E, NEW l \in Seq(E), NEW s \in Seq(E), l # <<>>
    PROVE  Tail(l) \o s = Tail(l \o s)
PROOF OBVIOUS

\* A queue and its first event.
LEMMA ConcatType ==
    ASSUME NEW E, NEW l \in Seq(E), NEW s \in Seq(E)
    PROVE  /\ l \o s \in Seq(E)
           /\ l # <<>> => l \o s # <<>> /\ (l \o s)[1] = l[1]
           /\ l = <<>> /\ s = <<>> => l \o s = <<>>
<1>1. /\ l \o s \in Seq(E)
      /\ Len(l \o s) = Len(l) + Len(s)
      /\ Len(l) \in Nat /\ Len(s) \in Nat
      /\ \A i \in 1..Len(l) : (l \o s)[i] = l[i]
  OBVIOUS
<1>2. l # <<>> => Len(l) > 0
  OBVIOUS
<1>3. l # <<>> => l \o s # <<>> /\ (l \o s)[1] = l[1]
  BY <1>1, <1>2
<1> QED
  BY <1>1, <1>3

\* A longer queue keeps its events, and has the new one.
LEMMA AppendKeeps ==
    ASSUME NEW E, NEW q \in Seq(E), NEW e \in E
    PROVE  /\ \A f : IsFirst(q, f) => IsFirst(Append(q, e), f)
           /\ \A f : IsBehind(q, f) => IsBehind(Append(q, e), f)
           /\ q = <<>> => IsFirst(Append(q, e), e)
           /\ q # <<>> => IsBehind(Append(q, e), e)
<1> DEFINE r == Append(q, e)
<1>1. /\ Len(q) \in Nat /\ Len(r) = Len(q) + 1 /\ r # <<>>
      /\ r[Len(q) + 1] = e
      /\ \A i \in 1..Len(q) : r[i] = q[i]
      /\ q # <<>> => Len(q) > 0
      /\ q = <<>> => Len(q) = 0
  BY AppendFacts
<1> HIDE DEF r
<1> QED
  BY <1>1 DEF IsFirst, IsBehind

\* Without its first event, a queue has those that were behind it.
LEMMA TailKeeps ==
    ASSUME NEW E, NEW q \in Seq(E), q # <<>>, NEW f, IsBehind(q, f)
    PROVE  IsBehind(Tail(q), f) \/ IsFirst(Tail(q), f)
<1> DEFINE r == Tail(q)
<1>1. /\ Len(q) \in Nat /\ Len(r) = Len(q) - 1 /\ r \in Seq(E)
      /\ \A i \in 1..Len(r) : r[i] = q[i + 1]
  OBVIOUS
<1>2. PICK i \in 2..Len(q) : q[i] = f
  BY DEF IsBehind
<1>3. i - 1 \in 1..Len(r) /\ r[i - 1] = f
  BY <1>1, <1>2
<1> HIDE DEF r
<1>4. Len(r) > 0 => r # <<>>
  OBVIOUS
<1> QED
  BY <1>1, <1>3, <1>4 DEF IsFirst, IsBehind

\* What is answered stays so when an event of kind k, or about someone else, comes ...
LEMMA AnsweredAppend ==
    ASSUME NEW E, NEW q \in Seq(E), NEW e \in E, NEW u, NEW k, Answered(q, u, k),
           e.user = u => e.kind = k
    PROVE  Answered(Append(q, e), u, k)
<1> DEFINE r == Append(q, e)
<1>1. /\ Len(q) \in Nat /\ Len(r) = Len(q) + 1 /\ r \in Seq(E)
      /\ r[Len(q) + 1] = e
      /\ \A i \in 1..Len(q) : r[i] = q[i]
      /\ DOMAIN q = 1..Len(q) /\ DOMAIN r = 1..(Len(q) + 1)
  BY AppendFacts
<1> HIDE DEF r
<1> QED
  BY <1>1 DEF Answered

\* ... and the answer of kind k itself answers all.
LEMMA AnsweredByLast ==
    ASSUME NEW E, NEW q \in Seq(E), NEW u, NEW k, [kind |-> k, user |-> u] \in E
    PROVE  Answered(Append(q, [kind |-> k, user |-> u]), u, k)
<1> DEFINE e == [kind |-> k, user |-> u]
           r == Append(q, e)
<1>1. /\ Len(q) \in Nat /\ Len(r) = Len(q) + 1
      /\ r[Len(q) + 1] = e /\ e.kind = k
      /\ DOMAIN r = 1..(Len(q) + 1)
  BY AppendFacts
<1> HIDE DEF r
<1> QED
  BY <1>1 DEF Answered

\* The first event of an answered queue, if not of kind k, has one behind it.
LEMMA AnsweredFirst ==
    ASSUME NEW E, NEW q \in Seq(E), q # <<>>, NEW u, NEW k, Answered(q, u, k),
           q[1].user = u, q[1].kind # k
    PROVE  IsBehind(q, [kind |-> k, user |-> u])
<1>1. Len(q) \in Nat /\ DOMAIN q = 1..Len(q) /\ 1 \in DOMAIN q
  OBVIOUS
<1> QED
  BY <1>1 DEF Answered, IsBehind

\* Answers stay when the first event goes.
LEMMA AnsweredTail ==
    ASSUME NEW E, NEW q \in Seq(E), q # <<>>, NEW u, NEW k, Answered(q, u, k)
    PROVE  Answered(Tail(q), u, k)
<1> DEFINE r == Tail(q)
<1>1. /\ Len(q) \in Nat /\ Len(r) = Len(q) - 1 /\ Len(r) \in Nat
      /\ DOMAIN q = 1..Len(q) /\ DOMAIN r = 1..Len(r)
      /\ \A i \in 1..Len(r) : r[i] = q[i + 1]
  OBVIOUS
<1> HIDE DEF r
<1> SUFFICES ASSUME NEW i \in DOMAIN r, r[i].user = u, r[i].kind # k
             PROVE  \E j \in DOMAIN r : j > i /\ r[j] = [kind |-> k, user |-> u]
  BY DEF Answered, r
<1>2. i \in Nat /\ i + 1 \in DOMAIN q /\ q[i + 1] = r[i]
  BY <1>1
<1>3. PICK j \in DOMAIN q : j > i + 1 /\ q[j] = [kind |-> k, user |-> u]
  BY <1>2 DEF Answered
<1>4. j - 1 \in DOMAIN r /\ j - 1 > i /\ r[j - 1] = q[j]
  BY <1>1, <1>2, <1>3
<1> QED
  BY <1>3, <1>4

-----------------------------------------------------------------------------
(* How the steps change the queues. *)

\* The event of a new post is one of its channel's.
LEMMA NewPost ==
    ASSUME TypeInv, NEW a \in Author, CreatePost(a)
    PROVE  LET c == <<a, "post">>
               n == Len(author) + 1
               e == [kind |-> "PostCreated", post |-> n]
           IN  /\ n \in Post /\ n \notin DOMAIN author
               /\ DOMAIN author' = DOMAIN author \union {n}
               /\ author'[n] = a /\ \A p \in DOMAIN author : author'[p] = author[p]
               /\ DOMAIN author \in SUBSET Post
               /\ Len(author') = n
               /\ c \in Channel /\ e \in EventsOf(c) /\ Committed(c, e)
<1> DEFINE n == Len(author) + 1
<1>1. author \in Seq(Author) /\ author' = Append(author, a) /\ Len(author) < MaxPosts
  BY DEF TypeInv, TypeOK, CreatePost
<1>2. /\ Len(author) \in Nat /\ Len(author') = n
      /\ DOMAIN author = 1..Len(author) /\ DOMAIN author' = 1..n
      /\ author'[n] = a /\ \A p \in 1..Len(author) : author'[p] = author[p]
  BY <1>1, AppendFacts
<1>3. n \in Post /\ n \notin DOMAIN author /\ DOMAIN author' = DOMAIN author \union {n}
      /\ DOMAIN author \in SUBSET Post
  BY <1>1, <1>2, ConstantFacts DEF Post
<1>4. <<a, "post">> \in Channel /\ [kind |-> "PostCreated", post |-> n] \in EventsOf(<<a, "post">>)
  BY <1>3, ChannelsOfAuthor DEF PostEvent
<1>5. Committed(<<a, "post">>, [kind |-> "PostCreated", post |-> n])
  BY <1>2 DEF CreatePost
<1> QED
  BY <1>2, <1>3, <1>4, <1>5

\* The event in hand is the first.
LEMMA QueueType ==
    ASSUME TypeInv, NEW c \in Channel
    PROVE  /\ Queue(c) \in Seq(EventsOf(c))
           /\ log[c] # <<>> => Queue(c) # <<>> /\ Queue(c)[1] = Current(c)
           /\ log[c] # <<>> => \A e : IsFirst(Queue(c), e) <=> e = Current(c)
           /\ log[c] = <<>> => work[c].stage = "idle"
           /\ log[c] = <<>> /\ unsent[c] = <<>> => Queue(c) = <<>>
<1>1. log[c] \in Seq(EventsOf(c)) /\ unsent[c] \in Seq(EventsOf(c))
  BY DEF TypeInv, EventInv
<1>2. log[c] = <<>> => work[c].stage = "idle"
  BY DEF TypeInv, TypeOK, NoWork, Working
<1>3. /\ Queue(c) \in Seq(EventsOf(c))
      /\ log[c] # <<>> => Queue(c) # <<>> /\ Queue(c)[1] = log[c][1]
      /\ log[c] = <<>> /\ unsent[c] = <<>> => Queue(c) = <<>>
  BY <1>1, ConcatType DEF Queue
<1>4. log[c] # <<>> => Queue(c) # <<>> /\ Queue(c)[1] = Current(c)
  BY <1>3, CurrentType
<1>5. log[c] # <<>> => \A e : IsFirst(Queue(c), e) <=> e = Current(c)
  BY <1>4 DEF IsFirst
<1> QED
  BY <1>2, <1>3, <1>4, <1>5

\* A commit puts its event last.
LEMMA CommittedQueue ==
    ASSUME TypeInv, NEW c \in Channel, NEW e \in EventsOf(c), Committed(c, e), UNCHANGED log
    PROVE  /\ Queue(c)' = Append(Queue(c), e)
           /\ \A d \in Channel : d # c => Queue(d)' = Queue(d)
<1>1. log[c] \in Seq(EventsOf(c)) /\ unsent[c] \in Seq(EventsOf(c))
  BY DEF TypeInv, EventInv
<1>2. unsent' = [unsent EXCEPT ![c] = Append(unsent[c], e)] /\ unsent \in [Channel -> Seq(Event)]
  BY DEF Committed, TypeInv, TypeOK
<1>3. unsent'[c] = Append(unsent[c], e) /\ \A d \in Channel : d # c => unsent'[d] = unsent[d]
  BY <1>2
<1>4. log[c] \o Append(unsent[c], e) = Append(log[c] \o unsent[c], e)
  <2> DEFINE E == EventsOf(c)
             l == log[c]
             s == unsent[c]
  <2>1. l \in Seq(E) /\ s \in Seq(E) /\ e \in E
    BY <1>1
  <2> HIDE DEF E, l, s
  <2>2. l \o Append(s, e) = Append(l \o s, e)
    BY <2>1, ConcatAppend
  <2> QED
    BY <2>2 DEF l, s
<1>5. Queue(c)' = log[c] \o Append(unsent[c], e)
  BY <1>3 DEF Queue
<1>6. ASSUME NEW d \in Channel, d # c PROVE Queue(d)' = Queue(d)
  BY <1>3, <1>6 DEF Queue
<1>7. Append(log[c] \o unsent[c], e) = Append(Queue(c), e)
  BY DEF Queue
<1> QED
  BY <1>4, <1>5, <1>6, <1>7, Zenon

\* Published in order, an event keeps its place.
LEMMA PublishQueue ==
    ASSUME TypeInv, ~Reordering, NEW c \in Channel, Publish(c)
    PROVE  \A d \in Channel : Queue(d)' = Queue(d)
<1>1. log[c] \in Seq(EventsOf(c)) /\ unsent[c] \in Seq(EventsOf(c))
  BY DEF TypeInv, EventInv
<1>2. PICK i \in DOMAIN unsent[c] :
         /\ i = 1
         /\ log' = [log EXCEPT ![c] = Append(log[c], unsent[c][i])]
         /\ unsent' = [unsent EXCEPT ![c] = RemoveAt(unsent[c], i)]
  BY DEF Publish
<1>3. unsent[c] # <<>>
  BY <1>1, <1>2
<1>4. RemoveAt(unsent[c], 1) = Tail(unsent[c])
  BY <1>1, <1>3, RemoveFirstIsTail
<1>5. /\ log'[c] = Append(log[c], unsent[c][1]) /\ unsent'[c] = Tail(unsent[c])
      /\ \A d \in Channel : d # c => log'[d] = log[d] /\ unsent'[d] = unsent[d]
  BY <1>2, <1>4 DEF TypeInv, TypeOK
<1>6. Append(log[c], unsent[c][1]) \o Tail(unsent[c]) = log[c] \o unsent[c]
  BY <1>1, <1>3, ConcatMove
<1>7. Queue(c)' = Queue(c)
  BY <1>5, <1>6 DEF Queue
<1>8. ASSUME NEW d \in Channel, d # c PROVE Queue(d)' = Queue(d)
  BY <1>5, <1>8 DEF Queue
<1> QED
  BY <1>7, <1>8

\* A committed offset drops the first event.
LEMMA DoneQueue ==
    ASSUME TypeInv, NEW c \in Channel, Done(c)
    PROVE  /\ Queue(c) # <<>> /\ Queue(c)' = Tail(Queue(c)) /\ work'[c].stage = "idle"
           /\ \A d \in Channel : d # c => Queue(d)' = Queue(d) /\ work'[d] = work[d]
<1>1. log[c] # <<>> /\ log[c] \in Seq(EventsOf(c)) /\ unsent[c] \in Seq(EventsOf(c))
  BY StageKind DEF Done, At, TypeInv, EventInv
<1>2. /\ log' = [log EXCEPT ![c] = Tail(log[c])] /\ unsent' = unsent
      /\ work' = [work EXCEPT ![c] = NoWork]
  BY DEF Done, Go, GoWith, NoWork
<1>3. /\ log'[c] = Tail(log[c]) /\ work'[c] = NoWork
      /\ \A d \in Channel : d # c => log'[d] = log[d] /\ work'[d] = work[d]
  BY <1>2 DEF TypeInv, TypeOK
<1>4. NoWork.stage = "idle"
  BY DEF NoWork, Working
<1>5. Tail(log[c]) \o unsent[c] = Tail(log[c] \o unsent[c])
  BY <1>1, ConcatTail
<1>6. Queue(c)' = Tail(Queue(c))
  BY <1>2, <1>3, <1>5 DEF Queue
<1>7. ASSUME NEW d \in Channel, d # c PROVE Queue(d)' = Queue(d) /\ work'[d] = work[d]
  BY <1>2, <1>3, <1>7 DEF Queue
<1> QED
  BY <1>1, <1>3, <1>4, <1>6, <1>7, QueueType

\* A step that leaves the queue keeps what is coming, unless the handler of the
\* first event passes into S.
LEMMA ComingKept ==
    ASSUME NEW c, NEW e, NEW S, Coming(c, e, S), Queue(c)' = Queue(c),
           work[c].stage \in S \/ work'[c].stage \notin S \/ ~IsFirst(Queue(c), e)
    PROVE  Coming(c, e, S)'
BY DEF Coming

\* A commit keeps what is coming and adds its event.
LEMMA ComingCommitted ==
    ASSUME TypeInv, NEW c \in Channel, NEW e \in EventsOf(c), Committed(c, e),
           UNCHANGED <<log, work>>, NEW S, "idle" \notin S
    PROVE  /\ Coming(c, e, S)'
           /\ \A d \in Channel : \A f : Coming(d, f, S) => Coming(d, f, S)'
<1>1. /\ Queue(c)' = Append(Queue(c), e) /\ Queue(c) \in Seq(EventsOf(c))
      /\ \A d \in Channel : d # c => Queue(d)' = Queue(d)
  BY CommittedQueue, QueueType
<1>2. Queue(c) = <<>> => work[c].stage = "idle"
  BY QueueType
<1>3. Coming(c, e, S)'
  BY <1>1, <1>2, AppendKeeps DEF Coming
<1>4. ASSUME NEW d \in Channel, NEW f, Coming(d, f, S) PROVE Coming(d, f, S)'
  <2>1. CASE d = c
    <3>1. IsBehind(Queue(c), f) \/ (IsFirst(Queue(c), f) /\ work[c].stage \notin S)
      BY <1>4, <2>1 DEF Coming
    <3>2. /\ IsBehind(Queue(c), f) => IsBehind(Queue(c)', f)
          /\ IsFirst(Queue(c), f) => IsFirst(Queue(c)', f)
      BY <1>1, AppendKeeps
    <3> QED
      BY <2>1, <3>1, <3>2 DEF Coming
  <2>2. CASE d # c
    BY <1>1, <1>4, <2>2 DEF Coming
  <2> QED
    BY <2>1, <2>2
<1> QED
  BY <1>3, <1>4

\* So does a committed offset, if its handler was through.
LEMMA ComingDone ==
    ASSUME TypeInv, NEW c \in Channel, Done(c), NEW S, "idle" \notin S, "applied" \in S,
           NEW d \in Channel, NEW f, Coming(d, f, S)
    PROVE  Coming(d, f, S)'
<1>1. CASE d # c
  BY <1>1, DoneQueue DEF Coming
<1>2. CASE d = c
  <2>1. IsBehind(Queue(c), f)
    BY <1>2 DEF Coming, Done, At
  <2>2. IsBehind(Tail(Queue(c)), f) \/ IsFirst(Tail(Queue(c)), f)
    BY <2>1, DoneQueue, QueueType, TailKeeps
  <2> QED
    BY <1>2, <2>2, DoneQueue DEF Coming
<1> QED
  BY <1>1, <1>2

\* The steps of a handler short of the commit.
Handles(c) ==
    \/ Process(c) \/ Invalidate(c) \/ InvalidateAfter(c) \/ Cached(c) \/ Query(c) \/ Store(c)
    \/ AddCelebrityPost(c) \/ FollowerIDs(c) \/ FanoutPost(c) \/ FanoutDone(c)
    \/ AddCelebrityFollow(c) \/ RemoveCelebrityFollow(c) \/ RecentPosts(c) \/ Backfill(c)
    \/ StartOver(c)

\* They leave the database, the queues and the other handlers alone.
LEMMA HandlesLeaves ==
    ASSUME TypeInv, NEW c \in Channel, Handles(c)
    PROVE  /\ UNCHANGED <<follows, author, ever, unsent, log, owed, changes>>
           /\ \A d \in Channel : d # c => work'[d] = work[d]
           /\ \A d \in Channel : Queue(d)' = Queue(d)
<1>1. UNCHANGED <<follows, author, ever, unsent, log, owed, changes>>
  BY DEF Handles, database, cache, Process, Invalidate, InvalidateAfter, Cached, Query, Store,
         AddCelebrityPost, FollowerIDs, FanoutPost, FanoutDone, AddCelebrityFollow,
         RemoveCelebrityFollow, RecentPosts, Backfill, StartOver
<1>2. \E w : GoWith(c, w)
  BY DEF Handles, Go, Process, Invalidate, InvalidateAfter, Cached, Query, Store,
         AddCelebrityPost, FollowerIDs, FanoutPost, FanoutDone, AddCelebrityFollow,
         RemoveCelebrityFollow, RecentPosts, Backfill, StartOver
<1>3. PICK w : work' = [work EXCEPT ![c] = w]
  BY <1>2 DEF GoWith
<1>4. \A d \in Channel : d # c => work'[d] = work[d]
  BY <1>3 DEF TypeInv, TypeOK
<1>5. \A d \in Channel : Queue(d)' = Queue(d)
  BY <1>1 DEF Queue
<1> QED
  BY <1>1, <1>4, <1>5

\* A handler goes where it goes.
LEMMA GoesWith ==
    ASSUME TypeInv, NEW c \in Channel, NEW w, GoWith(c, w)
    PROVE  work'[c] = w
BY DEF GoWith, TypeInv, TypeOK

\* A handler goes to a stage.
LEMMA GoesTo ==
    ASSUME TypeInv, NEW c \in Channel, NEW s, Go(c, s)
    PROVE  work'[c].stage = s
BY GoesWith DEF Go, Working

PlainMove(c) ==
    Process(c) \/ Invalidate(c) \/ Cached(c) \/ Query(c) \/ Store(c) \/ StartOver(c)

\* Up to the decision nothing but the cached count is written.
LEMMA PlainMoves ==
    ASSUME TypeInv, NEW c \in Channel, PlainMove(c)
    PROVE  /\ Handles(c)
           /\ UNCHANGED <<timeline, celebrityPosts, following>>
           /\ work'[c].stage \notin {"fanout", "backfill", "invalidateAfter", "applied"}
<1> DEFINE ok(s) == s \notin {"fanout", "backfill", "invalidateAfter", "applied"}
<1>1. CASE Process(c)
  <2>1. PICK s : Go(c, s) /\ s \in {"cached", "invalidate", "unmark"}
    <3>1. log[c] # <<>> /\ Current(c) \in EventsOf(c)
      BY <1>1, CurrentType DEF Process
    <3>2. Current(c).kind \in {"PostCreated", "FollowCreated", "FollowDeleted"}
      BY <3>1 DEF EventsOf, PostEvent, FollowEvent
    <3> QED
      BY <1>1, <3>2 DEF Process
  <2>2. work'[c].stage = s
    BY <2>1, GoesTo
  <2> QED
    BY <1>1, <2>1, <2>2 DEF Process, Handles, cache
<1>2. CASE Invalidate(c)
  <2>1. work'[c].stage = "cached"
    BY <1>2, GoesTo DEF Invalidate
  <2> QED
    BY <1>2, <2>1 DEF Invalidate, Handles
<1>3. CASE Cached(c)
  <2>1. PICK s : Go(c, s) /\ ok(s)
    BY <1>3 DEF Cached, Decide
  <2>2. work'[c].stage = s
    BY <2>1, GoesTo
  <2> QED
    BY <1>3, <2>1, <2>2 DEF Cached, Handles, cache
<1>4. CASE Query(c)
  <2>1. work'[c].stage = "store"
    BY <1>4, GoesWith DEF Query
  <2> QED
    BY <1>4, <2>1 DEF Query, Handles, cache
<1>5. CASE Store(c)
  <2>1. PICK s : Go(c, s) /\ ok(s)
    BY <1>5 DEF Store, Decide
  <2>2. work'[c].stage = s
    BY <2>1, GoesTo
  <2> QED
    BY <1>5, <2>1, <2>2 DEF Store, Handles
<1>6. CASE StartOver(c)
  <2>1. work'[c].stage = "idle"
    BY <1>6, GoesTo DEF StartOver
  <2> QED
    BY <1>6, <2>1 DEF StartOver, Handles, cache
<1> QED
  BY <1>1, <1>2, <1>3, <1>4, <1>5, <1>6 DEF PlainMove

-----------------------------------------------------------------------------
(* Markers. *)

\* The kind of the last event about u and a.
Wanted(u, a) == IF <<u, a>> \in follows THEN "FollowCreated" ELSE "FollowDeleted"

\* An event that the follows table has overtaken has the one that undoes it behind it.
OrderedInv == \A u \in User, a \in Author : Answered(Queue(<<a, "follow">>), u, Wanted(u, a))

\* The places of the handler of an unfollow after the removal of the marker.
Unmarked == {"invalidateAfter", "applied"}

\* A marker without a follow is about to be removed.
MarkOf(u, a) ==
    a \in following[u] /\ <<u, a>> \notin follows =>
        Coming(<<a, "follow">>, Deleted(u), Unmarked)

MarkInv == \A u \in User, a \in Author : MarkOf(u, a)

\* The order stays when neither follows nor the queues change.
LEMMA OrderedSame ==
    ASSUME OrderedInv, UNCHANGED follows, \A a \in Author : Queue(<<a, "follow">>)' = Queue(<<a, "follow">>)
    PROVE  OrderedInv'
<1> SUFFICES ASSUME NEW u \in User, NEW a \in Author
             PROVE  Answered(Queue(<<a, "follow">>)', u, Wanted(u, a)')
  BY DEF OrderedInv
<1>1. Answered(Queue(<<a, "follow">>), u, Wanted(u, a))
  BY DEF OrderedInv
<1>2. Wanted(u, a)' = Wanted(u, a)
  BY DEF Wanted
<1> QED
  BY <1>1, <1>2

\* Queues that no step touches.
LEMMA QueuesSame ==
    ASSUME UNCHANGED <<log, unsent>>
    PROVE  \A c : Queue(c)' = Queue(c)
BY DEF Queue

\* A change of follows puts its event last.
LEMMA OrderedCommitted ==
    ASSUME TypeInv, OrderedInv, NEW u \in User, NEW a \in Author,
           NEW k \in {"FollowCreated", "FollowDeleted"},
           Committed(<<a, "follow">>, [kind |-> k, user |-> u]), UNCHANGED log,
           Wanted(u, a)' = k,
           \A v \in User, b \in Author : <<v, b>> # <<u, a>> => Wanted(v, b)' = Wanted(v, b)
    PROVE  OrderedInv'
<1> DEFINE c == <<a, "follow">>
           e == [kind |-> k, user |-> u]
<1>1. c \in Channel /\ e \in EventsOf(c) /\ e.user = u /\ e.kind = k
  BY ChannelsOfAuthor DEF FollowEvent
<1>2. /\ Queue(c)' = Append(Queue(c), e) /\ Queue(c) \in Seq(EventsOf(c))
      /\ \A d \in Channel : d # c => Queue(d)' = Queue(d)
  BY <1>1, CommittedQueue, QueueType
<1> SUFFICES ASSUME NEW v \in User, NEW b \in Author
             PROVE  Answered(Queue(<<b, "follow">>)', v, Wanted(v, b)')
  BY DEF OrderedInv
<1>3. Answered(Queue(<<b, "follow">>), v, Wanted(v, b))
  BY DEF OrderedInv
<1>4. CASE b # a
  <2>1. Queue(<<b, "follow">>)' = Queue(<<b, "follow">>)
    BY <1>2, <1>4, ChannelsOfAuthor
  <2> QED
    BY <1>3, <1>4, <2>1
<1>5. CASE b = a /\ v = u
  <2> DEFINE q == Queue(c)
  <2>1. Answered(Append(q, e), u, k)
    <3> HIDE DEF q
    <3> QED
      BY <1>1, <1>2, AnsweredByLast DEF q
  <2> QED
    BY <1>2, <1>5, <2>1
<1>6. CASE b = a /\ v # u
  <2> DEFINE q == Queue(c)
             w == Wanted(v, a)
  <2>1. Answered(q, v, w) /\ q \in Seq(EventsOf(c)) /\ (e.user = v => e.kind = w)
    BY <1>1, <1>2, <1>3, <1>6
  <2>2. Answered(Append(q, e), v, w)
    <3> HIDE DEF q, w, e, c
    <3> QED
      BY <1>1, <2>1, AnsweredAppend
  <2> QED
    BY <1>2, <1>6, <2>2
<1> QED
  BY <1>4, <1>5, <1>6

\* The order of the events of a follow is invariant, if requests publish in order.
LEMMA NextOrderedInv ==
    ASSUME TypeInv, OrderedInv, ~Reordering, [Next]_vars
    PROVE  OrderedInv'
<1>1. ASSUME NEW a \in Author, CreatePost(a) PROVE OrderedInv'
  <2>1. UNCHANGED <<follows, log>>
    BY <1>1 DEF CreatePost
  <2>2. \A b \in Author : Queue(<<b, "follow">>)' = Queue(<<b, "follow">>)
    BY <1>1, <2>1, NewPost, CommittedQueue, ChannelsOfAuthor
  <2> QED
    BY <2>1, <2>2, OrderedSame
<1>2. ASSUME NEW u \in User, NEW a \in Author, Follow(u, a) PROVE OrderedInv'
  <2>1. Wanted(u, a)' = "FollowCreated"
    BY <1>2 DEF Follow, Wanted
  <2>2. \A v \in User, b \in Author : <<v, b>> # <<u, a>> => Wanted(v, b)' = Wanted(v, b)
    BY <1>2 DEF Follow, Wanted
  <2> QED
    BY <1>2, <2>1, <2>2, OrderedCommitted DEF Follow
<1>3. ASSUME NEW u \in User, NEW a \in Author, Unfollow(u, a) PROVE OrderedInv'
  <2>1. Wanted(u, a)' = "FollowDeleted"
    BY <1>3 DEF Unfollow, Wanted
  <2>2. \A v \in User, b \in Author : <<v, b>> # <<u, a>> => Wanted(v, b)' = Wanted(v, b)
    BY <1>3 DEF Unfollow, Wanted
  <2> QED
    BY <1>3, <2>1, <2>2, OrderedCommitted DEF Unfollow
<1>4. ASSUME NEW c \in Channel, Publish(c) PROVE OrderedInv'
  BY <1>4, PublishQueue, OrderedSame, ChannelsOfAuthor DEF Publish, database
<1>5. ASSUME NEW c \in Channel, Handles(c) PROVE OrderedInv'
  BY <1>5, HandlesLeaves, OrderedSame, ChannelsOfAuthor
<1>6. ASSUME NEW c \in Channel, Done(c) PROVE OrderedInv'
  <2> SUFFICES ASSUME NEW v \in User, NEW b \in Author
               PROVE  Answered(Queue(<<b, "follow">>)', v, Wanted(v, b)')
    BY DEF OrderedInv
  <2>1. Answered(Queue(<<b, "follow">>), v, Wanted(v, b)) /\ Wanted(v, b)' = Wanted(v, b)
    BY <1>6 DEF OrderedInv, Done, database, Wanted
  <2>2. CASE c # <<b, "follow">>
    BY <1>6, <2>1, <2>2, DoneQueue, ChannelsOfAuthor
  <2>3. CASE c = <<b, "follow">>
    <3> DEFINE q == Queue(c)
               w == Wanted(v, b)
    <3>1. q # <<>> /\ q \in Seq(EventsOf(c)) /\ Queue(c)' = Tail(q) /\ Answered(q, v, w)
      BY <1>6, <2>1, <2>3, DoneQueue, QueueType
    <3>2. Answered(Tail(q), v, w)
      <4> HIDE DEF q, w
      <4> QED
        BY <3>1, AnsweredTail
    <3> QED
      BY <2>1, <2>3, <3>1, <3>2
  <2> QED
    BY <2>2, <2>3
<1>7. ASSUME NEW a \in Author, CountExpires(a) PROVE OrderedInv'
  BY <1>7, QueuesSame, OrderedSame DEF CountExpires, database
<1>8. CASE UNCHANGED vars
  BY <1>8, QueuesSame, OrderedSame DEF vars, database
<1> QED
  BY <1>1, <1>2, <1>3, <1>4, <1>5, <1>6, <1>7, <1>8 DEF Next, Step, Handles

\* A step that writes neither follows nor markers keeps the marks, unless a handler
\* of an unfollow passes the removal.
LEMMA MarkSame ==
    ASSUME NEW u \in User, NEW a \in Author, MarkOf(u, a), UNCHANGED <<follows, following>>,
           Queue(<<a, "follow">>)' = Queue(<<a, "follow">>),
           \/ work[<<a, "follow">>].stage \in Unmarked
           \/ work'[<<a, "follow">>].stage \notin Unmarked
           \/ ~IsFirst(Queue(<<a, "follow">>), Deleted(u))
    PROVE  MarkOf(u, a)'
<1> SUFFICES ASSUME a \in following[u], <<u, a>> \notin follows
             PROVE  Coming(<<a, "follow">>, Deleted(u), Unmarked)'
  BY DEF MarkOf
<1>1. Coming(<<a, "follow">>, Deleted(u), Unmarked)
  BY DEF MarkOf
<1> QED
  BY <1>1, ComingKept

\* A commit that leaves the other follows alone keeps the marks, if it announces
\* the unfollow of those that are gone.
LEMMA MarkCommitted ==
    ASSUME TypeInv, NEW u \in User, NEW a \in Author, MarkOf(u, a),
           NEW c \in Channel, NEW e \in EventsOf(c), Committed(c, e),
           UNCHANGED <<log, work, following>>,
           <<u, a>> \notin follows' =>
               <<u, a>> \notin follows \/ (c = <<a, "follow">> /\ e = Deleted(u))
    PROVE  MarkOf(u, a)'
<1> SUFFICES ASSUME a \in following[u], <<u, a>> \notin follows'
             PROVE  Coming(<<a, "follow">>, Deleted(u), Unmarked)'
  BY DEF MarkOf
<1>1. "idle" \notin Unmarked
  BY DEF Unmarked
<1>2. /\ Coming(c, e, Unmarked)'
      /\ \A d \in Channel : \A f : Coming(d, f, Unmarked) => Coming(d, f, Unmarked)'
  BY <1>1, ComingCommitted
<1>3. CASE <<u, a>> \notin follows
  <2>1. Coming(<<a, "follow">>, Deleted(u), Unmarked)
    BY <1>3 DEF MarkOf
  <2> QED
    BY <1>2, <2>1, ChannelsOfAuthor
<1>4. CASE <<u, a>> \in follows
  BY <1>2, <1>4
<1> QED
  BY <1>3, <1>4

\* The handler of a follow may mark what is unfollowed: the unfollow is behind it.
LEMMA MarkAdded ==
    ASSUME TypeInv, OrderedInv, NEW u \in User, NEW a \in Author, MarkOf(u, a),
           NEW c \in Channel, AddCelebrityFollow(c)
    PROVE  MarkOf(u, a)'
<1> DEFINE v == Current(c).user
           b == AuthorOf(c)
<1>1. /\ log[c] # <<>> /\ Current(c).kind = "FollowCreated" /\ c[2] = "follow"
      /\ v \in User /\ b \in Author /\ c = <<b, "follow">>
  BY StageKind, ChannelType DEF AddCelebrityFollow, At
<1>2. /\ Queue(c) # <<>> /\ Queue(c)[1] = Current(c) /\ Queue(c) \in Seq(EventsOf(c))
      /\ \A x : ~IsFirst(Queue(c), Deleted(x))
  BY <1>1, QueueType DEF Deleted
<1>3. Handles(c)
  BY DEF Handles
<1>4. /\ UNCHANGED follows /\ \A d \in Channel : d # c => work'[d] = work[d]
      /\ \A d \in Channel : Queue(d)' = Queue(d)
  BY <1>3, HandlesLeaves
<1>5. following' = [following EXCEPT ![v] = following[v] \union {b}] /\ following \in [User -> SUBSET Author]
  BY DEF AddCelebrityFollow, TypeInv, TypeOK
<1> SUFFICES ASSUME a \in following'[u], <<u, a>> \notin follows
             PROVE  Coming(<<a, "follow">>, Deleted(u), Unmarked)'
  BY <1>4 DEF MarkOf
<1>6. CASE a \in following[u]
  <2>1. Coming(<<a, "follow">>, Deleted(u), Unmarked)
    BY <1>6 DEF MarkOf
  <2>2. CASE a = b
    BY <1>1, <1>2, <1>4, <2>1, <2>2, ComingKept
  <2>3. CASE a # b
    <3>1. <<a, "follow">> \in Channel /\ <<a, "follow">> # c
      BY <1>1, <2>3, ChannelsOfAuthor
    <3> QED
      BY <1>4, <2>1, <3>1, ComingKept
  <2> QED
    BY <2>2, <2>3
<1>7. CASE a \notin following[u]
  <2>1. u = v /\ a = b
    BY <1>1, <1>5, <1>7
  <2>2. Wanted(u, a) = "FollowDeleted" /\ Answered(Queue(c), u, Wanted(u, a))
    BY <1>1, <2>1 DEF Wanted, OrderedInv
  <2>3. Queue(c)[1].user = u /\ Queue(c)[1].kind # "FollowDeleted"
    BY <1>1, <1>2, <2>1
  <2>4. IsBehind(Queue(c), Deleted(u))
    <3> DEFINE q == Queue(c)
               E == EventsOf(c)
    <3>1. /\ q \in Seq(E) /\ q # <<>> /\ Answered(q, u, "FollowDeleted")
          /\ q[1].user = u /\ q[1].kind # "FollowDeleted"
      BY <1>2, <2>2, <2>3
    <3> HIDE DEF q, E
    <3>2. IsBehind(q, [kind |-> "FollowDeleted", user |-> u])
      BY <3>1, AnsweredFirst
    <3> QED
      BY <3>2 DEF q, Deleted
  <2>5. IsBehind(Queue(c)', Deleted(u))
    BY <1>4, <2>4
  <2> QED
    BY <1>1, <2>1, <2>5 DEF Coming
<1> QED
  BY <1>6, <1>7

\* The handler of an unfollow removes the mark.
LEMMA MarkRemoved ==
    ASSUME TypeInv, NEW u \in User, NEW a \in Author, MarkOf(u, a),
           NEW c \in Channel, RemoveCelebrityFollow(c)
    PROVE  MarkOf(u, a)'
<1> DEFINE v == Current(c).user
           b == AuthorOf(c)
<1>1. /\ log[c] # <<>> /\ Current(c) = Deleted(v) /\ c[2] = "follow"
      /\ v \in User /\ b \in Author /\ c = <<b, "follow">>
  <2>1. /\ log[c] # <<>> /\ Current(c).kind = "FollowDeleted" /\ c[2] = "follow" /\ v \in User
    BY StageKind DEF RemoveCelebrityFollow, At
  <2>2. Current(c) \in FollowEvent
    BY <2>1, CurrentType DEF EventsOf
  <2> QED
    BY <2>1, <2>2, ChannelType DEF FollowEvent, Deleted
<1>2. /\ Queue(c) # <<>> /\ Queue(c)[1] = Current(c)
      /\ \A x : x # v => ~IsFirst(Queue(c), Deleted(x))
  BY <1>1, QueueType DEF Deleted
<1>3. Handles(c)
  BY DEF Handles
<1>4. /\ UNCHANGED follows /\ \A d \in Channel : d # c => work'[d] = work[d]
      /\ \A d \in Channel : Queue(d)' = Queue(d)
  BY <1>3, HandlesLeaves
<1>5. following' = [following EXCEPT ![v] = following[v] \ {b}] /\ following \in [User -> SUBSET Author]
  BY DEF RemoveCelebrityFollow, TypeInv, TypeOK
<1> SUFFICES ASSUME a \in following'[u], <<u, a>> \notin follows
             PROVE  Coming(<<a, "follow">>, Deleted(u), Unmarked)'
  BY <1>4 DEF MarkOf
<1>6. a \in following[u] /\ (a # b \/ u # v)
  BY <1>1, <1>5
<1>7. Coming(<<a, "follow">>, Deleted(u), Unmarked)
  BY <1>6 DEF MarkOf
<1>8. CASE a = b
  BY <1>1, <1>2, <1>4, <1>6, <1>7, <1>8, ComingKept
<1>9. CASE a # b
  <2>1. <<a, "follow">> \in Channel /\ <<a, "follow">> # c
    BY <1>1, <1>9, ChannelsOfAuthor
  <2> QED
    BY <1>4, <1>7, <2>1, ComingKept
<1> QED
  BY <1>8, <1>9

\* A handler's other steps keep the marks.
LEMMA MarkHandled ==
    ASSUME TypeInv, OrderedInv, NEW u \in User, NEW a \in Author, MarkOf(u, a),
           NEW c \in Channel, Handles(c)
    PROVE  MarkOf(u, a)'
<1>1. /\ UNCHANGED follows /\ \A d \in Channel : d # c => work'[d] = work[d]
      /\ \A d \in Channel : Queue(d)' = Queue(d)
  BY HandlesLeaves
<1>2. ASSUME UNCHANGED following,
             \/ work[c].stage \in Unmarked
             \/ work'[c].stage \notin Unmarked
             \/ c[2] # "follow"
             \/ \A x \in User : ~IsFirst(Queue(c), Deleted(x))
      PROVE  MarkOf(u, a)'
  <2>1. \/ work[<<a, "follow">>].stage \in Unmarked
           \/ work'[<<a, "follow">>].stage \notin Unmarked
           \/ ~IsFirst(Queue(<<a, "follow">>), Deleted(u))
    <3>1. CASE c = <<a, "follow">>
      BY <1>2, <3>1
    <3>2. CASE c # <<a, "follow">>
      BY <1>1, <3>2, ChannelsOfAuthor
    <3> QED
      BY <3>1, <3>2
  <2> QED
    BY <1>1, <1>2, <2>1, MarkSame, ChannelsOfAuthor
<1>3. CASE PlainMove(c)
  BY <1>2, <1>3, PlainMoves DEF Unmarked
<1>4. CASE InvalidateAfter(c)
  BY <1>2, <1>4 DEF InvalidateAfter, At, Unmarked
<1>5. CASE AddCelebrityPost(c) \/ FollowerIDs(c) \/ FanoutPost(c) \/ FanoutDone(c)
  <2>1. c[2] = "post" /\ UNCHANGED following
    BY <1>5, StageKind DEF AddCelebrityPost, FollowerIDs, FanoutPost, FanoutDone, At, cache
  <2> QED
    BY <1>2, <2>1
<1>6. CASE RecentPosts(c) \/ Backfill(c)
  <2>1. log[c] # <<>> /\ Current(c).kind = "FollowCreated" /\ UNCHANGED following
    BY <1>6, StageKind DEF RecentPosts, Backfill, At, cache
  <2>2. \A x : ~IsFirst(Queue(c), Deleted(x))
    BY <2>1, QueueType DEF Deleted
  <2> QED
    BY <1>2, <2>1, <2>2
<1>7. CASE AddCelebrityFollow(c)
  BY <1>7, MarkAdded
<1>8. CASE RemoveCelebrityFollow(c)
  BY <1>8, MarkRemoved
<1> QED
  BY <1>3, <1>4, <1>5, <1>6, <1>7, <1>8 DEF Handles, PlainMove

\* The marks without a follow stay about to be removed.
LEMMA NextMarkOf ==
    ASSUME TypeInv, OrderedInv, NEW u \in User, NEW a \in Author, MarkOf(u, a), ~Reordering, [Next]_vars
    PROVE  MarkOf(u, a)'
<1>1. ASSUME NEW b \in Author, CreatePost(b) PROVE MarkOf(u, a)'
  <2>1. UNCHANGED <<follows, log, work, following>>
    BY <1>1 DEF CreatePost, cache
  <2> QED
    BY <1>1, <2>1, NewPost, MarkCommitted
<1>2. ASSUME NEW v \in User, NEW b \in Author, Follow(v, b) PROVE MarkOf(u, a)'
  <2> DEFINE c == <<b, "follow">>
  <2>1. /\ Committed(c, Created(v)) /\ UNCHANGED <<log, work, following>>
        /\ c \in Channel /\ Created(v) \in EventsOf(c)
        /\ \A x \in User, y \in Author : <<x, y>> \notin follows' => <<x, y>> \notin follows
    BY <1>2, ChannelsOfAuthor DEF Follow, cache, Created, FollowEvent
  <2> QED
    BY <2>1, MarkCommitted
<1>3. ASSUME NEW v \in User, NEW b \in Author, Unfollow(v, b) PROVE MarkOf(u, a)'
  <2> DEFINE c == <<b, "follow">>
  <2>1. /\ Committed(c, Deleted(v)) /\ UNCHANGED <<log, work, following>>
        /\ c \in Channel /\ Deleted(v) \in EventsOf(c)
    BY <1>3, ChannelsOfAuthor DEF Unfollow, cache, Deleted, FollowEvent
  <2>2. \A x \in User, y \in Author : <<x, y>> \notin follows' =>
           <<x, y>> \notin follows \/ (c = <<y, "follow">> /\ Deleted(v) = Deleted(x))
    BY <1>3 DEF Unfollow
  <2> QED
    BY <2>1, <2>2, MarkCommitted
<1>4. ASSUME NEW c \in Channel, Publish(c) PROVE MarkOf(u, a)'
  BY <1>4, PublishQueue, MarkSame, ChannelsOfAuthor DEF Publish, database, cache
<1>5. ASSUME NEW c \in Channel, Handles(c) PROVE MarkOf(u, a)'
  BY <1>5, MarkHandled
<1>6. ASSUME NEW c \in Channel, Done(c) PROVE MarkOf(u, a)'
  <2> SUFFICES ASSUME a \in following[u], <<u, a>> \notin follows
               PROVE  Coming(<<a, "follow">>, Deleted(u), Unmarked)'
    BY <1>6 DEF Done, database, cache, MarkOf, Deleted, Unmarked
  <2>1. Coming(<<a, "follow">>, Deleted(u), Unmarked)
    BY DEF MarkOf
  <2>2. "idle" \notin Unmarked /\ "applied" \in Unmarked
    BY DEF Unmarked
  <2> QED
    BY <1>6, <2>1, <2>2, ComingDone, ChannelsOfAuthor
<1>7. ASSUME NEW b \in Author, CountExpires(b) PROVE MarkOf(u, a)'
  BY <1>7, QueuesSame, MarkSame DEF CountExpires, database
<1>8. CASE UNCHANGED vars
  BY <1>8, QueuesSame, MarkSame DEF vars, database, cache
<1> QED
  BY <1>1, <1>2, <1>3, <1>4, <1>5, <1>6, <1>7, <1>8 DEF Next, Step, Handles

\* Nothing is on its way in the initial states.
LEMMA InitQueues ==
    ASSUME Init, NEW c \in Channel
    PROVE  Queue(c) = <<>>
<1>1. log[c] = <<>> /\ unsent[c] = <<>> /\ <<>> \in Seq(Event)
  BY DEF Init
<1> QED
  BY <1>1, ConcatType DEF Queue

\* When the events of an author are all applied, markers are follows, for any
\* number of users, authors, follows and unfollows, wherever handlers fail and
\* start over, as long as requests publish in the order of their commits.
THEOREM MarkersFollow == ~Reordering => (Safety => []MarkersAreFollows)
<1> DEFINE Inv == TypeInv /\ OrderedInv /\ MarkInv
<1>1. Init => Inv
  <2> SUFFICES ASSUME Init PROVE OrderedInv /\ MarkInv
    BY InitTypeInv
  <2>1. \A u, k : Answered(<<>>, u, k)
    BY DEF Answered
  <2>2. \A a \in Author : Queue(<<a, "follow">>) = <<>>
    BY InitQueues, ChannelsOfAuthor
  <2> QED
    BY <2>1, <2>2 DEF Init, OrderedInv, MarkInv, MarkOf
<1>2. ASSUME ~Reordering, Inv, [Next]_vars PROVE Inv'
  BY <1>2, NextTypeInv, NextOrderedInv, NextMarkOf DEF MarkInv
<1>3. Inv => MarkersAreFollows
  <2> SUFFICES ASSUME Inv, NEW u \in User, NEW a \in Author, Quiet(a), a \in following[u],
                      <<u, a>> \notin follows
               PROVE  FALSE
    BY DEF MarkersAreFollows
  <2>1. Coming(<<a, "follow">>, Deleted(u), Unmarked)
    BY DEF MarkInv, MarkOf
  <2>2. Queue(<<a, "follow">>) = <<>>
    BY QueueType, ChannelsOfAuthor DEF Quiet
  <2>3. Len(<<>>) = 0
    OBVIOUS
  <2> QED
    BY <2>1, <2>2, <2>3 DEF Coming, IsFirst, IsBehind
<1> HIDE DEF Inv
<1> SUFFICES ASSUME ~Reordering PROVE Safety => []MarkersAreFollows
  OBVIOUS
<1>4. Inv /\ [Next]_vars => Inv'
  BY <1>2
<1> QED
  BY <1>1, <1>3, <1>4, PTL DEF Safety

-----------------------------------------------------------------------------
(* Authors who cannot cross the threshold. *)

Ordinary(a) == Outside(a) + Cardinality(User) < Threshold
Celebrity(a) == Outside(a) >= Threshold

\* No author has so many followers outside that the users could make the difference.
NoCrossing == \A a \in Author : Ordinary(a) \/ Celebrity(a)

\* A count read or cached is on its author's side of the threshold ...
CountOnSide(a, n) == /\ Ordinary(a) => n < Threshold
                     /\ Celebrity(a) => n >= Threshold

CountInv == \A a \in Author : count[a] = -1 \/ CountOnSide(a, count[a])

\* ... and so is every handler.
OnSide(a, w) ==
    /\ Ordinary(a) => w.stage \notin {"celebrity", "mark"}
    /\ Celebrity(a) => w.stage \notin {"followers", "fanout", "recent", "backfill"}
    /\ w.stage = "store" => CountOnSide(a, w.count)

SideInv == CountInv /\ \A c \in Channel : OnSide(AuthorOf(c), work[c])

\* Stages that are on both sides.
LEMMA CommonStage ==
    ASSUME NEW a, NEW w, w.stage \in {"idle", "invalidate", "cached", "query", "unmark",
                                     "invalidateAfter", "applied"}
    PROVE  OnSide(a, w)
BY DEF OnSide

\* The number of followers is on its author's side.
LEMMA FollowerCountOnSide ==
    ASSUME NEW a
    PROVE  CountOnSide(a, FollowerCount(a))
BY FollowersType, ConstantFacts DEF CountOnSide, Ordinary, Celebrity

\* A decision on a count that is on the side leads to the side.
LEMMA DecideOnSide ==
    ASSUME NEW c, NEW a, NEW n \in Nat, CountOnSide(a, n)
    PROVE  OnSide(a, Working(Decide(c, n)))
<1>1. Threshold \in Nat
  BY ConstantFacts
<1> QED
  BY <1>1 DEF OnSide, CountOnSide, Working, Decide, ShouldFanoutOnWrite

\* A handler that stays on its side keeps the sides.
LEMMA SideKept ==
    ASSUME TypeInv, SideInv, NEW c \in Channel, NEW w, GoWith(c, w), OnSide(AuthorOf(c), w), CountInv'
    PROVE  SideInv'
<1>1. work' = [work EXCEPT ![c] = w] /\ work \in [Channel -> Work]
  BY DEF GoWith, TypeInv, TypeOK
<1>2. \A d \in Channel : work'[d] = IF d = c THEN w ELSE work[d]
  BY <1>1
<1>3. ASSUME NEW d \in Channel PROVE OnSide(AuthorOf(d), work[d])'
  <2>1. CASE d = c
    <3>1. work'[d] = w
      BY <1>2, <2>1
    <3> QED
      BY <2>1, <3>1 DEF OnSide, AuthorOf, Ordinary, Celebrity, CountOnSide, Outside
  <2>2. CASE d # c
    <3>1. work'[d] = work[d] /\ OnSide(AuthorOf(d), work[d])
      BY <1>2, <2>2 DEF SideInv
    <3> QED
      BY <3>1 DEF OnSide, AuthorOf, Ordinary, Celebrity, CountOnSide, Outside
  <2> QED
    BY <2>1, <2>2
<1> QED
  BY <1>3 DEF SideInv

\* The counts stay on their sides when one is dropped or replaced by one on its side.
LEMMA CountKept ==
    ASSUME TypeInv, CountInv, NEW a \in Author, NEW n, n = -1 \/ CountOnSide(a, n),
           count' = [count EXCEPT ![a] = n]
    PROVE  CountInv'
<1>1. \A b \in Author : count'[b] = IF b = a THEN n ELSE count[b]
  BY DEF TypeInv, TypeOK
<1> QED
  BY <1>1 DEF CountInv, CountOnSide, Ordinary, Celebrity, Outside

\* The counts stay on their sides when none changes.
LEMMA CountSame ==
    ASSUME CountInv, UNCHANGED count
    PROVE  CountInv'
BY DEF CountInv, CountOnSide, Ordinary, Celebrity, Outside

\* Every handler stays on its author's side.
LEMMA NextSideInv ==
    ASSUME TypeInv, SideInv, [Next]_vars
    PROVE  SideInv'
<1>0. CountInv
  BY DEF SideInv
<1>a. ASSUME NEW c \in Channel, NEW s, Go(c, s), CountInv',
             s \in {"idle", "invalidate", "cached", "query", "unmark", "invalidateAfter", "applied"}
      PROVE  SideInv'
  <2>1. OnSide(AuthorOf(c), Working(s)) /\ GoWith(c, Working(s))
    BY <1>a, CommonStage DEF Working, Go
  <2> QED
    BY <1>a, <2>1, SideKept
<1>1. ASSUME UNCHANGED <<work, count>> PROVE SideInv'
  <2>1. ASSUME NEW c \in Channel PROVE OnSide(AuthorOf(c), work[c])'
    BY <1>1 DEF SideInv, OnSide, AuthorOf, Ordinary, Celebrity, CountOnSide, Outside
  <2> QED
    BY <1>0, <1>1, <2>1, CountSame DEF SideInv
<1>2. ASSUME NEW c \in Channel, Process(c) PROVE SideInv'
  <2>1. log[c] # <<>> /\ Current(c) \in EventsOf(c)
    BY <1>2, CurrentType DEF Process
  <2>2. Current(c).kind \in {"PostCreated", "FollowCreated", "FollowDeleted"}
    BY <2>1 DEF EventsOf, PostEvent, FollowEvent
  <2>3. PICK s : Go(c, s) /\ s \in {"cached", "invalidate", "unmark"}
    BY <1>2, <2>2 DEF Process
  <2> QED
    BY <1>0, <1>2, <1>a, <2>3, CountSame DEF Process, cache
<1>3. ASSUME NEW c \in Channel, Invalidate(c) \/ InvalidateAfter(c) PROVE SideInv'
  BY <1>0, <1>3, <1>a, CountKept, ChannelType DEF Invalidate, InvalidateAfter
<1>4. ASSUME NEW c \in Channel, Cached(c) PROVE SideInv'
  <2> DEFINE n == count[AuthorOf(c)]
  <2>1. CountInv' /\ AuthorOf(c) \in Author
    BY <1>0, <1>4, CountSame, ChannelType DEF Cached, cache
  <2>2. CASE n = -1
    BY <1>4, <1>a, <2>1, <2>2 DEF Cached
  <2>3. CASE n # -1
    <3>1. n \in Nat /\ CountOnSide(AuthorOf(c), n)
      BY <1>0, <2>1, <2>3 DEF CountInv, TypeInv, TypeOK
    <3>2. OnSide(AuthorOf(c), Working(Decide(c, n)))
      BY <3>1, DecideOnSide
    <3> QED
      BY <1>4, <2>1, <2>3, <3>2, SideKept DEF Cached, Go
  <2> QED
    BY <2>2, <2>3
<1>5. ASSUME NEW c \in Channel, Query(c) PROVE SideInv'
  <2> DEFINE w == [stage |-> "store", count |-> FollowerCount(AuthorOf(c)), users |-> {}, posts |-> {}]
  <2>1. OnSide(AuthorOf(c), w)
    BY FollowerCountOnSide DEF OnSide
  <2> QED
    BY <1>0, <1>5, <2>1, SideKept, CountSame DEF Query, cache
<1>6. ASSUME NEW c \in Channel, Store(c) PROVE SideInv'
  <2> DEFINE n == work[c].count
  <2>1. n \in Nat /\ CountOnSide(AuthorOf(c), n)
    BY <1>6 DEF SideInv, OnSide, Store, At, TypeInv, TypeOK, Work
  <2>2. OnSide(AuthorOf(c), Working(Decide(c, n)))
    BY <2>1, DecideOnSide
  <2>3. CountInv'
    BY <1>0, <1>6, <2>1, CountKept, ChannelType DEF Store
  <2> QED
    BY <1>6, <2>2, <2>3, SideKept DEF Store, Go
<1>7. ASSUME NEW c \in Channel,
             AddCelebrityPost(c) \/ FanoutDone(c) \/ AddCelebrityFollow(c)
             \/ RemoveCelebrityFollow(c) \/ Backfill(c) \/ Done(c) \/ StartOver(c)
      PROVE  SideInv'
  BY <1>0, <1>7, <1>a, CountSame
     DEF AddCelebrityPost, FanoutDone, AddCelebrityFollow, RemoveCelebrityFollow, Backfill, Done,
         StartOver, cache
<1>8. ASSUME NEW c \in Channel, FollowerIDs(c) \/ FanoutPost(c) \/ RecentPosts(c) PROVE SideInv'
  <2>1. ~Celebrity(AuthorOf(c))
    <3>1. CASE FollowerIDs(c) \/ FanoutPost(c)
      BY <3>1 DEF FollowerIDs, FanoutPost, At, SideInv, OnSide
    <3>2. CASE RecentPosts(c)
      BY <3>2 DEF RecentPosts, At, SideInv, OnSide
    <3> QED
      BY <1>8, <3>1, <3>2
  <2>2. PICK w : GoWith(c, w) /\ w.stage \in {"fanout", "backfill"}
    <3>1. CASE FollowerIDs(c)
      BY <3>1 DEF FollowerIDs
    <3>2. CASE FanoutPost(c)
      BY <3>2 DEF FanoutPost
    <3>3. CASE RecentPosts(c)
      BY <3>3 DEF RecentPosts
    <3> QED
      BY <1>8, <3>1, <3>2, <3>3
  <2>3. OnSide(AuthorOf(c), w)
    BY <2>1, <2>2 DEF OnSide
  <2> QED
    BY <1>0, <1>8, <2>2, <2>3, SideKept, CountSame DEF FollowerIDs, FanoutPost, RecentPosts, cache
<1>9. ASSUME NEW a \in Author, CountExpires(a) PROVE SideInv'
  <2>1. CountInv' /\ UNCHANGED work
    BY <1>0, <1>9, CountKept DEF CountExpires
  <2>2. ASSUME NEW c \in Channel PROVE OnSide(AuthorOf(c), work[c])'
    BY <2>1 DEF SideInv, OnSide, AuthorOf, Ordinary, Celebrity, CountOnSide, Outside
  <2> QED
    BY <2>1, <2>2 DEF SideInv
<1>10. ASSUME NEW a \in Author, CreatePost(a) PROVE SideInv'
  BY <1>1, <1>10 DEF CreatePost, cache
<1>11. ASSUME NEW a \in Author, NEW u \in User, Follow(u, a) \/ Unfollow(u, a) PROVE SideInv'
  BY <1>1, <1>11 DEF Follow, Unfollow, cache
<1>12. ASSUME NEW c \in Channel, Publish(c) PROVE SideInv'
  BY <1>1, <1>12 DEF Publish, cache
<1>13. CASE UNCHANGED vars
  BY <1>1, <1>13 DEF vars, cache
<1> QED
  BY <1>2, <1>3, <1>4, <1>5, <1>6, <1>7, <1>8, <1>9, <1>10, <1>11, <1>12, <1>13 DEF Next, Step

-----------------------------------------------------------------------------
(* Celebrities: every follower is marked, every post is in the stream. *)

\* A follower of a celebrity is marked, or about to be.
MarkedOf(u, a) ==
    Celebrity(a) /\ <<u, a>> \in follows =>
        a \in following[u] \/ Coming(<<a, "follow">>, Created(u), {"applied"})

MarkedInv == \A u \in User, a \in Author : MarkedOf(u, a)

\* A step that writes neither follows nor markers keeps the followers marked, unless
\* the handler of a follow ends.
LEMMA MarkedSame ==
    ASSUME NEW u \in User, NEW a \in Author, MarkedOf(u, a), UNCHANGED <<follows, following>>,
           Queue(<<a, "follow">>)' = Queue(<<a, "follow">>),
           Celebrity(a) =>
               \/ work[<<a, "follow">>].stage = "applied"
               \/ work'[<<a, "follow">>].stage # "applied"
               \/ ~IsFirst(Queue(<<a, "follow">>), Created(u))
    PROVE  MarkedOf(u, a)'
<1> SUFFICES ASSUME Celebrity(a), <<u, a>> \in follows,
                    a \notin following[u]
             PROVE  Coming(<<a, "follow">>, Created(u), {"applied"})'
  BY DEF MarkedOf, Celebrity, Outside, Created
<1>1. Coming(<<a, "follow">>, Created(u), {"applied"})
  BY DEF MarkedOf
<1> QED
  BY <1>1, ComingKept

\* A commit that leaves the other follows alone keeps the followers marked, if it
\* announces the follow of those that are new.
LEMMA MarkedCommitted ==
    ASSUME TypeInv, NEW u \in User, NEW a \in Author, MarkedOf(u, a),
           NEW c \in Channel, NEW e \in EventsOf(c), Committed(c, e),
           UNCHANGED <<log, work, following>>,
           <<u, a>> \in follows' =>
               <<u, a>> \in follows \/ (c = <<a, "follow">> /\ e = Created(u))
    PROVE  MarkedOf(u, a)'
<1> SUFFICES ASSUME Celebrity(a), <<u, a>> \in follows',
                    a \notin following[u]
             PROVE  Coming(<<a, "follow">>, Created(u), {"applied"})'
  BY DEF MarkedOf, Celebrity, Outside, Created
<1>1. /\ Coming(c, e, {"applied"})'
      /\ \A d \in Channel : \A f : Coming(d, f, {"applied"}) => Coming(d, f, {"applied"})'
  BY ComingCommitted
<1>2. CASE <<u, a>> \in follows
  <2>1. Coming(<<a, "follow">>, Created(u), {"applied"})
    BY <1>2 DEF MarkedOf
  <2> QED
    BY <1>1, <2>1, ChannelsOfAuthor
<1>3. CASE <<u, a>> \notin follows
  BY <1>1, <1>3
<1> QED
  BY <1>2, <1>3

\* The handler of a follow marks the follower.
LEMMA MarkedAdded ==
    ASSUME TypeInv, NEW u \in User, NEW a \in Author, MarkedOf(u, a),
           NEW c \in Channel, AddCelebrityFollow(c)
    PROVE  MarkedOf(u, a)'
<1> DEFINE v == Current(c).user
           b == AuthorOf(c)
<1>1. /\ log[c] # <<>> /\ Current(c) = Created(v) /\ c[2] = "follow"
      /\ v \in User /\ b \in Author /\ c = <<b, "follow">>
  <2>1. /\ log[c] # <<>> /\ Current(c).kind = "FollowCreated" /\ c[2] = "follow" /\ v \in User
    BY StageKind DEF AddCelebrityFollow, At
  <2>2. Current(c) \in FollowEvent
    BY <2>1, CurrentType DEF EventsOf
  <2> QED
    BY <2>1, <2>2, ChannelType DEF FollowEvent, Created
<1>2. \A x : x # v => ~IsFirst(Queue(c), Created(x))
  BY <1>1, QueueType DEF Created
<1>3. Handles(c)
  BY DEF Handles
<1>4. /\ UNCHANGED follows /\ \A d \in Channel : d # c => work'[d] = work[d]
      /\ \A d \in Channel : Queue(d)' = Queue(d)
  BY <1>3, HandlesLeaves
<1>5. following' = [following EXCEPT ![v] = following[v] \union {b}] /\ following \in [User -> SUBSET Author]
  BY DEF AddCelebrityFollow, TypeInv, TypeOK
<1> SUFFICES ASSUME Celebrity(a), <<u, a>> \in follows,
                    a \notin following'[u]
             PROVE  Coming(<<a, "follow">>, Created(u), {"applied"})'
  BY <1>4 DEF MarkedOf, Celebrity, Outside, Created
<1>6. a \notin following[u] /\ (a # b \/ u # v)
  BY <1>1, <1>5
<1>7. Coming(<<a, "follow">>, Created(u), {"applied"})
  BY <1>6 DEF MarkedOf
<1>8. CASE a = b
  BY <1>1, <1>2, <1>4, <1>6, <1>7, <1>8, ComingKept
<1>9. CASE a # b
  <2>1. <<a, "follow">> \in Channel /\ <<a, "follow">> # c
    BY <1>1, <1>9, ChannelsOfAuthor
  <2> QED
    BY <1>4, <1>7, <2>1, ComingKept
<1> QED
  BY <1>8, <1>9

\* The handler of an unfollow may remove the mark of a follower: the follow is behind it.
LEMMA MarkedRemoved ==
    ASSUME TypeInv, OrderedInv, NEW u \in User, NEW a \in Author, MarkedOf(u, a),
           NEW c \in Channel, RemoveCelebrityFollow(c)
    PROVE  MarkedOf(u, a)'
<1> DEFINE v == Current(c).user
           b == AuthorOf(c)
<1>1. /\ log[c] # <<>> /\ Current(c).kind = "FollowDeleted" /\ c[2] = "follow"
      /\ v \in User /\ b \in Author /\ c = <<b, "follow">>
  BY StageKind, ChannelType DEF RemoveCelebrityFollow, At
<1>2. /\ Queue(c) # <<>> /\ Queue(c)[1] = Current(c) /\ Queue(c) \in Seq(EventsOf(c))
      /\ \A x : ~IsFirst(Queue(c), Created(x))
  BY <1>1, QueueType DEF Created
<1>3. Handles(c)
  BY DEF Handles
<1>4. /\ UNCHANGED follows /\ \A d \in Channel : d # c => work'[d] = work[d]
      /\ \A d \in Channel : Queue(d)' = Queue(d)
  BY <1>3, HandlesLeaves
<1>5. following' = [following EXCEPT ![v] = following[v] \ {b}] /\ following \in [User -> SUBSET Author]
  BY DEF RemoveCelebrityFollow, TypeInv, TypeOK
<1> SUFFICES ASSUME Celebrity(a), <<u, a>> \in follows,
                    a \notin following'[u]
             PROVE  Coming(<<a, "follow">>, Created(u), {"applied"})'
  BY <1>4 DEF MarkedOf, Celebrity, Outside, Created
<1>6. CASE a \notin following[u]
  <2>1. Coming(<<a, "follow">>, Created(u), {"applied"})
    BY <1>6 DEF MarkedOf
  <2>2. CASE a = b
    BY <1>1, <1>2, <1>4, <2>1, <2>2, ComingKept
  <2>3. CASE a # b
    <3>1. <<a, "follow">> \in Channel /\ <<a, "follow">> # c
      BY <1>1, <2>3, ChannelsOfAuthor
    <3> QED
      BY <1>4, <2>1, <3>1, ComingKept
  <2> QED
    BY <2>2, <2>3
<1>7. CASE a \in following[u]
  <2>1. u = v /\ a = b
    BY <1>1, <1>5, <1>7
  <2>2. Wanted(u, a) = "FollowCreated" /\ Answered(Queue(c), u, Wanted(u, a))
    BY <1>1, <2>1 DEF Wanted, OrderedInv
  <2>3. Queue(c)[1].user = u /\ Queue(c)[1].kind # "FollowCreated"
    BY <1>1, <1>2, <2>1
  <2>4. IsBehind(Queue(c), Created(u))
    <3> DEFINE q == Queue(c)
               E == EventsOf(c)
    <3>1. /\ q \in Seq(E) /\ q # <<>> /\ Answered(q, u, "FollowCreated")
          /\ q[1].user = u /\ q[1].kind # "FollowCreated"
      BY <1>2, <2>2, <2>3
    <3> HIDE DEF q, E
    <3>2. IsBehind(q, [kind |-> "FollowCreated", user |-> u])
      BY <3>1, AnsweredFirst
    <3> QED
      BY <3>2 DEF q, Created
  <2>5. IsBehind(Queue(c)', Created(u))
    BY <1>4, <2>4
  <2> QED
    BY <1>1, <2>1, <2>5 DEF Coming
<1> QED
  BY <1>6, <1>7

\* A handler's other steps keep the followers marked.
LEMMA MarkedHandled ==
    ASSUME TypeInv, SideInv, OrderedInv, NEW u \in User, NEW a \in Author, MarkedOf(u, a),
           NEW c \in Channel, Handles(c)
    PROVE  MarkedOf(u, a)'
<1>1. /\ UNCHANGED follows /\ \A d \in Channel : d # c => work'[d] = work[d]
      /\ \A d \in Channel : Queue(d)' = Queue(d)
  BY HandlesLeaves
<1>2. ASSUME UNCHANGED following,
             \/ work'[c].stage # "applied"
             \/ c[2] # "follow"
             \/ ~Celebrity(AuthorOf(c))
             \/ \A x \in User : ~IsFirst(Queue(c), Created(x))
      PROVE  MarkedOf(u, a)'
  <2>1. ASSUME Celebrity(a)
        PROVE  \/ work[<<a, "follow">>].stage = "applied"
               \/ work'[<<a, "follow">>].stage # "applied"
               \/ ~IsFirst(Queue(<<a, "follow">>), Created(u))
    <3>1. CASE c = <<a, "follow">>
      BY <1>2, <2>1, <3>1, ChannelsOfAuthor
    <3>2. CASE c # <<a, "follow">>
      BY <1>1, <3>2, ChannelsOfAuthor
    <3> QED
      BY <3>1, <3>2
  <2> QED
    BY <1>1, <1>2, <2>1, MarkedSame, ChannelsOfAuthor
<1>3. CASE PlainMove(c)
  BY <1>2, <1>3, PlainMoves
<1>4. CASE InvalidateAfter(c)
  <2>1. log[c] # <<>> /\ Current(c).kind = "FollowDeleted" /\ UNCHANGED following
    BY <1>4, StageKind DEF InvalidateAfter, At
  <2>2. \A x : ~IsFirst(Queue(c), Created(x))
    BY <2>1, QueueType DEF Created
  <2> QED
    BY <1>2, <2>1, <2>2
<1>5. CASE AddCelebrityPost(c) \/ FollowerIDs(c) \/ FanoutPost(c) \/ FanoutDone(c)
  <2>1. c[2] = "post" /\ UNCHANGED following
    BY <1>5, StageKind DEF AddCelebrityPost, FollowerIDs, FanoutPost, FanoutDone, At, cache
  <2> QED
    BY <1>2, <2>1
<1>6. CASE RecentPosts(c) \/ Backfill(c)
  <2>1. ~Celebrity(AuthorOf(c)) /\ UNCHANGED following
    BY <1>6 DEF RecentPosts, Backfill, At, cache, SideInv, OnSide
  <2> QED
    BY <1>2, <2>1
<1>7. CASE AddCelebrityFollow(c)
  BY <1>7, MarkedAdded
<1>8. CASE RemoveCelebrityFollow(c)
  BY <1>8, MarkedRemoved
<1> QED
  BY <1>3, <1>4, <1>5, <1>6, <1>7, <1>8 DEF Handles, PlainMove

\* The followers of celebrities stay marked, or about to be.
LEMMA NextMarkedOf ==
    ASSUME TypeInv, SideInv, OrderedInv, NEW u \in User, NEW a \in Author, MarkedOf(u, a),
           ~Reordering, [Next]_vars
    PROVE  MarkedOf(u, a)'
<1>1. ASSUME NEW b \in Author, CreatePost(b) PROVE MarkedOf(u, a)'
  <2>1. UNCHANGED <<follows, log, work, following>>
    BY <1>1 DEF CreatePost, cache
  <2> QED
    BY <1>1, <2>1, NewPost, MarkedCommitted
<1>2. ASSUME NEW v \in User, NEW b \in Author, Follow(v, b) PROVE MarkedOf(u, a)'
  <2> DEFINE c == <<b, "follow">>
  <2>1. /\ Committed(c, Created(v)) /\ UNCHANGED <<log, work, following>>
        /\ c \in Channel /\ Created(v) \in EventsOf(c)
    BY <1>2, ChannelsOfAuthor DEF Follow, cache, Created, FollowEvent
  <2>2. \A x \in User, y \in Author : <<x, y>> \in follows' =>
           <<x, y>> \in follows \/ (c = <<y, "follow">> /\ Created(v) = Created(x))
    BY <1>2 DEF Follow
  <2> QED
    BY <2>1, <2>2, MarkedCommitted
<1>3. ASSUME NEW v \in User, NEW b \in Author, Unfollow(v, b) PROVE MarkedOf(u, a)'
  <2> DEFINE c == <<b, "follow">>
  <2>1. /\ Committed(c, Deleted(v)) /\ UNCHANGED <<log, work, following>>
        /\ c \in Channel /\ Deleted(v) \in EventsOf(c)
        /\ \A x \in User, y \in Author : <<x, y>> \in follows' => <<x, y>> \in follows
    BY <1>3, ChannelsOfAuthor DEF Unfollow, cache, Deleted, FollowEvent
  <2> QED
    BY <2>1, MarkedCommitted
<1>4. ASSUME NEW c \in Channel, Publish(c) PROVE MarkedOf(u, a)'
  BY <1>4, PublishQueue, MarkedSame, ChannelsOfAuthor DEF Publish, database, cache
<1>5. ASSUME NEW c \in Channel, Handles(c) PROVE MarkedOf(u, a)'
  BY <1>5, MarkedHandled
<1>6. ASSUME NEW c \in Channel, Done(c) PROVE MarkedOf(u, a)'
  <2> SUFFICES ASSUME Celebrity(a), <<u, a>> \in follows,
                      a \notin following[u]
               PROVE  Coming(<<a, "follow">>, Created(u), {"applied"})'
    BY <1>6 DEF Done, database, cache, MarkedOf, Created, Celebrity, Outside
  <2>1. Coming(<<a, "follow">>, Created(u), {"applied"})
    BY DEF MarkedOf
  <2> QED
    BY <1>6, <2>1, ComingDone, ChannelsOfAuthor
<1>7. ASSUME NEW b \in Author, CountExpires(b) PROVE MarkedOf(u, a)'
  BY <1>7, QueuesSame, MarkedSame DEF CountExpires, database
<1>8. CASE UNCHANGED vars
  BY <1>8, QueuesSame, MarkedSame DEF vars, database, cache
<1> QED
  BY <1>1, <1>2, <1>3, <1>4, <1>5, <1>6, <1>7, <1>8 DEF Next, Step, Handles

\* No step of a handler drops from a list what the list keeps.
LEMMA ListsKeep ==
    ASSUME TypeInv, NEW c \in Channel, Handles(c), NEW p \in Post
    PROVE  /\ Kept(p, celebrityPosts) => Kept(p, celebrityPosts')
           /\ \A u \in User : Kept(p, timeline[u]) => Kept(p, timeline'[u])
<1>0. timeline \in [User -> SUBSET Post] /\ celebrityPosts \in SUBSET Post
  BY DEF TypeInv, TypeOK
<1>1. CASE UNCHANGED <<timeline, celebrityPosts>>
  BY <1>1
<1>2. CASE AddCelebrityPost(c)
  <2>1. {Current(c).post} \in SUBSET Post
    BY <1>2, StageKind DEF AddCelebrityPost, At
  <2>2. Kept(p, celebrityPosts) => Kept(p, Trimmed(celebrityPosts \union {Current(c).post}))
    BY <1>0, <2>1, TrimKeeps
  <2> QED
    BY <1>2, <2>2 DEF AddCelebrityPost
<1>3. ASSUME NEW v \in User, NEW A \in SUBSET Post, UNCHANGED celebrityPosts,
             timeline' = [timeline EXCEPT ![v] = Trimmed(timeline[v] \union A)]
      PROVE  /\ Kept(p, celebrityPosts) => Kept(p, celebrityPosts')
             /\ \A u \in User : Kept(p, timeline[u]) => Kept(p, timeline'[u])
  <2>1. Kept(p, timeline[v]) => Kept(p, Trimmed(timeline[v] \union A))
    BY <1>0, TrimKeeps
  <2>2. \A u \in User : timeline'[u] = IF u = v THEN Trimmed(timeline[v] \union A) ELSE timeline[u]
    BY <1>0, <1>3
  <2> QED
    BY <1>3, <2>1, <2>2
<1>4. CASE FanoutPost(c)
  <2>1. {Current(c).post} \in SUBSET Post
    BY <1>4, StageKind DEF FanoutPost, At
  <2>2. work[c].users \in SUBSET User
    BY DEF TypeInv, TypeOK, Work
  <2> QED
    BY <1>3, <1>4, <2>1, <2>2 DEF FanoutPost
<1>5. CASE Backfill(c)
  <2>1. Current(c).user \in User /\ work[c].posts \in SUBSET Post
    BY <1>5, StageKind DEF Backfill, At, TypeInv, TypeOK, Work
  <2> QED
    BY <1>3, <1>5, <2>1 DEF Backfill
<1> QED
  BY <1>1, <1>2, <1>4, <1>5
     DEF Handles, cache, Process, Invalidate, InvalidateAfter, Cached, Query, Store, FollowerIDs,
         FanoutDone, AddCelebrityFollow, RemoveCelebrityFollow, RecentPosts, StartOver

\* Where the handler of a post goes.
LEMMA PostHandler ==
    ASSUME TypeInv, NEW c \in Channel, Handles(c), c[2] = "post"
    PROVE  PlainMove(c) \/ AddCelebrityPost(c) \/ FollowerIDs(c) \/ FanoutPost(c) \/ FanoutDone(c)
<1>1. ~InvalidateAfter(c) /\ ~AddCelebrityFollow(c) /\ ~RemoveCelebrityFollow(c)
  BY StageKind DEF InvalidateAfter, AddCelebrityFollow, RemoveCelebrityFollow, At
<1>2. ~RecentPosts(c) /\ ~Backfill(c)
  BY StageKind DEF RecentPosts, Backfill, At
<1> QED
  BY <1>1, <1>2 DEF Handles, PlainMove

\* A celebrity's posts are in the stream, have a full stream of newer posts before
\* them, or are about to be added.
ListedOf(a, p) ==
    p \in PostsOf(a) /\ Celebrity(a) =>
        Kept(p, celebrityPosts) \/ Coming(<<a, "post">>, Posted(p), {"applied"})

ListedInv == \A a \in Author, p \in Post : ListedOf(a, p)

\* A handler's steps keep the posts of celebrities in the stream, or coming.
LEMMA ListedHandled ==
    ASSUME TypeInv, SideInv, NEW a \in Author, NEW p \in Post, ListedOf(a, p),
           NEW c \in Channel, Handles(c)
    PROVE  ListedOf(a, p)'
<1>1. /\ UNCHANGED author /\ \A d \in Channel : d # c => work'[d] = work[d]
      /\ \A d \in Channel : Queue(d)' = Queue(d)
  BY HandlesLeaves
<1> SUFFICES ASSUME p \in PostsOf(a), Celebrity(a)
             PROVE  Kept(p, celebrityPosts') \/ Coming(<<a, "post">>, Posted(p), {"applied"})'
  BY <1>1 DEF ListedOf, Celebrity, Outside, Posted, PostsOf, Kept, Displaced
<1> DEFINE d == <<a, "post">>
<1>2. d \in Channel /\ AuthorOf(d) = a /\ p \in Post /\ d[2] = "post"
  BY ChannelsOfAuthor, PostsOfType
<1>3. CASE Kept(p, celebrityPosts)
  BY <1>2, <1>3, ListsKeep
<1>4. CASE ~Kept(p, celebrityPosts)
  <2>1. Coming(d, Posted(p), {"applied"})
    BY <1>4 DEF ListedOf
  <2>2. CASE c # d \/ ~IsFirst(Queue(d), Posted(p))
    BY <1>1, <1>2, <2>1, <2>2, ComingKept
  <2>3. CASE c = d /\ IsFirst(Queue(d), Posted(p))
    <3>1. CASE PlainMove(c)
      BY <1>1, <1>2, <2>1, <2>3, <3>1, PlainMoves, ComingKept
    <3>2. CASE AddCelebrityPost(c)
      <4>1. log[c] # <<>> /\ Current(c).post \in Post
        BY <3>2, StageKind DEF AddCelebrityPost, At
      <4>2. Current(c).post = p
        BY <2>3, <4>1, QueueType DEF Posted
      <4>3. Kept(p, Trimmed(celebrityPosts \union {p}))
        BY <1>2, TrimKeeps DEF TypeInv, TypeOK
      <4> QED
        BY <3>2, <4>2, <4>3 DEF AddCelebrityPost
    <3>3. CASE FollowerIDs(c) \/ FanoutPost(c) \/ FanoutDone(c)
      BY <1>2, <2>3, <3>3 DEF FollowerIDs, FanoutPost, FanoutDone, At, SideInv, OnSide
    <3> QED
      BY <1>2, <2>3, <3>1, <3>2, <3>3, PostHandler
  <2> QED
    BY <2>2, <2>3
<1> QED
  BY <1>3, <1>4

\* The posts of celebrities stay in the stream, or coming.
LEMMA NextListedOf ==
    ASSUME TypeInv, SideInv, NEW a \in Author, NEW p \in Post, ListedOf(a, p), ~Reordering, [Next]_vars
    PROVE  ListedOf(a, p)'
<1>a. ASSUME UNCHANGED <<author, celebrityPosts>>,
             Coming(<<a, "post">>, Posted(p), {"applied"})
                 => Coming(<<a, "post">>, Posted(p), {"applied"})'
      PROVE  ListedOf(a, p)'
  <2> SUFFICES ASSUME p \in PostsOf(a), Celebrity(a)
               PROVE  Kept(p, celebrityPosts) \/ Coming(<<a, "post">>, Posted(p), {"applied"})'
    BY <1>a DEF ListedOf, Celebrity, Outside, Posted, PostsOf, Kept, Displaced
  <2>1. Kept(p, celebrityPosts) \/ Coming(<<a, "post">>, Posted(p), {"applied"})
    BY DEF ListedOf
  <2> QED
    BY <1>a, <2>1, PostsOfType
<1>b. ASSUME UNCHANGED <<author, celebrityPosts, work>>, \A d \in Channel : Queue(d)' = Queue(d)
      PROVE  ListedOf(a, p)'
  <2>1. Coming(<<a, "post">>, Posted(p), {"applied"})
            => Coming(<<a, "post">>, Posted(p), {"applied"})'
    BY <1>b, ComingKept, ChannelsOfAuthor
  <2> QED
    BY <1>a, <1>b, <2>1
<1>1. ASSUME NEW b \in Author, CreatePost(b) PROVE ListedOf(a, p)'
  <2>0. PICK n : n = Len(author) + 1
    OBVIOUS
  <2>1. /\ DOMAIN author' = DOMAIN author \union {n}
        /\ author'[n] = b /\ \A q \in DOMAIN author : author'[q] = author[q]
        /\ <<b, "post">> \in Channel /\ Posted(n) \in EventsOf(<<b, "post">>)
        /\ Committed(<<b, "post">>, Posted(n))
        /\ UNCHANGED <<log, work, celebrityPosts>>
    BY <1>1, <2>0, NewPost DEF Posted, CreatePost, cache
  <2>2. /\ Coming(<<b, "post">>, Posted(n), {"applied"})'
        /\ \A d \in Channel : \A f : Coming(d, f, {"applied"}) => Coming(d, f, {"applied"})'
    BY <2>1, ComingCommitted
  <2> SUFFICES ASSUME p \in PostsOf(a)', Celebrity(a)
               PROVE  Kept(p, celebrityPosts) \/ Coming(<<a, "post">>, Posted(p), {"applied"})'
    BY <2>1 DEF ListedOf, Celebrity, Outside, Posted, Kept, Displaced
  <2>3. CASE p = n
    <3>1. a = b
      BY <2>1, <2>3 DEF PostsOf
    <3> QED
      BY <2>2, <2>3, <3>1
  <2>4. CASE p # n
    <3>1. p \in PostsOf(a)
      BY <2>1, <2>4 DEF PostsOf
    <3>2. Kept(p, celebrityPosts) \/ Coming(<<a, "post">>, Posted(p), {"applied"})
      BY <3>1 DEF ListedOf
    <3> QED
      BY <2>2, <3>2, ChannelsOfAuthor
  <2> QED
    BY <2>3, <2>4
<1>2. ASSUME NEW u \in User, NEW b \in Author, NEW k \in {"FollowCreated", "FollowDeleted"},
             Committed(<<b, "follow">>, [kind |-> k, user |-> u]),
             UNCHANGED <<author, log, work, celebrityPosts>>
      PROVE  ListedOf(a, p)'
  <2>1. <<b, "follow">> \in Channel /\ [kind |-> k, user |-> u] \in EventsOf(<<b, "follow">>)
    BY ChannelsOfAuthor DEF FollowEvent
  <2>2. \A d \in Channel : \A f : Coming(d, f, {"applied"}) => Coming(d, f, {"applied"})'
    BY <1>2, <2>1, ComingCommitted
  <2> QED
    BY <1>2, <1>a, <2>2, ChannelsOfAuthor
<1>3. ASSUME NEW u \in User, NEW b \in Author, Follow(u, b) \/ Unfollow(u, b) PROVE ListedOf(a, p)'
  BY <1>2, <1>3 DEF Follow, Unfollow, cache
<1>4. ASSUME NEW c \in Channel, Publish(c) PROVE ListedOf(a, p)'
  BY <1>4, <1>b, PublishQueue DEF Publish, database, cache
<1>5. ASSUME NEW c \in Channel, Handles(c) PROVE ListedOf(a, p)'
  BY <1>5, ListedHandled
<1>6. ASSUME NEW c \in Channel, Done(c) PROVE ListedOf(a, p)'
  <2>1. Coming(<<a, "post">>, Posted(p), {"applied"})
            => Coming(<<a, "post">>, Posted(p), {"applied"})'
    BY <1>6, ComingDone, ChannelsOfAuthor
  <2> QED
    BY <1>6, <1>a, <2>1 DEF Done, database, cache
<1>7. ASSUME NEW b \in Author, CountExpires(b) PROVE ListedOf(a, p)'
  BY <1>7, <1>b, QueuesSame DEF CountExpires, database
<1>8. CASE UNCHANGED vars
  BY <1>8, <1>b, QueuesSame DEF vars, database, cache
<1> QED
  BY <1>1, <1>3, <1>4, <1>5, <1>6, <1>7, <1>8 DEF Next, Step, Handles

-----------------------------------------------------------------------------
(* Ordinary authors: what is owed is in the timeline, or on its way there. *)

\* The fanout of p has still to reach u.
Fanned(u, a, p) ==
    \/ Coming(<<a, "post">>, Posted(p), {"fanout", "applied"})
    \/ /\ IsFirst(Queue(<<a, "post">>), Posted(p))
       /\ work[<<a, "post">>].stage = "fanout"
       /\ u \in work[<<a, "post">>].users

\* The backfill of u has still to write p.
Refilled(u, a, p) ==
    \/ Coming(<<a, "follow">>, Created(u), {"backfill", "applied"})
    \/ /\ IsFirst(Queue(<<a, "follow">>), Created(u))
       /\ work[<<a, "follow">>].stage = "backfill"
       /\ p \in work[<<a, "follow">>].posts

\* Posts are owed to followers.
OwedFollows ==
    \A u \in User :
        /\ owed[u] \subseteq DOMAIN author
        /\ \A a \in Author : \A p \in owed[u] \intersect PostsOf(a) : <<u, a>> \in follows

\* A post made while following is in the timeline, displaced, or still to be fanned out.
OwedOf(u, a, p) ==
    p \in owed[u] \intersect PostsOf(a) /\ Ordinary(a) =>
        Kept(p, timeline[u]) \/ Fanned(u, a, p)

OwedInv == \A u \in User, a \in Author, p \in Post : OwedOf(u, a, p)

\* A post among the newest is owed, in the timeline, displaced, or still to be backfilled.
BackfillOf(u, a, p) ==
    p \in Newest(BackfillCount, PostsOf(a)) /\ Ordinary(a) /\ <<u, a>> \in follows =>
        p \in owed[u] \/ Kept(p, timeline[u]) \/ Refilled(u, a, p)

BackfillInv == \A u \in User, a \in Author, p \in Post : BackfillOf(u, a, p)

\* Posts stay owed to followers only.
LEMMA NextOwedFollows ==
    ASSUME TypeInv, OwedFollows, [Next]_vars
    PROVE  OwedFollows'
<1>1. ASSUME UNCHANGED <<follows, author, owed>> PROVE OwedFollows'
  BY <1>1 DEF OwedFollows, PostsOf
<1>2. ASSUME NEW b \in Author, CreatePost(b) PROVE OwedFollows'
  <2>0. PICK n : n = Len(author) + 1
    OBVIOUS
  <2>1. /\ DOMAIN author' = DOMAIN author \union {n} /\ n \notin DOMAIN author
        /\ author'[n] = b /\ \A p \in DOMAIN author : author'[p] = author[p]
        /\ Len(author') = n
    BY <1>2, <2>0, NewPost
  <2>2. /\ UNCHANGED follows
        /\ owed' = [u \in User |-> IF u \in FollowersOf(b) THEN owed[u] \union {n} ELSE owed[u]]
    BY <1>2, <2>1 DEF CreatePost
  <2> SUFFICES ASSUME NEW u \in User
               PROVE  /\ owed'[u] \subseteq DOMAIN author'
                      /\ \A a \in Author : \A p \in owed'[u] \intersect PostsOf(a)' : <<u, a>> \in follows
    BY <2>2 DEF OwedFollows
  <2>3. owed[u] \subseteq DOMAIN author
    BY DEF OwedFollows
  <2>4. owed'[u] \subseteq owed[u] \union {n} /\ (n \in owed'[u] => <<u, b>> \in follows)
    BY <2>1, <2>2, <2>3 DEF FollowersOf
  <2>5. ASSUME NEW a \in Author, NEW p \in owed'[u] \intersect PostsOf(a)' PROVE <<u, a>> \in follows
    <3>1. CASE p = n
      <4>1. a = b
        BY <2>1, <2>5, <3>1 DEF PostsOf
      <4> QED
        BY <2>4, <2>5, <3>1, <4>1
    <3>2. CASE p # n
      <4>1. p \in owed[u] \intersect PostsOf(a)
        BY <2>1, <2>4, <2>5, <3>2 DEF PostsOf
      <4> QED
        BY <4>1 DEF OwedFollows
    <3> QED
      BY <3>1, <3>2
  <2> QED
    BY <2>1, <2>3, <2>4, <2>5
<1>3. ASSUME NEW v \in User, NEW b \in Author, Follow(v, b) PROVE OwedFollows'
  BY <1>3 DEF Follow, OwedFollows, PostsOf
<1>4. ASSUME NEW v \in User, NEW b \in Author, Unfollow(v, b) PROVE OwedFollows'
  <2>1. /\ UNCHANGED author /\ follows' = follows \ {<<v, b>>}
        /\ \A u \in User : owed'[u] = IF u = v THEN owed[u] \ PostsOf(b) ELSE owed[u]
    BY <1>4 DEF Unfollow, TypeInv, TypeOK
  <2>2. \A a : PostsOf(a)' = PostsOf(a)
    BY <2>1 DEF PostsOf
  <2> QED
    BY <2>1, <2>2 DEF OwedFollows
<1>5. ASSUME NEW c \in Channel, Handles(c) PROVE OwedFollows'
  BY <1>1, <1>5, HandlesLeaves
<1>6. ASSUME NEW c \in Channel, Publish(c) \/ Done(c) PROVE OwedFollows'
  BY <1>1, <1>6 DEF Publish, Done, database
<1>7. ASSUME NEW a \in Author, CountExpires(a) PROVE OwedFollows'
  BY <1>1, <1>7 DEF CountExpires, database
<1>8. CASE UNCHANGED vars
  BY <1>1, <1>8 DEF vars, database
<1> QED
  BY <1>2, <1>3, <1>4, <1>5, <1>6, <1>7, <1>8 DEF Next, Step, Handles

\* A fanout on its way stays on its way when a commit adds an event, ...
LEMMA FannedCommitted ==
    ASSUME TypeInv, NEW c \in Channel, NEW e \in EventsOf(c), Committed(c, e), UNCHANGED <<log, work>>,
           NEW u \in User, NEW a \in Author, NEW p, Fanned(u, a, p)
    PROVE  Fanned(u, a, p)'
<1> DEFINE d == <<a, "post">>
<1>1. CASE Coming(d, Posted(p), {"fanout", "applied"})
  BY <1>1, ComingCommitted, ChannelsOfAuthor DEF Fanned, Posted
<1>2. CASE ~Coming(d, Posted(p), {"fanout", "applied"})
  <2>1. IsFirst(Queue(d), Posted(p)) /\ work[d].stage = "fanout" /\ u \in work[d].users
    BY <1>2 DEF Fanned
  <2>2. IsFirst(Queue(d)', Posted(p))
    <3>1. CASE d = c
      <4>1. IsFirst(Queue(c), Posted(p)) => IsFirst(Append(Queue(c), e), Posted(p))
        BY QueueType, AppendKeeps
      <4> QED
        BY <2>1, <3>1, <4>1, CommittedQueue
    <3>2. CASE d # c
      BY <2>1, <3>2, CommittedQueue, ChannelsOfAuthor
    <3> QED
      BY <3>1, <3>2
  <2> QED
    BY <2>1, <2>2 DEF Fanned, Posted
<1> QED
  BY <1>1, <1>2

\* ... when queues and handlers stay as they are, ...
LEMMA FannedSame ==
    ASSUME UNCHANGED work, \A d \in Channel : Queue(d)' = Queue(d),
           NEW u \in User, NEW a \in Author, NEW p, Fanned(u, a, p)
    PROVE  Fanned(u, a, p)'
BY ChannelsOfAuthor DEF Fanned, Coming, Posted

\* ... when an offset is committed, ...
LEMMA FannedDone ==
    ASSUME TypeInv, NEW c \in Channel, Done(c),
           NEW u \in User, NEW a \in Author, NEW p, Fanned(u, a, p)
    PROVE  Fanned(u, a, p)'
<1> DEFINE d == <<a, "post">>
<1>1. CASE Coming(d, Posted(p), {"fanout", "applied"})
  BY <1>1, ComingDone, ChannelsOfAuthor DEF Fanned, Posted
<1>2. CASE ~Coming(d, Posted(p), {"fanout", "applied"})
  <2>1. IsFirst(Queue(d), Posted(p)) /\ work[d].stage = "fanout" /\ u \in work[d].users
    BY <1>2 DEF Fanned
  <2>2. d # c
    BY <2>1 DEF Done, At
  <2>3. Queue(d)' = Queue(d) /\ work'[d] = work[d]
    BY <2>2, DoneQueue, ChannelsOfAuthor
  <2> QED
    BY <2>1, <2>3 DEF Fanned, Posted
<1> QED
  BY <1>1, <1>2

\* ... and when a handler goes on, unless it arrives.
LEMMA FannedHandled ==
    ASSUME TypeInv, SideInv, NEW c \in Channel, Handles(c),
           NEW u \in User, NEW a \in Author, NEW p \in Post, Ordinary(a), <<u, a>> \in follows,
           Fanned(u, a, p)
    PROVE  Fanned(u, a, p)' \/ Kept(p, timeline'[u])
<1> DEFINE d == <<a, "post">>
<1>1. /\ \A e \in Channel : e # c => work'[e] = work[e]
      /\ \A e \in Channel : Queue(e)' = Queue(e)
  BY HandlesLeaves
<1>2. d \in Channel /\ AuthorOf(d) = a /\ d[2] = "post"
  BY ChannelsOfAuthor
<1>3. CASE c # d
  BY <1>1, <1>2, <1>3 DEF Fanned, Coming, Posted
<1>4. CASE c = d /\ ~IsFirst(Queue(d), Posted(p))
  BY <1>1, <1>2, <1>4 DEF Fanned, Coming, Posted
<1>5. CASE c = d /\ IsFirst(Queue(d), Posted(p))
  <2>0. IsFirst(Queue(d)', Posted(p))
    BY <1>1, <1>2, <1>5
  <2>1. CASE PlainMove(c)
    <3>1. work'[d].stage \notin {"fanout", "applied"}
      BY <1>5, <2>1, PlainMoves
    <3> QED
      BY <2>0, <3>1 DEF Fanned, Coming, Posted
  <2>2. CASE FollowerIDs(c)
    <3>1. work'[d].stage = "fanout" /\ work'[d].users = FollowersOf(a)
      BY <1>2, <1>5, <2>2, GoesWith DEF FollowerIDs
    <3>2. u \in FollowersOf(a)
      BY DEF FollowersOf
    <3> QED
      BY <2>0, <3>1, <3>2 DEF Fanned, Posted
  <2>3. CASE FanoutPost(c)
    <3>1. PICK v \in work[d].users :
            /\ timeline' = [timeline EXCEPT ![v] = Trimmed(timeline[v] \union {Current(d).post})]
            /\ GoWith(d, [stage |-> "fanout", count |-> 0, users |-> work[d].users \ {v}, posts |-> {}])
      BY <1>5, <2>3 DEF FanoutPost
    <3>2. work'[d].stage = "fanout" /\ work'[d].users = work[d].users \ {v}
      BY <1>2, <3>1, GoesWith
    <3>3. CASE u = v
      <4>1. log[d] # <<>>
        BY <1>5, <2>3, StageKind DEF FanoutPost, At
      <4>2. Current(d).post = p
        BY <1>2, <1>5, <4>1, QueueType DEF Posted
      <4>3. timeline \in [User -> SUBSET Post]
        BY DEF TypeInv, TypeOK
      <4>4. Kept(p, Trimmed(timeline[u] \union {p}))
        BY <4>3, TrimKeeps
      <4> QED
        BY <3>1, <3>3, <4>2, <4>3, <4>4
    <3>4. CASE u # v
      <4>1. IsBehind(Queue(d), Posted(p)) \/ u \in work[d].users
        BY <1>5, <2>3 DEF Fanned, Coming, FanoutPost, At
      <4>2. CASE IsBehind(Queue(d), Posted(p))
        BY <1>1, <1>2, <4>2 DEF Fanned, Coming, Posted
      <4>3. CASE u \in work[d].users
        BY <2>0, <3>2, <3>4, <4>3 DEF Fanned, Posted
      <4> QED
        BY <4>1, <4>2, <4>3
    <3> QED
      BY <3>3, <3>4
  <2>4. CASE FanoutDone(c)
    <3>1. IsBehind(Queue(d), Posted(p))
      BY <1>5, <2>4 DEF Fanned, Coming, FanoutDone, At
    <3> QED
      BY <1>1, <1>2, <3>1 DEF Fanned, Coming, Posted
  <2>5. CASE AddCelebrityPost(c)
    BY <1>2, <1>5, <2>5 DEF AddCelebrityPost, At, SideInv, OnSide
  <2> QED
    BY <1>2, <1>5, <2>1, <2>2, <2>3, <2>4, <2>5, PostHandler
<1> QED
  BY <1>3, <1>4, <1>5

\* What is owed stays in the timeline, or on its way there.
LEMMA NextOwedOf ==
    ASSUME TypeInv, SideInv, OwedFollows, ~Reordering,
           NEW u \in User, NEW a \in Author, NEW p \in Post, OwedOf(u, a, p), [Next]_vars
    PROVE  OwedOf(u, a, p)'
<1>a. ASSUME UNCHANGED <<author, timeline>>, owed'[u] \subseteq owed[u],
             Fanned(u, a, p) => Fanned(u, a, p)'
      PROVE  OwedOf(u, a, p)'
  <2> SUFFICES ASSUME p \in owed'[u] \intersect PostsOf(a)', Ordinary(a)
               PROVE  Kept(p, timeline[u]) \/ Fanned(u, a, p)'
    BY <1>a DEF OwedOf, Ordinary, Outside, Kept, Displaced
  <2>1. p \in owed[u] \intersect PostsOf(a)
    BY <1>a DEF PostsOf
  <2>2. Kept(p, timeline[u]) \/ Fanned(u, a, p)
    BY <2>1 DEF OwedOf
  <2> QED
    BY <1>a, <2>1, <2>2, PostsOfType
<1>1. ASSUME NEW b \in Author, CreatePost(b) PROVE OwedOf(u, a, p)'
  <2>0. PICK n : n = Len(author) + 1
    OBVIOUS
  <2>1. /\ DOMAIN author' = DOMAIN author \union {n} /\ n \notin DOMAIN author
        /\ author'[n] = b /\ \A q \in DOMAIN author : author'[q] = author[q]
        /\ Len(author') = n
        /\ <<b, "post">> \in Channel /\ Posted(n) \in EventsOf(<<b, "post">>)
        /\ Committed(<<b, "post">>, Posted(n))
        /\ UNCHANGED <<log, work, timeline>>
    BY <1>1, <2>0, NewPost DEF Posted, CreatePost, cache
  <2>2. owed'[u] \subseteq owed[u] \union {n}
    BY <1>1, <2>1 DEF CreatePost
  <2>3. Coming(<<b, "post">>, Posted(n), {"fanout", "applied"})'
    BY <2>1, ComingCommitted
  <2> SUFFICES ASSUME p \in owed'[u] \intersect PostsOf(a)', Ordinary(a)
               PROVE  Kept(p, timeline[u]) \/ Fanned(u, a, p)'
    BY <2>1 DEF OwedOf, Ordinary, Outside, Kept, Displaced
  <2>4. CASE p = n
    <3>1. a = b
      BY <2>1, <2>4 DEF PostsOf
    <3> QED
      BY <2>3, <2>4, <3>1 DEF Fanned, Posted
  <2>5. CASE p # n
    <3>1. p \in owed[u] \intersect PostsOf(a)
      BY <2>1, <2>2, <2>5 DEF PostsOf
    <3>2. Kept(p, timeline[u]) \/ Fanned(u, a, p)
      BY <3>1 DEF OwedOf
    <3> QED
      BY <2>1, <3>2, FannedCommitted
  <2> QED
    BY <2>4, <2>5
<1>2. ASSUME NEW v \in User, NEW b \in Author, Follow(v, b) PROVE OwedOf(u, a, p)'
  <2>1. /\ Committed(<<b, "follow">>, Created(v)) /\ UNCHANGED <<author, log, work, timeline, owed>>
        /\ <<b, "follow">> \in Channel /\ Created(v) \in EventsOf(<<b, "follow">>)
    BY <1>2, ChannelsOfAuthor DEF Follow, cache, Created, FollowEvent
  <2> QED
    BY <1>a, <2>1, FannedCommitted
<1>3. ASSUME NEW v \in User, NEW b \in Author, Unfollow(v, b) PROVE OwedOf(u, a, p)'
  <2>1. /\ Committed(<<b, "follow">>, Deleted(v)) /\ UNCHANGED <<author, log, work, timeline>>
        /\ <<b, "follow">> \in Channel /\ Deleted(v) \in EventsOf(<<b, "follow">>)
    BY <1>3, ChannelsOfAuthor DEF Unfollow, cache, Deleted, FollowEvent
  <2>2. owed'[u] \subseteq owed[u]
    BY <1>3 DEF Unfollow, TypeInv, TypeOK
  <2> QED
    BY <1>a, <2>1, <2>2, FannedCommitted
<1>4. ASSUME NEW c \in Channel, Publish(c) PROVE OwedOf(u, a, p)'
  BY <1>4, <1>a, PublishQueue, FannedSame DEF Publish, database, cache
<1>5. ASSUME NEW c \in Channel, Handles(c) PROVE OwedOf(u, a, p)'
  <2>1. UNCHANGED <<author, owed, follows>>
    BY <1>5, HandlesLeaves
  <2> SUFFICES ASSUME p \in owed[u] \intersect PostsOf(a), Ordinary(a)
               PROVE  Kept(p, timeline'[u]) \/ Fanned(u, a, p)'
    BY <2>1 DEF OwedOf, Ordinary, Outside, Kept, Displaced, PostsOf
  <2>2. p \in Post /\ <<u, a>> \in follows
    BY PostsOfType DEF OwedFollows
  <2>3. Kept(p, timeline[u]) \/ Fanned(u, a, p)
    BY DEF OwedOf
  <2> QED
    BY <1>5, <2>2, <2>3, ListsKeep, FannedHandled
<1>6. ASSUME NEW c \in Channel, Done(c) PROVE OwedOf(u, a, p)'
  BY <1>6, <1>a, FannedDone DEF Done, database, cache
<1>7. ASSUME NEW b \in Author, CountExpires(b) PROVE OwedOf(u, a, p)'
  BY <1>7, <1>a, QueuesSame, FannedSame DEF CountExpires, database
<1>8. CASE UNCHANGED vars
  BY <1>8, <1>a, QueuesSame, FannedSame DEF vars, database, cache
<1> QED
  BY <1>1, <1>2, <1>3, <1>4, <1>5, <1>6, <1>7, <1>8 DEF Next, Step, Handles

\* A backfill on its way stays on its way when a commit adds an event, ...
LEMMA RefilledCommitted ==
    ASSUME TypeInv, NEW c \in Channel, NEW e \in EventsOf(c), Committed(c, e), UNCHANGED <<log, work>>,
           NEW u \in User, NEW a \in Author, NEW p, Refilled(u, a, p)
    PROVE  Refilled(u, a, p)'
<1> DEFINE d == <<a, "follow">>
<1>1. CASE Coming(d, Created(u), {"backfill", "applied"})
  BY <1>1, ComingCommitted, ChannelsOfAuthor DEF Refilled, Created
<1>2. CASE ~Coming(d, Created(u), {"backfill", "applied"})
  <2>1. IsFirst(Queue(d), Created(u)) /\ work[d].stage = "backfill" /\ p \in work[d].posts
    BY <1>2 DEF Refilled
  <2>2. IsFirst(Queue(d)', Created(u))
    <3>1. CASE d = c
      <4>1. IsFirst(Queue(c), Created(u)) => IsFirst(Append(Queue(c), e), Created(u))
        BY QueueType, AppendKeeps
      <4> QED
        BY <2>1, <3>1, <4>1, CommittedQueue
    <3>2. CASE d # c
      BY <2>1, <3>2, CommittedQueue, ChannelsOfAuthor
    <3> QED
      BY <3>1, <3>2
  <2> QED
    BY <2>1, <2>2 DEF Refilled, Created
<1> QED
  BY <1>1, <1>2

\* ... when queues and handlers stay as they are, ...
LEMMA RefilledSame ==
    ASSUME UNCHANGED work, \A d \in Channel : Queue(d)' = Queue(d),
           NEW u \in User, NEW a \in Author, NEW p, Refilled(u, a, p)
    PROVE  Refilled(u, a, p)'
BY ChannelsOfAuthor DEF Refilled, Coming, Created

\* ... when an offset is committed, ...
LEMMA RefilledDone ==
    ASSUME TypeInv, NEW c \in Channel, Done(c),
           NEW u \in User, NEW a \in Author, NEW p, Refilled(u, a, p)
    PROVE  Refilled(u, a, p)'
<1> DEFINE d == <<a, "follow">>
<1>1. CASE Coming(d, Created(u), {"backfill", "applied"})
  BY <1>1, ComingDone, ChannelsOfAuthor DEF Refilled, Created
<1>2. CASE ~Coming(d, Created(u), {"backfill", "applied"})
  <2>1. IsFirst(Queue(d), Created(u)) /\ work[d].stage = "backfill" /\ p \in work[d].posts
    BY <1>2 DEF Refilled
  <2>2. d # c
    BY <2>1 DEF Done, At
  <2>3. Queue(d)' = Queue(d) /\ work'[d] = work[d]
    BY <2>2, DoneQueue, ChannelsOfAuthor
  <2> QED
    BY <2>1, <2>3 DEF Refilled, Created
<1> QED
  BY <1>1, <1>2

\* ... and when a handler goes on, unless it arrives.
LEMMA RefilledHandled ==
    ASSUME TypeInv, SideInv, NEW c \in Channel, Handles(c),
           NEW u \in User, NEW a \in Author, NEW p \in Post, Ordinary(a),
           p \in Newest(BackfillCount, PostsOf(a)), Refilled(u, a, p)
    PROVE  Refilled(u, a, p)' \/ Kept(p, timeline'[u])
<1> DEFINE d == <<a, "follow">>
<1>1. /\ \A e \in Channel : e # c => work'[e] = work[e]
      /\ \A e \in Channel : Queue(e)' = Queue(e)
  BY HandlesLeaves
<1>2. d \in Channel /\ AuthorOf(d) = a /\ d[2] = "follow"
  BY ChannelsOfAuthor
<1>3. CASE c # d
  BY <1>1, <1>2, <1>3 DEF Refilled, Coming, Created
<1>4. CASE c = d /\ ~IsFirst(Queue(d), Created(u))
  BY <1>1, <1>2, <1>4 DEF Refilled, Coming, Created
<1>5. CASE c = d /\ IsFirst(Queue(d), Created(u))
  <2>0. IsFirst(Queue(d)', Created(u))
    BY <1>1, <1>2, <1>5
  <2>a. log[d] # <<>> => Current(d) = Created(u)
    BY <1>2, <1>5, QueueType
  <2>1. CASE PlainMove(c)
    <3>1. work'[d].stage \notin {"backfill", "applied"}
      BY <1>5, <2>1, PlainMoves
    <3> QED
      BY <2>0, <3>1 DEF Refilled, Coming, Created
  <2>2. CASE RecentPosts(c)
    <3>1. work'[d].stage = "backfill" /\ work'[d].posts = Newest(BackfillCount, PostsOf(a))
      BY <1>2, <1>5, <2>2, GoesWith DEF RecentPosts
    <3> QED
      BY <2>0, <3>1 DEF Refilled, Created
  <2>3. CASE Backfill(c)
    <3>1. log[d] # <<>>
      BY <1>5, <2>3, StageKind DEF Backfill, At
    <3>2. Current(d).user = u
      BY <2>a, <3>1 DEF Created
    <3>3. CASE IsBehind(Queue(d), Created(u))
      BY <1>1, <1>2, <3>3 DEF Refilled, Coming, Created
    <3>4. CASE p \in work[d].posts
      <4>1. timeline \in [User -> SUBSET Post] /\ work[d].posts \in SUBSET Post
        BY <1>2 DEF TypeInv, TypeOK, Work
      <4>2. Kept(p, Trimmed(timeline[u] \union work[d].posts))
        BY <3>4, <4>1, TrimKeeps
      <4> QED
        BY <1>5, <2>3, <3>2, <4>1, <4>2 DEF Backfill
    <3> QED
      BY <1>5, <2>3, <3>3, <3>4 DEF Refilled, Coming, Backfill, At
  <2>4. CASE AddCelebrityFollow(c)
    BY <1>2, <1>5, <2>4 DEF AddCelebrityFollow, At, SideInv, OnSide
  <2>5. CASE RemoveCelebrityFollow(c) \/ InvalidateAfter(c)
    <3>1. log[d] # <<>> /\ Current(d).kind = "FollowDeleted"
      BY <1>5, <2>5, StageKind DEF RemoveCelebrityFollow, InvalidateAfter, At
    <3> QED
      BY <2>a, <3>1 DEF Created
  <2>6. CASE AddCelebrityPost(c) \/ FollowerIDs(c) \/ FanoutPost(c) \/ FanoutDone(c)
    BY <1>2, <1>5, <2>6, StageKind DEF AddCelebrityPost, FollowerIDs, FanoutPost, FanoutDone, At
  <2> QED
    BY <2>1, <2>2, <2>3, <2>4, <2>5, <2>6 DEF Handles, PlainMove
<1> QED
  BY <1>3, <1>4, <1>5

\* The newest posts stay owed, in the timeline, or on their way there.
LEMMA NextBackfillOf ==
    ASSUME TypeInv, SideInv, ~Reordering,
           NEW u \in User, NEW a \in Author, NEW p \in Post, BackfillOf(u, a, p), [Next]_vars
    PROVE  BackfillOf(u, a, p)'
<1>a. ASSUME UNCHANGED <<author, timeline>>,
             <<u, a>> \in follows' =>
                 <<u, a>> \in follows /\ (p \in PostsOf(a) /\ p \in owed[u] => p \in owed'[u]),
             Refilled(u, a, p) => Refilled(u, a, p)'
      PROVE  BackfillOf(u, a, p)'
  <2>0. PostsOf(a)' = PostsOf(a)
    BY <1>a DEF PostsOf
  <2> SUFFICES ASSUME p \in Newest(BackfillCount, PostsOf(a)), Ordinary(a), <<u, a>> \in follows'
               PROVE  p \in owed'[u] \/ Kept(p, timeline[u]) \/ Refilled(u, a, p)'
    BY <1>a, <2>0 DEF BackfillOf, Ordinary, Outside, Kept, Displaced, Newest
  <2>1. p \in owed[u] \/ Kept(p, timeline[u]) \/ Refilled(u, a, p)
    BY <1>a DEF BackfillOf
  <2>2. p \in Post /\ p \in PostsOf(a)
    BY PostsOfType DEF Newest
  <2> QED
    BY <1>a, <2>1, <2>2
<1>b. ASSUME UNCHANGED <<follows, author, timeline, owed>>,
             Refilled(u, a, p) => Refilled(u, a, p)'
      PROVE  BackfillOf(u, a, p)'
  BY <1>a, <1>b
<1>1. ASSUME NEW b \in Author, CreatePost(b) PROVE BackfillOf(u, a, p)'
  <2>0. PICK n : n = Len(author) + 1
    OBVIOUS
  <2>1. /\ DOMAIN author' = DOMAIN author \union {n} /\ n \notin DOMAIN author
        /\ author'[n] = b /\ \A q \in DOMAIN author : author'[q] = author[q]
        /\ Len(author') = n /\ n \in Post /\ DOMAIN author \in SUBSET Post
        /\ <<b, "post">> \in Channel /\ Posted(n) \in EventsOf(<<b, "post">>)
        /\ Committed(<<b, "post">>, Posted(n))
        /\ UNCHANGED <<follows, log, work, timeline>>
    BY <1>1, <2>0, NewPost DEF Posted, CreatePost, cache
  <2>2. owed'[u] = IF <<u, b>> \in follows THEN owed[u] \union {n} ELSE owed[u]
    BY <1>1, <2>1 DEF CreatePost, FollowersOf
  <2> SUFFICES ASSUME p \in Newest(BackfillCount, PostsOf(a)'), Ordinary(a), <<u, a>> \in follows
               PROVE  p \in owed'[u] \/ Kept(p, timeline[u]) \/ Refilled(u, a, p)'
    BY <2>1 DEF BackfillOf, Ordinary, Outside, Kept, Displaced, Newest
  <2>3. CASE p = n
    <3>1. a = b
      BY <2>1, <2>3 DEF Newest, PostsOf
    <3> QED
      BY <2>2, <2>3, <3>1
  <2>4. CASE p # n
    <3>1. /\ PostsOf(a) \in SUBSET PostsOf(a)' /\ PostsOf(a)' \in SUBSET Post
          /\ p \in PostsOf(a)
      BY <2>1, <2>4 DEF Newest, PostsOf
    <3>2. p \in Newest(BackfillCount, PostsOf(a))
      <4> DEFINE S == PostsOf(a)'
                 T == PostsOf(a)
      <4>1. S \in SUBSET Post /\ T \in SUBSET S /\ p \in T /\ p \in Newest(BackfillCount, S)
        BY <3>1
      <4> HIDE DEF S, T
      <4>2. p \in Newest(BackfillCount, T)
        BY <4>1, NewestOfSubset, ConstantFacts
      <4> QED
        BY <4>2 DEF T
    <3>3. p \in owed[u] \/ Kept(p, timeline[u]) \/ Refilled(u, a, p)
      BY <3>2 DEF BackfillOf
    <3> QED
      BY <2>1, <2>2, <3>3, RefilledCommitted
  <2> QED
    BY <2>3, <2>4
<1>2. ASSUME NEW v \in User, NEW b \in Author, Follow(v, b) PROVE BackfillOf(u, a, p)'
  <2>1. /\ Committed(<<b, "follow">>, Created(v)) /\ UNCHANGED <<author, log, work, timeline, owed>>
        /\ <<b, "follow">> \in Channel /\ Created(v) \in EventsOf(<<b, "follow">>)
        /\ follows' = follows \union {<<v, b>>}
    BY <1>2, ChannelsOfAuthor DEF Follow, cache, Created, FollowEvent
  <2>2. Coming(<<b, "follow">>, Created(v), {"backfill", "applied"})'
    BY <2>1, ComingCommitted
  <2>3. PostsOf(a)' = PostsOf(a)
    BY <2>1 DEF PostsOf
  <2> SUFFICES ASSUME p \in Newest(BackfillCount, PostsOf(a)), Ordinary(a), <<u, a>> \in follows'
               PROVE  p \in owed[u] \/ Kept(p, timeline[u]) \/ Refilled(u, a, p)'
    BY <2>1, <2>3 DEF BackfillOf, Ordinary, Outside, Kept, Displaced, Newest
  <2>4. CASE u = v /\ a = b
    BY <2>2, <2>4 DEF Refilled, Created
  <2>5. CASE ~(u = v /\ a = b)
    <3>1. p \in owed[u] \/ Kept(p, timeline[u]) \/ Refilled(u, a, p)
      BY <2>1, <2>5 DEF BackfillOf
    <3> QED
      BY <2>1, <3>1, RefilledCommitted
  <2> QED
    BY <2>4, <2>5
<1>3. ASSUME NEW v \in User, NEW b \in Author, Unfollow(v, b) PROVE BackfillOf(u, a, p)'
  <2>1. /\ Committed(<<b, "follow">>, Deleted(v)) /\ UNCHANGED <<author, log, work, timeline>>
        /\ <<b, "follow">> \in Channel /\ Deleted(v) \in EventsOf(<<b, "follow">>)
        /\ follows' = follows \ {<<v, b>>}
    BY <1>3, ChannelsOfAuthor DEF Unfollow, cache, Deleted, FollowEvent
  <2>2. owed'[u] = IF u = v THEN owed[u] \ PostsOf(b) ELSE owed[u]
    BY <1>3 DEF Unfollow, TypeInv, TypeOK
  <2>3. ASSUME <<u, a>> \in follows'
        PROVE  <<u, a>> \in follows /\ (p \in PostsOf(a) /\ p \in owed[u] => p \in owed'[u])
    <3>1. <<u, a>> \in follows /\ (u # v \/ a # b)
      BY <2>1, <2>3
    <3>2. a # b /\ p \in PostsOf(a) => p \notin PostsOf(b)
      BY DEF PostsOf
    <3> QED
      BY <2>2, <3>1, <3>2
  <2> QED
    BY <1>a, <2>1, <2>3, RefilledCommitted
<1>4. ASSUME NEW c \in Channel, Publish(c) PROVE BackfillOf(u, a, p)'
  BY <1>4, <1>b, PublishQueue, RefilledSame DEF Publish, database, cache
<1>5. ASSUME NEW c \in Channel, Handles(c) PROVE BackfillOf(u, a, p)'
  <2>1. UNCHANGED <<author, owed, follows>>
    BY <1>5, HandlesLeaves
  <2> SUFFICES ASSUME p \in Newest(BackfillCount, PostsOf(a)), Ordinary(a), <<u, a>> \in follows
               PROVE  p \in owed[u] \/ Kept(p, timeline'[u]) \/ Refilled(u, a, p)'
    BY <2>1 DEF BackfillOf, Ordinary, Outside, Kept, Displaced, Newest, PostsOf
  <2>2. p \in Post
    BY PostsOfType
  <2>3. p \in owed[u] \/ Kept(p, timeline[u]) \/ Refilled(u, a, p)
    BY DEF BackfillOf
  <2> QED
    BY <1>5, <2>2, <2>3, ListsKeep, RefilledHandled
<1>6. ASSUME NEW c \in Channel, Done(c) PROVE BackfillOf(u, a, p)'
  BY <1>6, <1>b, RefilledDone DEF Done, database, cache
<1>7. ASSUME NEW b \in Author, CountExpires(b) PROVE BackfillOf(u, a, p)'
  BY <1>7, <1>b, QueuesSame, RefilledSame DEF CountExpires, database
<1>8. CASE UNCHANGED vars
  BY <1>8, <1>b, QueuesSame, RefilledSame DEF vars, database, cache
<1> QED
  BY <1>1, <1>2, <1>3, <1>4, <1>5, <1>6, <1>7, <1>8 DEF Next, Step, Handles

-----------------------------------------------------------------------------
(* No gap. *)

FeedInv ==
    /\ TypeInv
    /\ OrderedInv
    /\ SideInv
    /\ MarkedInv
    /\ ListedInv
    /\ OwedFollows
    /\ OwedInv
    /\ BackfillInv

\* The initial states satisfy the invariant.
LEMMA InitFeedInv == Init => FeedInv
<1> SUFFICES ASSUME Init PROVE FeedInv
  OBVIOUS
<1>1. TypeInv
  BY InitTypeInv
<1>2. OrderedInv
  <2>1. \A u, k : Answered(<<>>, u, k)
    BY DEF Answered
  <2>2. \A a \in Author : Queue(<<a, "follow">>) = <<>>
    BY InitQueues, ChannelsOfAuthor
  <2> QED
    BY <2>1, <2>2 DEF OrderedInv
<1>3. SideInv
  BY CommonStage DEF Init, NoWork, Working, SideInv, CountInv
<1>4. \A a : PostsOf(a) = {} /\ \A n : Newest(n, PostsOf(a)) = {}
  BY DEF Init, PostsOf, Newest
<1>5. MarkedInv /\ ListedInv /\ OwedFollows /\ OwedInv /\ BackfillInv
  BY <1>4 DEF Init, MarkedInv, MarkedOf, ListedInv, ListedOf, OwedFollows, OwedInv, OwedOf, BackfillInv,
                BackfillOf
<1> QED
  BY <1>1, <1>2, <1>3, <1>5 DEF FeedInv

\* Every step keeps the invariant.
LEMMA NextFeedInv == ASSUME ~Reordering, FeedInv, [Next]_vars PROVE FeedInv'
BY NextTypeInv, NextOrderedInv, NextSideInv, NextMarkedOf, NextListedOf, NextOwedFollows,
   NextOwedOf, NextBackfillOf
   DEF FeedInv, MarkedInv, ListedInv, OwedInv, BackfillInv

\* Ordinary authors are read from timelines, celebrities from the stream.
LEMMA ListOfSide ==
    ASSUME NEW u, NEW a
    PROVE  /\ Ordinary(a) => ListFor(u, a) = timeline[u]
           /\ Celebrity(a) => ListFor(u, a) = celebrityPosts
<1>1. CountOnSide(a, FollowerCount(a)) /\ FollowerCount(a) \in Nat
  BY FollowerCountOnSide, FollowersType
<1> QED
  BY <1>1, ConstantFacts DEF CountOnSide, ListFor, ShouldFanoutOnWrite

\* What the list for its author keeps is served.
LEMMA KeptIsServed ==
    ASSUME NEW u \in User, NEW p,
           \/ Ordinary(author[p]) /\ Kept(p, timeline[u])
           \/ Celebrity(author[p]) /\ Kept(p, celebrityPosts) /\ author[p] \in following[u]
    PROVE  Served(u, p)
BY ListOfSide DEF Kept, Served, Candidates, CelebrityPostsFor

\* When an author's events are all applied, the invariant leaves no gap.
LEMMA FeedInvNoGap == ASSUME NoCrossing, FeedInv PROVE NoGap
<1> SUFFICES ASSUME NEW u \in User, NEW a \in Author, <<u, a>> \in follows, Quiet(a),
                    NEW p \in (owed[u] \intersect PostsOf(a)) \union Newest(BackfillCount, PostsOf(a))
             PROVE  Served(u, p)
  BY DEF NoGap
<1>1. p \in PostsOf(a) /\ author[p] = a /\ p \in Post
  <2>1. p \in PostsOf(a) /\ author[p] = a
    BY DEF Newest, PostsOf
  <2> QED
    BY <2>1, PostsOfType DEF FeedInv
<1>2. Queue(<<a, "post">>) = <<>> /\ Queue(<<a, "follow">>) = <<>>
  BY QueueType, ChannelsOfAuthor DEF Quiet, FeedInv
<1>3. \A e, S : ~Coming(<<a, "post">>, e, S) /\ ~Coming(<<a, "follow">>, e, S)
  <2>1. Len(<<>>) = 0
    OBVIOUS
  <2> QED
    BY <1>2, <2>1 DEF Coming, IsFirst, IsBehind
<1>4. ~Fanned(u, a, p) /\ ~Refilled(u, a, p)
  BY <1>2, <1>3 DEF Fanned, Refilled, IsFirst
<1>5. CASE Ordinary(a)
  <2>1. p \in owed[u] => Kept(p, timeline[u])
    BY <1>1, <1>4, <1>5 DEF FeedInv, OwedInv, OwedOf
  <2>2. p \in Newest(BackfillCount, PostsOf(a)) => p \in owed[u] \/ Kept(p, timeline[u])
    BY <1>1, <1>4, <1>5 DEF FeedInv, BackfillInv, BackfillOf
  <2> QED
    BY <1>1, <1>5, <2>1, <2>2, KeptIsServed
<1>6. CASE Celebrity(a)
  <2>1. Kept(p, celebrityPosts)
    BY <1>1, <1>3, <1>6 DEF FeedInv, ListedInv, ListedOf
  <2>2. a \in following[u]
    BY <1>3, <1>6 DEF FeedInv, MarkedInv, MarkedOf
  <2> QED
    BY <1>1, <1>6, <2>1, <2>2, KeptIsServed
<1> QED
  BY <1>5, <1>6 DEF NoCrossing

\* No post falls between a fanout and a backfill, whatever the order in which
\* handlers read the database, fail and start over, as long as requests publish in
\* the order of their commits and no author can cross the threshold.
THEOREM NoPostMissed == NoCrossing /\ ~Reordering => (Safety => []NoGap)
<1> SUFFICES ASSUME NoCrossing, ~Reordering PROVE Safety => []NoGap
  OBVIOUS
<1>1. FeedInv /\ [Next]_vars => FeedInv'
  BY NextFeedInv
<1>2. FeedInv => NoGap
  BY FeedInvNoGap
<1> QED
  BY <1>1, <1>2, InitFeedInv, PTL DEF Safety
-----------------------------------------------------------------------------
(* Who is shown what: only posts of authors once followed are on their way to *)
(* a feed, whatever the order of publication.                               *)

\* The posts that u may be shown.
Shareable(u) == {p \in DOMAIN author : <<u, author[p]>> \in ever}

\* The events that something in the database has caused.
Caused(c) ==
    {e \in EventsOf(c) :
        IF c[2] = "post" THEN e.post \in PostsOf(AuthorOf(c)) ELSE <<e.user, AuthorOf(c)>> \in ever}

CausedInv == \A c \in Channel : log[c] \in Seq(Caused(c)) /\ unsent[c] \in Seq(Caused(c))

ListsInv == /\ celebrityPosts \subseteq DOMAIN author
            /\ \A u \in User : timeline[u] \subseteq Shareable(u)

\* Handlers have read what is so.
ReadsInv == \A c \in Channel : /\ \A u \in work[c].users : <<u, AuthorOf(c)>> \in ever
                               /\ work[c].posts \subseteq PostsOf(AuthorOf(c))

InvitedInv ==
    /\ follows \subseteq ever
    /\ \A u \in User : \A a \in following[u] : <<u, a>> \in ever
    /\ ListsInv
    /\ ReadsInv
    /\ CausedInv

\* A longer history causes more.
LEMMA CausedGrows ==
    ASSUME ever \subseteq ever', DOMAIN author \subseteq DOMAIN author',
           \A p \in DOMAIN author : author'[p] = author[p]
    PROVE  /\ \A u \in User : Shareable(u) \subseteq Shareable(u)'
           /\ \A a \in Author : PostsOf(a) \subseteq PostsOf(a)'
           /\ \A c \in Channel : Seq(Caused(c)) \subseteq Seq(Caused(c)')
<1>1. \A u \in User : Shareable(u) \subseteq Shareable(u)'
  BY DEF Shareable
<1>2. \A a : PostsOf(a) \subseteq PostsOf(a)'
  BY DEF PostsOf
<1>3. ASSUME NEW c \in Channel PROVE Seq(Caused(c)) \subseteq Seq(Caused(c)')
  <2>1. PostsOf(AuthorOf(c)) \subseteq PostsOf(AuthorOf(c))'
    BY <1>2 DEF AuthorOf
  <2>2. Caused(c) \subseteq Caused(c)'
    BY <2>1 DEF Caused, AuthorOf, EventsOf, PostEvent, FollowEvent, Post
  <2>3. ASSUME NEW S, NEW T, S \subseteq T PROVE Seq(S) \subseteq Seq(T)
    BY <2>3
  <2> QED
    BY <2>2, <2>3
<1> QED
  BY <1>1, <1>2, <1>3

\* A step that adds to the history and leaves the handlers and their lists alone
\* keeps the invariant if its events are caused.
LEMMA InvitedGrows ==
    ASSUME InvitedInv, ever \subseteq ever', DOMAIN author \subseteq DOMAIN author',
           \A p \in DOMAIN author : author'[p] = author[p],
           follows' \subseteq ever', CausedInv',
           UNCHANGED <<timeline, celebrityPosts, following, work>>
    PROVE  InvitedInv'
<1>1. ListsInv'
  <2>1. \A u \in User : timeline[u] \subseteq Shareable(u)'
    BY CausedGrows DEF InvitedInv, ListsInv
  <2> QED
    BY <2>1 DEF InvitedInv, ListsInv
<1>2. ReadsInv'
  <2> SUFFICES ASSUME NEW c \in Channel
               PROVE  /\ \A u \in work[c].users : <<u, AuthorOf(c)>> \in ever'
                      /\ work[c].posts \subseteq PostsOf(AuthorOf(c))'
    BY DEF ReadsInv, AuthorOf
  <2>1. PostsOf(AuthorOf(c)) \subseteq PostsOf(AuthorOf(c))'
    BY DEF PostsOf, AuthorOf
  <2> QED
    BY <2>1 DEF InvitedInv, ReadsInv
<1> QED
  BY <1>1, <1>2 DEF InvitedInv

\* A commit adds an event to those that are caused.
LEMMA CausedCommitted ==
    ASSUME TypeInv, InvitedInv, ever \subseteq ever', DOMAIN author \subseteq DOMAIN author',
           \A p \in DOMAIN author : author'[p] = author[p], UNCHANGED log,
           NEW c \in Channel, NEW e \in Caused(c)', Committed(c, e)
    PROVE  CausedInv'
<1>1. \A d \in Channel : log[d] \in Seq(Caused(d)') /\ unsent[d] \in Seq(Caused(d)')
  BY CausedGrows DEF InvitedInv, CausedInv
<1>2. /\ unsent' = [unsent EXCEPT ![c] = Append(unsent[c], e)]
      /\ unsent \in [Channel -> Seq(Event)]
  BY DEF Committed, TypeInv, TypeOK
<1>3. Append(unsent[c], e) \in Seq(Caused(c)')
  BY <1>1, AppendFacts
<1>4. \A d \in Channel : unsent'[d] \in Seq(Caused(d)')
  BY <1>1, <1>2, <1>3
<1> QED
  BY <1>1, <1>4 DEF CausedInv

\* The event in hand is caused.
LEMMA CurrentCaused ==
    ASSUME TypeInv, InvitedInv, NEW c \in Channel, log[c] # <<>>
    PROVE  Current(c) \in Caused(c)
<1>1. log[c] \in Seq(Caused(c)) /\ Current(c) = log[c][1] /\ 1 \in DOMAIN log[c]
  BY CurrentType DEF InvitedInv, CausedInv
<1> QED
  BY <1>1

\* A step that reads, writes and leaves the history alone keeps the invariant if
\* what it has read is so, and what it writes is shareable.
LEMMA InvitedKept ==
    ASSUME TypeInv, InvitedInv, NEW c \in Channel, NEW w, GoWith(c, w),
           \A u \in w.users : <<u, AuthorOf(c)>> \in ever,
           w.posts \subseteq PostsOf(AuthorOf(c)),
           ListsInv', \A u \in User : \A a \in following'[u] : <<u, a>> \in ever,
           UNCHANGED <<follows, author, ever, unsent, log>>
    PROVE  InvitedInv'
<1>1. \A d \in Channel : work'[d] = IF d = c THEN w ELSE work[d]
  BY DEF GoWith, TypeInv, TypeOK
<1>2. ASSUME NEW d \in Channel
      PROVE  /\ \A u \in work'[d].users : <<u, AuthorOf(d)>> \in ever
             /\ work'[d].posts \subseteq PostsOf(AuthorOf(d))
  BY <1>1 DEF InvitedInv, ReadsInv
<1>3. ReadsInv'
  <2>1. \A d \in Channel : PostsOf(AuthorOf(d))' = PostsOf(AuthorOf(d))
    BY DEF PostsOf, AuthorOf
  <2> QED
    BY <1>2, <2>1 DEF ReadsInv, AuthorOf
<1>4. CausedInv'
  <2>1. \A d \in Channel : Caused(d)' = Caused(d)
    BY DEF Caused, PostsOf, AuthorOf, EventsOf, PostEvent, FollowEvent, Post
  <2> QED
    BY <2>1 DEF InvitedInv, CausedInv
<1> QED
  BY <1>3, <1>4 DEF InvitedInv

\* A handler that writes nothing and has read nothing keeps the invariant.
LEMMA InvitedMoved ==
    ASSUME TypeInv, InvitedInv, NEW c \in Channel, NEW s, Go(c, s),
           UNCHANGED <<follows, author, ever, unsent, log, timeline, celebrityPosts, following>>
    PROVE  InvitedInv'
<1>1. GoWith(c, Working(s)) /\ Working(s).users = {} /\ Working(s).posts = {}
  BY DEF Go, Working
<1>2. ListsInv'
  BY DEF InvitedInv, ListsInv, Shareable
<1> QED
  BY <1>1, <1>2, InvitedKept DEF InvitedInv

\* A user's timeline gets shareable posts.
LEMMA ListsShared ==
    ASSUME TypeInv, ListsInv, NEW v \in User, NEW A, A \subseteq Shareable(v),
           timeline' = [timeline EXCEPT ![v] = Trimmed(timeline[v] \union A)],
           UNCHANGED <<author, ever, celebrityPosts>>
    PROVE  ListsInv'
<1>1. Trimmed(timeline[v] \union A) \subseteq Shareable(v)
  BY DEF Trimmed, Newest, ListsInv
<1>2. \A u \in User : timeline'[u] \subseteq Shareable(u)
  BY <1>1 DEF TypeInv, TypeOK, ListsInv
<1> QED
  BY <1>2 DEF ListsInv, Shareable

\* A handler's step keeps the invariant.
LEMMA InvitedHandled ==
    ASSUME TypeInv, InvitedInv, NEW c \in Channel, Handles(c)
    PROVE  InvitedInv'
<1> DEFINE a == AuthorOf(c)
<1>0. /\ UNCHANGED <<follows, author, ever, unsent, log>>
      /\ a \in Author
      /\ \A u \in User : \A b \in following[u] : <<u, b>> \in ever
  BY HandlesLeaves, ChannelType DEF InvitedInv
<1>a. ListsInv /\ ReadsInv
  BY DEF InvitedInv
<1>b. ASSUME UNCHANGED <<timeline, celebrityPosts>> PROVE ListsInv'
  BY <1>0, <1>a, <1>b DEF ListsInv, Shareable
<1>c. ASSUME log[c] # <<>>
      PROVE  /\ c[2] = "post" => Current(c).post \in PostsOf(a)
             /\ c[2] = "follow" => <<Current(c).user, a>> \in ever
  BY <1>c, CurrentCaused DEF Caused
<1>1. CASE \/ Process(c) \/ Invalidate(c) \/ InvalidateAfter(c) \/ Cached(c) \/ Store(c)
           \/ FanoutDone(c) \/ StartOver(c)
  <2>1. PICK s : Go(c, s)
    BY <1>1 DEF Process, Invalidate, InvalidateAfter, Cached, Store, FanoutDone, StartOver
  <2>2. UNCHANGED <<timeline, celebrityPosts, following>>
    BY <1>1 DEF Process, Invalidate, InvalidateAfter, Cached, Store, FanoutDone, StartOver, cache
  <2> QED
    BY <1>0, <2>1, <2>2, InvitedMoved
<1>2. CASE Query(c)
  <2> DEFINE w == [stage |-> "store", count |-> FollowerCount(a), users |-> {}, posts |-> {}]
  <2>1. GoWith(c, w) /\ UNCHANGED <<timeline, celebrityPosts, following>>
    BY <1>2 DEF Query, cache
  <2>2. w.users = {} /\ w.posts = {}
    OBVIOUS
  <2> HIDE DEF w
  <2> QED
    BY <1>0, <1>b, <2>1, <2>2, InvitedKept
<1>3. CASE AddCelebrityPost(c)
  <2>1. PICK s : Go(c, s)
    BY <1>3 DEF AddCelebrityPost
  <2>2. GoWith(c, Working(s)) /\ Working(s).users = {} /\ Working(s).posts = {}
    BY <2>1 DEF Go, Working
  <2>3. Current(c).post \in DOMAIN author
    BY <1>3, <1>c, StageKind DEF AddCelebrityPost, At, PostsOf
  <2>4. UNCHANGED <<timeline, following>> /\ celebrityPosts' \subseteq DOMAIN author
    BY <1>3, <1>a, <2>3 DEF AddCelebrityPost, Trimmed, Newest, ListsInv
  <2>5. ListsInv'
    BY <1>0, <1>a, <2>4 DEF ListsInv, Shareable
  <2> QED
    BY <1>0, <2>2, <2>4, <2>5, InvitedKept
<1>4. CASE FollowerIDs(c)
  <2> DEFINE w == [stage |-> "fanout", count |-> 0, users |-> FollowersOf(a), posts |-> {}]
  <2>1. GoWith(c, w) /\ UNCHANGED <<timeline, celebrityPosts, following>>
    BY <1>4 DEF FollowerIDs, cache
  <2>2. w.posts = {} /\ \A u \in w.users : <<u, a>> \in ever
    BY DEF FollowersOf, InvitedInv
  <2> HIDE DEF w
  <2> QED
    BY <1>0, <1>b, <2>1, <2>2, InvitedKept
<1>5. CASE FanoutPost(c)
  <2>1. PICK v \in work[c].users :
          /\ timeline' = [timeline EXCEPT ![v] = Trimmed(timeline[v] \union {Current(c).post})]
          /\ GoWith(c, [stage |-> "fanout", count |-> 0, users |-> work[c].users \ {v}, posts |-> {}])
    BY <1>5 DEF FanoutPost
  <2> DEFINE w == [stage |-> "fanout", count |-> 0, users |-> work[c].users \ {v}, posts |-> {}]
  <2>2. GoWith(c, w) /\ w.posts = {} /\ \A u \in w.users : <<u, a>> \in ever
    BY <1>a, <2>1 DEF ReadsInv
  <2>3. UNCHANGED <<celebrityPosts, following>>
    BY <1>5 DEF FanoutPost
  <2>4. v \in User /\ {Current(c).post} \subseteq Shareable(v)
    <3>1. Current(c).post \in PostsOf(a) /\ <<v, a>> \in ever
      BY <1>5, <1>a, <1>c, StageKind DEF FanoutPost, At, ReadsInv
    <3>2. v \in User
      BY DEF TypeInv, TypeOK, Work
    <3> QED
      BY <3>1, <3>2 DEF PostsOf, Shareable
  <2>5. ListsInv'
    BY <1>0, <1>a, <2>1, <2>3, <2>4, ListsShared
  <2> HIDE DEF w
  <2> QED
    BY <1>0, <2>2, <2>3, <2>5, InvitedKept
<1>6. CASE AddCelebrityFollow(c) \/ RemoveCelebrityFollow(c)
  <2>1. PICK s : Go(c, s)
    BY <1>6 DEF AddCelebrityFollow, RemoveCelebrityFollow
  <2>2. GoWith(c, Working(s)) /\ Working(s).users = {} /\ Working(s).posts = {}
    BY <2>1 DEF Go, Working
  <2>3. UNCHANGED <<timeline, celebrityPosts>>
    BY <1>6 DEF AddCelebrityFollow, RemoveCelebrityFollow
  <2>4. Current(c).user \in User /\ <<Current(c).user, a>> \in ever
    BY <1>6, <1>c, StageKind DEF AddCelebrityFollow, RemoveCelebrityFollow, At
  <2>5. \A u \in User : \A b \in following'[u] : b \in following[u] \/ (u = Current(c).user /\ b = a)
    BY <1>6 DEF AddCelebrityFollow, RemoveCelebrityFollow, TypeInv, TypeOK
  <2>6. \A u \in User : \A b \in following'[u] : <<u, b>> \in ever
    BY <1>0, <2>4, <2>5
  <2> QED
    BY <1>0, <1>b, <2>2, <2>3, <2>6, InvitedKept
<1>7. CASE RecentPosts(c)
  <2> DEFINE w == [stage |-> "backfill", count |-> 0, users |-> {},
                   posts |-> Newest(BackfillCount, PostsOf(a))]
  <2>1. GoWith(c, w) /\ UNCHANGED <<timeline, celebrityPosts, following>>
    BY <1>7 DEF RecentPosts, cache
  <2>2. w.users = {} /\ w.posts \subseteq PostsOf(a)
    BY DEF Newest
  <2> HIDE DEF w
  <2> QED
    BY <1>0, <1>b, <2>1, <2>2, InvitedKept
<1>8. CASE Backfill(c)
  <2>1. PICK s : Go(c, s)
    BY <1>8 DEF Backfill
  <2>2. GoWith(c, Working(s)) /\ Working(s).users = {} /\ Working(s).posts = {}
    BY <2>1 DEF Go, Working
  <2>3. UNCHANGED <<celebrityPosts, following>>
    BY <1>8 DEF Backfill
  <2>4. Current(c).user \in User /\ work[c].posts \subseteq Shareable(Current(c).user)
    <3>1. Current(c).user \in User /\ <<Current(c).user, a>> \in ever
      BY <1>8, <1>c, StageKind DEF Backfill, At
    <3>2. work[c].posts \subseteq PostsOf(a)
      BY <1>a DEF ReadsInv
    <3> QED
      BY <3>1, <3>2 DEF PostsOf, Shareable
  <2>5. ListsInv'
    BY <1>0, <1>8, <1>a, <2>3, <2>4, ListsShared DEF Backfill
  <2> QED
    BY <1>0, <2>2, <2>3, <2>5, InvitedKept
<1> QED
  BY <1>1, <1>2, <1>3, <1>4, <1>5, <1>6, <1>7, <1>8 DEF Handles

\* Every step keeps the invariant.
LEMMA NextInvitedInv == TypeInv /\ InvitedInv /\ [Next]_vars => InvitedInv'
<1> SUFFICES ASSUME TypeInv, InvitedInv, [Next]_vars PROVE InvitedInv'
  OBVIOUS
<1>a. ASSUME UNCHANGED <<author, ever>>, CausedInv',
             UNCHANGED <<follows, timeline, celebrityPosts, following, work>>
      PROVE  InvitedInv'
  BY <1>a, InvitedGrows DEF InvitedInv
<1>b. ASSUME UNCHANGED <<author, ever, log, unsent>> PROVE CausedInv'
  <2>1. \A d \in Channel : Caused(d)' = Caused(d)
    BY <1>b DEF Caused, PostsOf, AuthorOf, EventsOf, PostEvent, FollowEvent, Post
  <2> QED
    BY <1>b, <2>1 DEF InvitedInv, CausedInv
<1>1. ASSUME NEW b \in Author, CreatePost(b) PROVE InvitedInv'
  <2>0. PICK n : n = Len(author) + 1
    OBVIOUS
  <2>1. /\ DOMAIN author' = DOMAIN author \union {n}
        /\ author'[n] = b /\ \A q \in DOMAIN author : author'[q] = author[q]
        /\ <<b, "post">> \in Channel /\ Posted(n) \in EventsOf(<<b, "post">>)
        /\ Committed(<<b, "post">>, Posted(n))
        /\ UNCHANGED <<follows, ever, log, work, timeline, celebrityPosts, following>>
    BY <1>1, <2>0, NewPost DEF Posted, CreatePost, cache
  <2>2. n \in PostsOf(b)'
    BY <2>1 DEF PostsOf
  <2>3. Posted(n) \in Caused(<<b, "post">>)'
    BY <2>1, <2>2 DEF Caused, AuthorOf, Posted, EventsOf, PostEvent, FollowEvent, Post
  <2>4. CausedInv'
    BY <2>1, <2>3, CausedCommitted
  <2> QED
    BY <2>1, <2>4, InvitedGrows DEF InvitedInv
<1>2. ASSUME NEW v \in User, NEW b \in Author, Follow(v, b) \/ Unfollow(v, b) PROVE InvitedInv'
  <2>1. /\ UNCHANGED <<author, log, work, timeline, celebrityPosts, following>>
        /\ ever \subseteq ever' /\ follows' \subseteq ever' /\ <<v, b>> \in ever'
    BY <1>2 DEF Follow, Unfollow, cache, InvitedInv
  <2>2. PICK k \in {"FollowCreated", "FollowDeleted"} :
          Committed(<<b, "follow">>, [kind |-> k, user |-> v])
    BY <1>2 DEF Follow, Unfollow
  <2>3. <<b, "follow">> \in Channel /\ [kind |-> k, user |-> v] \in Caused(<<b, "follow">>)'
    BY <2>1, ChannelsOfAuthor DEF Caused, AuthorOf, EventsOf, PostEvent, FollowEvent, Post
  <2>4. CausedInv'
    BY <2>1, <2>2, <2>3, CausedCommitted
  <2> QED
    BY <2>1, <2>4, InvitedGrows
<1>3. ASSUME NEW c \in Channel, Publish(c) PROVE InvitedInv'
  <2>1. PICK i \in DOMAIN unsent[c] :
          /\ log' = [log EXCEPT ![c] = Append(log[c], unsent[c][i])]
          /\ unsent' = [unsent EXCEPT ![c] = RemoveAt(unsent[c], i)]
    BY <1>3 DEF Publish
  <2>2. UNCHANGED <<follows, author, ever, timeline, celebrityPosts, following, work>>
    BY <1>3 DEF Publish, database, cache
  <2>3. \A d \in Channel : /\ log[d] \in Seq(Caused(d)) /\ unsent[d] \in Seq(Caused(d))
                           /\ Caused(d)' = Caused(d)
    BY <2>2 DEF InvitedInv, CausedInv, Caused, PostsOf, AuthorOf, EventsOf, PostEvent, FollowEvent, Post
  <2>4. /\ RemoveAt(unsent[c], i) \in Seq(Caused(c))
        /\ Append(log[c], unsent[c][i]) \in Seq(Caused(c))
    <3> DEFINE E == Caused(c)
    <3>1. log[c] \in Seq(E) /\ unsent[c] \in Seq(E)
      BY <2>3
    <3> HIDE DEF E
    <3>2. unsent[c][i] \in E
      BY <3>1
    <3>3. RemoveAt(unsent[c], i) \in Seq(E) /\ Append(log[c], unsent[c][i]) \in Seq(E)
      BY <3>1, <3>2, RemoveAtType, AppendFacts
    <3> QED
      BY <3>3 DEF E
  <2>5. \A d \in Channel : log'[d] \in Seq(Caused(d)) /\ unsent'[d] \in Seq(Caused(d))
    BY <2>1, <2>3, <2>4 DEF TypeInv, TypeOK
  <2>6. CausedInv'
    BY <2>3, <2>5 DEF CausedInv
  <2> QED
    BY <1>a, <2>2, <2>6
<1>4. ASSUME NEW c \in Channel, Handles(c) PROVE InvitedInv'
  BY <1>4, InvitedHandled
<1>5. ASSUME NEW c \in Channel, Done(c) PROVE InvitedInv'
  <2>1. log[c] # <<>> /\ Go(c, "idle")
    BY <1>5, StageKind DEF Done, At
  <2>2. /\ UNCHANGED <<follows, author, ever, unsent, timeline, celebrityPosts, following>>
        /\ log' = [log EXCEPT ![c] = Tail(log[c])]
    BY <1>5 DEF Done, database, cache
  <2>3. \A d \in Channel : /\ log[d] \in Seq(Caused(d)) /\ unsent[d] \in Seq(Caused(d))
                           /\ Caused(d)' = Caused(d)
    BY <2>2 DEF InvitedInv, CausedInv, Caused, PostsOf, AuthorOf, EventsOf, PostEvent, FollowEvent, Post
  <2>4. Tail(log[c]) \in Seq(Caused(c))
    BY <2>1, <2>3
  <2>5. \A d \in Channel : log'[d] \in Seq(Caused(d))
    BY <2>2, <2>3, <2>4 DEF TypeInv, TypeOK
  <2>6. CausedInv'
    BY <2>2, <2>3, <2>5 DEF CausedInv
  <2>7. ReadsInv'
    <3>1. \A d \in Channel : work'[d] = IF d = c THEN NoWork ELSE work[d]
      BY <2>1 DEF Go, GoWith, NoWork, TypeInv, TypeOK
    <3>2. NoWork.users = {} /\ NoWork.posts = {}
      BY DEF NoWork, Working
    <3>3. \A d \in Channel : PostsOf(AuthorOf(d))' = PostsOf(AuthorOf(d))
      BY <2>2 DEF PostsOf, AuthorOf
    <3> QED
      BY <2>2, <3>1, <3>2, <3>3 DEF InvitedInv, ReadsInv, AuthorOf
  <2>8. ListsInv'
    BY <2>2 DEF InvitedInv, ListsInv, Shareable
  <2> QED
    BY <2>2, <2>6, <2>7, <2>8 DEF InvitedInv
<1>6. ASSUME NEW b \in Author, CountExpires(b) PROVE InvitedInv'
  BY <1>6, <1>a, <1>b DEF CountExpires, database
<1>7. CASE UNCHANGED vars
  BY <1>7, <1>a, <1>b DEF vars, database, cache
<1> QED
  BY <1>1, <1>2, <1>3, <1>4, <1>5, <1>6, <1>7 DEF Next, Step, Handles

\* The initial states satisfy it.
LEMMA InitInvitedInv == Init => InvitedInv
<1> SUFFICES ASSUME Init PROVE InvitedInv
  OBVIOUS
<1>1. \A E : <<>> \in Seq(E)
  OBVIOUS
<1>2. CausedInv
  BY <1>1 DEF Init, CausedInv
<1>3. ReadsInv
  BY DEF Init, ReadsInv, NoWork, Working
<1> QED
  BY <1>2, <1>3 DEF Init, InvitedInv, ListsInv

\* Nobody is shown a post of an author he never followed, whatever the order in which
\* events are published and handlers read, write and start over, and however the
\* authors cross the threshold.
THEOREM OnlyInvited ==
    Safety => [](\A u \in User : \A p \in Candidates(u) : <<u, author[p]>> \in ever)
<1> DEFINE Invited == \A u \in User : \A p \in Candidates(u) : <<u, author[p]>> \in ever
<1>1. InvitedInv => Invited
  BY DEF InvitedInv, ListsInv, Shareable, Candidates, CelebrityPostsFor
<1> HIDE DEF Invited
<1>2. Safety => []Invited
  BY <1>1, InitInvitedInv, NextInvitedInv, TypeInvariance, PTL DEF Safety
<1> QED
  BY <1>2 DEF Invited

-----------------------------------------------------------------------------
(* Each list holds the posts of one side of the threshold. *)

SidedInv ==
    /\ \A u \in User : \A p \in timeline[u] : ~Celebrity(author[p])
    /\ \A p \in celebrityPosts : ~Ordinary(author[p])

\* What a handler adds to a list or a set of markers is of its author, and the
\* list is that of the author's side.
LEMMA HandledAdds ==
    ASSUME TypeInv, SideInv, InvitedInv, NEW c \in Channel, Handles(c)
    PROVE  /\ log[c] # <<>>
           /\ \A u \in User : \A p \in timeline'[u] \ timeline[u] :
                p \in PostsOf(AuthorOf(c)) /\ ~Celebrity(AuthorOf(c))
           /\ \A p \in celebrityPosts' \ celebrityPosts :
                p \in PostsOf(AuthorOf(c)) /\ ~Ordinary(AuthorOf(c))
           /\ \A u \in User : \A b \in following'[u] \ following[u] : b = AuthorOf(c)
<1> DEFINE a == AuthorOf(c)
<1>1. log[c] # <<>>
  BY StageKind DEF Handles, At, Process, Invalidate, InvalidateAfter, Cached, Query, Store,
     AddCelebrityPost, FollowerIDs, FanoutPost, FanoutDone, AddCelebrityFollow,
     RemoveCelebrityFollow, RecentPosts, Backfill, StartOver
<1>2. c[2] = "post" => Current(c).post \in PostsOf(a)
  BY <1>1, CurrentCaused DEF Caused
<1>3. ASSUME NEW v \in User, NEW A, A \subseteq PostsOf(a),
             timeline' = [timeline EXCEPT ![v] = Trimmed(timeline[v] \union A)]
      PROVE  \A u \in User : \A p \in timeline'[u] \ timeline[u] : p \in PostsOf(a)
  <2>1. \A u \in User : timeline'[u] = IF u = v THEN Trimmed(timeline[v] \union A) ELSE timeline[u]
    BY <1>3 DEF TypeInv, TypeOK
  <2>2. Trimmed(timeline[v] \union A) \subseteq timeline[v] \union A
    BY DEF Trimmed, Newest
  <2> QED
    BY <1>3, <2>1, <2>2
<1>4. CASE FanoutPost(c)
  <2>1. {Current(c).post} \subseteq PostsOf(a) /\ work[c].users \in SUBSET User
    BY <1>2, <1>4, StageKind DEF FanoutPost, At, TypeInv, TypeOK, Work
  <2>2. \A u \in User : \A p \in timeline'[u] \ timeline[u] : p \in PostsOf(a)
    <3>1. PICK v \in work[c].users :
            timeline' = [timeline EXCEPT ![v] = Trimmed(timeline[v] \union {Current(c).post})]
      BY <1>4 DEF FanoutPost
    <3> QED
      BY <1>3, <2>1, <3>1
  <2>3. ~Celebrity(a) /\ UNCHANGED <<celebrityPosts, following>>
    BY <1>4 DEF FanoutPost, At, SideInv, OnSide
  <2> QED
    BY <1>1, <2>2, <2>3
<1>5. CASE Backfill(c)
  <2>1. work[c].posts \subseteq PostsOf(a) /\ Current(c).user \in User
    BY <1>5, StageKind DEF Backfill, At, InvitedInv, ReadsInv
  <2>2. \A u \in User : \A p \in timeline'[u] \ timeline[u] : p \in PostsOf(a)
    BY <1>3, <1>5, <2>1 DEF Backfill
  <2>3. ~Celebrity(a) /\ UNCHANGED <<celebrityPosts, following>>
    BY <1>5 DEF Backfill, At, SideInv, OnSide
  <2> QED
    BY <1>1, <2>2, <2>3
<1>6. CASE AddCelebrityPost(c)
  <2>1. Current(c).post \in PostsOf(a) /\ ~Ordinary(a)
    BY <1>2, <1>6, StageKind DEF AddCelebrityPost, At, SideInv, OnSide
  <2>2. UNCHANGED <<timeline, following>> /\ celebrityPosts' \subseteq celebrityPosts \union {Current(c).post}
    BY <1>6 DEF AddCelebrityPost, Trimmed, Newest
  <2> QED
    BY <1>1, <2>1, <2>2
<1>7. CASE AddCelebrityFollow(c) \/ RemoveCelebrityFollow(c)
  <2>1. UNCHANGED <<timeline, celebrityPosts>>
    BY <1>7 DEF AddCelebrityFollow, RemoveCelebrityFollow
  <2>2. \A u \in User : following'[u] \subseteq following[u] \union {a}
    BY <1>7 DEF AddCelebrityFollow, RemoveCelebrityFollow, TypeInv, TypeOK
  <2> QED
    BY <1>1, <2>1, <2>2
<1>8. CASE UNCHANGED <<timeline, celebrityPosts, following>>
  BY <1>1, <1>8
<1> QED
  BY <1>4, <1>5, <1>6, <1>7, <1>8
     DEF Handles, cache, Process, Invalidate, InvalidateAfter, Cached, Query, Store, FollowerIDs,
         FanoutDone, RecentPosts, StartOver

\* The lists stay on their sides.
LEMMA NextSidedInv ==
    ASSUME TypeInv, SideInv, InvitedInv, SidedInv, [Next]_vars
    PROVE  SidedInv'
<1>1. ASSUME UNCHANGED <<timeline, celebrityPosts>>, \A p \in DOMAIN author : author'[p] = author[p]
      PROVE  SidedInv'
  <2>1. \A u \in User : \A p \in timeline[u] : p \in DOMAIN author
    BY DEF InvitedInv, ListsInv, Shareable
  <2>2. \A p \in celebrityPosts : p \in DOMAIN author
    BY DEF InvitedInv, ListsInv
  <2> QED
    BY <1>1, <2>1, <2>2 DEF SidedInv, Ordinary, Celebrity, Outside
<1>2. ASSUME NEW c \in Channel, Handles(c) PROVE SidedInv'
  <2>1. UNCHANGED author
    BY <1>2, HandlesLeaves
  <2>2. \A u \in User : \A p \in timeline'[u] : ~Celebrity(author[p])
    BY <1>2, HandledAdds DEF SidedInv, PostsOf
  <2>3. \A p \in celebrityPosts' : ~Ordinary(author[p])
    BY <1>2, HandledAdds DEF SidedInv, PostsOf
  <2> QED
    BY <2>1, <2>2, <2>3 DEF SidedInv, Ordinary, Celebrity, Outside
<1>3. ASSUME NEW b \in Author, CreatePost(b) PROVE SidedInv'
  BY <1>1, <1>3, NewPost DEF CreatePost, cache
<1>4. ASSUME NEW u \in User, NEW b \in Author, Follow(u, b) \/ Unfollow(u, b) PROVE SidedInv'
  BY <1>1, <1>4 DEF Follow, Unfollow, cache
<1>5. ASSUME NEW c \in Channel, Publish(c) \/ Done(c) PROVE SidedInv'
  BY <1>1, <1>5 DEF Publish, Done, database, cache
<1>6. ASSUME NEW b \in Author, CountExpires(b) PROVE SidedInv'
  BY <1>1, <1>6 DEF CountExpires, database
<1>7. CASE UNCHANGED vars
  BY <1>1, <1>7 DEF vars, database, cache
<1> QED
  BY <1>2, <1>3, <1>4, <1>5, <1>6, <1>7 DEF Next, Step, Handles

-----------------------------------------------------------------------------
(* The worker implements Feed. *)

\* A post stays displaced when posts are added.
LEMMA TrimDisplaces ==
    ASSUME NEW T \in SUBSET Post, NEW A \in SUBSET Post, NEW p \in Post, Displaced(p, T)
    PROVE  Displaced(p, Trimmed(T \union A))
<1> DEFINE S == T \union A
<1>1. S \in SUBSET Post /\ T \in SUBSET S /\ MaxTimelineLen \in Nat
  BY ConstantsAssumption DEF ConstantsAssumption
<1> HIDE DEF S
<1>2. Displaced(p, S)
  <2>1. Cardinality(Later(p, T)) >= MaxTimelineLen
    BY DEF Displaced, Later
  <2>2. /\ Cardinality(Later(p, T)) <= Cardinality(Later(p, S))
        /\ Cardinality(Later(p, T)) \in Nat /\ Cardinality(Later(p, S)) \in Nat
    BY <1>1, LaterGrows
  <2>3. Cardinality(Later(p, S)) >= MaxTimelineLen
    BY <1>1, <2>1, <2>2
  <2> QED
    BY <2>3 DEF Displaced, Later
<1>3. Displaced(p, Trimmed(S))
  BY <1>1, <1>2, TrimKeepsDisplaced
<1> QED
  BY <1>3 DEF S

\* No handler brings a displaced post back.
LEMMA ListsDisplace ==
    ASSUME TypeInv, NEW c \in Channel, Handles(c), NEW p \in Post
    PROVE  /\ Displaced(p, celebrityPosts) => Displaced(p, celebrityPosts')
           /\ \A u \in User : Displaced(p, timeline[u]) => Displaced(p, timeline'[u])
<1>0. timeline \in [User -> SUBSET Post] /\ celebrityPosts \in SUBSET Post
  BY DEF TypeInv, TypeOK
<1>1. CASE UNCHANGED <<timeline, celebrityPosts>>
  BY <1>1
<1>2. CASE AddCelebrityPost(c)
  <2>1. {Current(c).post} \in SUBSET Post
    BY <1>2, StageKind DEF AddCelebrityPost, At
  <2> QED
    BY <1>0, <1>2, <2>1, TrimDisplaces DEF AddCelebrityPost
<1>3. ASSUME NEW v \in User, NEW A \in SUBSET Post, UNCHANGED celebrityPosts,
             timeline' = [timeline EXCEPT ![v] = Trimmed(timeline[v] \union A)]
      PROVE  /\ Displaced(p, celebrityPosts) => Displaced(p, celebrityPosts')
             /\ \A u \in User : Displaced(p, timeline[u]) => Displaced(p, timeline'[u])
  <2>1. Displaced(p, timeline[v]) => Displaced(p, Trimmed(timeline[v] \union A))
    BY <1>0, TrimDisplaces
  <2>2. \A u \in User : timeline'[u] = IF u = v THEN Trimmed(timeline[v] \union A) ELSE timeline[u]
    BY <1>0, <1>3
  <2> QED
    BY <1>3, <2>1, <2>2
<1>4. CASE FanoutPost(c)
  <2>1. {Current(c).post} \in SUBSET Post /\ work[c].users \in SUBSET User
    BY <1>4, StageKind DEF FanoutPost, At, TypeInv, TypeOK, Work
  <2> QED
    BY <1>3, <1>4, <2>1 DEF FanoutPost
<1>5. CASE Backfill(c)
  <2>1. Current(c).user \in User /\ work[c].posts \in SUBSET Post
    BY <1>5, StageKind DEF Backfill, At, TypeInv, TypeOK, Work
  <2> QED
    BY <1>3, <1>5, <2>1 DEF Backfill
<1> QED
  BY <1>1, <1>2, <1>4, <1>5
     DEF Handles, cache, Process, Invalidate, InvalidateAfter, Cached, Query, Store, FollowerIDs,
         FanoutDone, AddCelebrityFollow, RemoveCelebrityFollow, RecentPosts, StartOver

\* The list of an author's side.
SideList(u, a) == IF Celebrity(a) THEN celebrityPosts ELSE timeline[u]

\* It is the list that his posts are read from, before a step and after it.
LEMMA ListIsSide ==
    ASSUME NoCrossing, NEW u, NEW a \in Author
    PROVE  ListFor(u, a) = SideList(u, a) /\ ListFor(u, a)' = SideList(u, a)'
<1>1. Ordinary(a) <=> ~Celebrity(a)
  BY ConstantFacts, FollowersType DEF NoCrossing, Ordinary, Celebrity
<1>2. ListFor(u, a) = SideList(u, a)
  BY <1>1, ListOfSide DEF SideList
<1>3. FollowersOf(a)' \in SUBSET User
  BY DEF FollowersOf
<1>4. /\ Cardinality(FollowersOf(a)') \in Nat /\ Cardinality(User) \in Nat
      /\ Cardinality(FollowersOf(a)') <= Cardinality(User)
  BY <1>3, ConstantFacts, FS_Subset, FS_CardinalityType
<1>5. FollowerCount(a)' = Cardinality(FollowersOf(a)') + Outside(a) /\ Outside(a) \in Nat
  BY FollowersType DEF FollowerCount, Outside
<1>6. FollowerCount(a)' < Threshold <=> ~Celebrity(a)
  BY <1>1, <1>4, <1>5, ConstantFacts DEF Ordinary, Celebrity
<1>7. ListFor(u, a)' = SideList(u, a)'
  BY <1>6 DEF ListFor, SideList, ShouldFanoutOnWrite, Celebrity, Outside
<1> QED
  BY <1>2, <1>7

\* So newer posts displace on that list.
LEMMA PastIs ==
    ASSUME NoCrossing, TypeInv, NEW u \in User
    PROVE  \A p : p \in Past[u] <=>
             p \in DOMAIN author /\ Displaced(p, IF Celebrity(author[p]) THEN celebrityPosts ELSE timeline[u])
<1>1. \A p \in DOMAIN author : author[p] \in Author
  BY DEF TypeInv, TypeOK
<1> QED
  BY <1>1, ListIsSide DEF Past, SideList

\* The same after a step.
LEMMA PastIsNext ==
    ASSUME NoCrossing, TypeInv', NEW u \in User
    PROVE  \A p : p \in Past'[u] <=>
             p \in DOMAIN author' /\ Displaced(p, IF Celebrity(author'[p]) THEN celebrityPosts' ELSE timeline'[u])
<1>1. \A p \in DOMAIN author' : author'[p] \in Author
  BY DEF TypeInv, TypeOK
<1>2. ASSUME NEW p \in DOMAIN author'
      PROVE  Displaced(p, ListFor(u, author[p]))' <=>
             Displaced(p, IF Celebrity(author'[p]) THEN celebrityPosts' ELSE timeline'[u])
  <2>1. PICK b \in Author : b = author'[p]
    BY <1>1, <1>2
  <2>2. ListFor(u, b)' = IF Celebrity(b) THEN celebrityPosts' ELSE timeline'[u]
    BY ListIsSide DEF SideList, Celebrity, Outside
  <2>3. ListFor(u, author[p])' = ListFor(u, b)'
    BY <2>1 DEF ListFor, FollowerCount, FollowersOf, Outside
  <2> QED
    BY <2>1, <2>2, <2>3 DEF Displaced
<1> QED
  BY <1>2 DEF Past

\* The sequences that a queue is made of, and their events.
LEMMA QueueFacts ==
    ASSUME NEW E, NEW l \in Seq(E), NEW s \in Seq(E)
    PROVE  /\ l \o s = <<>> <=> l = <<>> /\ s = <<>>
           /\ \A e \in E : Range(l \o Append(s, e)) = Range(l \o s) \union {e}
           /\ l # <<>> => /\ Range(Tail(l) \o s) \subseteq Range(l \o s)
                          /\ Head(l) \in Range(l \o s)
<1>1. /\ Len(l \o s) = Len(l) + Len(s) /\ l \o s \in Seq(E)
      /\ Len(l) \in Nat /\ Len(s) \in Nat
      /\ l = <<>> <=> Len(l) = 0
      /\ s = <<>> <=> Len(s) = 0
      /\ l \o s = <<>> <=> Len(l \o s) = 0
  OBVIOUS
<1>2. l \o s = <<>> <=> l = <<>> /\ s = <<>>
  BY <1>1
<1>3. ASSUME NEW e \in E PROVE Range(l \o Append(s, e)) = Range(l \o s) \union {e}
  <2> DEFINE q == l \o s
  <2>1. l \o Append(s, e) = Append(q, e) /\ q \in Seq(E)
    BY <1>1, ConcatAppend
  <2> HIDE DEF q
  <2>2. /\ DOMAIN Append(q, e) = DOMAIN q \union {Len(q) + 1}
        /\ Append(q, e)[Len(q) + 1] = e
        /\ \A i \in DOMAIN q : Append(q, e)[i] = q[i]
    BY <2>1
  <2>3. Range(Append(q, e)) = Range(q) \union {e}
    BY <2>2 DEF Range
  <2> QED
    BY <2>1, <2>3 DEF q
<1>4. ASSUME l # <<>>
      PROVE  Range(Tail(l) \o s) \subseteq Range(l \o s) /\ Head(l) \in Range(l \o s)
  <2> DEFINE q == l \o s
  <2>1. /\ Tail(l) \o s = Tail(q) /\ q \in Seq(E) /\ q # <<>> /\ q[1] = l[1] /\ Head(l) = l[1]
    BY <1>1, <1>4, ConcatTail, ConcatType
  <2> HIDE DEF q
  <2>2. /\ 1 \in DOMAIN q
        /\ \A i \in DOMAIN Tail(q) : i + 1 \in DOMAIN q /\ Tail(q)[i] = q[i + 1]
    BY <2>1
  <2>3. Range(Tail(q)) \subseteq Range(q) /\ q[1] \in Range(q)
    BY <2>2 DEF Range
  <2> QED
    BY <2>1, <2>3 DEF q
<1> QED
  BY <1>2, <1>3, <1>4

\* A commit leaves its author behind, and an unfollow still to be applied.
LEMMA BehindCommitted ==
    ASSUME TypeInv, NEW b \in Author, NEW t \in {"post", "follow"}, NEW e \in EventsOf(<<b, t>>),
           Committed(<<b, t>>, e), UNCHANGED log
    PROVE  /\ Behind' = Behind \union {b}
           /\ e.kind # "FollowDeleted" => Leaving' = Leaving
           /\ \A v \in User : e = Deleted(v) => Leaving' = Leaving \union {<<v, b>>}
<1> DEFINE c == <<b, t>>
<1>0. c \in Channel /\ \A a \in Author : \A k \in {"post", "follow"} : <<a, k>> \in Channel
  BY DEF Channel
<1>1. \A d \in Channel : log[d] \in Seq(EventsOf(d)) /\ unsent[d] \in Seq(EventsOf(d))
  BY DEF TypeInv, EventInv
<1>2. /\ unsent' = [unsent EXCEPT ![c] = Append(unsent[c], e)] /\ unsent \in [Channel -> Seq(Event)]
  BY DEF Committed, TypeInv, TypeOK
<1>3. unsent'[c] = Append(unsent[c], e) /\ \A d \in Channel : d # c => unsent'[d] = unsent[d]
  BY <1>0, <1>2
<1>4. Append(unsent[c], e) # <<>>
  BY <1>0, <1>1, AppendFacts
<1>5. Behind' = Behind \union {b}
  <2>1. \A a \in Author : a # b => (Quiet(a)' <=> Quiet(a))
    BY <1>0, <1>3 DEF Quiet
  <2>2. ~Quiet(b)'
    BY <1>0, <1>3, <1>4 DEF Quiet
  <2> QED
    BY <2>1, <2>2 DEF Behind
<1>6. Range(log[c] \o unsent'[c]) = Range(log[c] \o unsent[c]) \union {e}
  BY <1>0, <1>1, <1>3, QueueFacts
<1>7. ASSUME NEW u \in User, NEW a \in Author
      PROVE  <<u, a>> \in Leaving' <=> <<u, a>> \in Leaving \/ (a = b /\ t = "follow" /\ e = Deleted(u))
  <2>1. /\ <<u, a>> \in Leaving' <=> Deleted(u) \in Range(log[<<a, "follow">>] \o unsent'[<<a, "follow">>])
        /\ <<u, a>> \in Leaving <=> Deleted(u) \in Range(log[<<a, "follow">>] \o unsent[<<a, "follow">>])
    BY DEF Leaving, Deleted
  <2>2. CASE <<a, "follow">> = c
    BY <1>6, <2>1, <2>2
  <2>3. CASE <<a, "follow">> # c
    BY <1>0, <1>3, <2>1, <2>3
  <2> QED
    BY <2>2, <2>3
<1>8. Leaving \subseteq User \X Author /\ Leaving' \subseteq User \X Author
  BY DEF Leaving
<1>9. e.kind # "FollowDeleted" => Leaving' = Leaving
  BY <1>7, <1>8 DEF Deleted
<1>10. ASSUME NEW v \in User, e = Deleted(v) PROVE Leaving' = Leaving \union {<<v, b>>}
  <2>1. t = "follow"
    BY <1>10 DEF Deleted, EventsOf, PostEvent
  <2>2. \A u \in User : Deleted(v) = Deleted(u) <=> u = v
    BY DEF Deleted
  <2> QED
    BY <1>7, <1>8, <1>10, <2>1, <2>2
<1> QED
  BY <1>5, <1>9, <1>10

\* Publication leaves the authors behind, and unfollows to apply, as they are.
LEMMA BehindPublished ==
    ASSUME TypeInv, ~Reordering, NEW c \in Channel, Publish(c)
    PROVE  Behind' = Behind /\ Leaving' = Leaving
<1>1. \A d \in Channel : log[d] \in Seq(EventsOf(d)) /\ unsent[d] \in Seq(EventsOf(d))
  BY DEF TypeInv, EventInv
<1>2. PICK i \in DOMAIN unsent[c] : log' = [log EXCEPT ![c] = Append(log[c], unsent[c][i])]
  BY DEF Publish
<1>3. unsent[c] # <<>> /\ unsent[c][i] \in EventsOf(c)
  BY <1>1, <1>2
<1>4. log'[c] # <<>> /\ \A d \in Channel : d # c => log'[d] = log[d] /\ unsent'[d] = unsent[d]
  <2>1. Append(log[c], unsent[c][i]) # <<>>
    BY <1>1, <1>3, AppendFacts
  <2> QED
    BY <1>2, <2>1 DEF Publish, TypeInv, TypeOK
<1>5. \A a \in Author : \A k \in {"post", "follow"} : <<a, k>> \in Channel
  BY DEF Channel
<1>6. \A a \in Author : Quiet(a)' <=> Quiet(a)
  BY <1>3, <1>4, <1>5 DEF Quiet
<1>7. \A d \in Channel : log'[d] \o unsent'[d] = log[d] \o unsent[d]
  BY PublishQueue DEF Queue
<1> QED
  BY <1>5, <1>6, <1>7 DEF Behind, Leaving

\* When an offset is committed, at most its author has caught up.
LEMMA BehindDone ==
    ASSUME TypeInv, NEW c \in Channel, Done(c)
    PROVE  Behind' \subseteq Behind /\ Leaving' \subseteq Leaving
<1>1. log[c] # <<>> /\ log[c] \in Seq(EventsOf(c)) /\ unsent[c] \in Seq(EventsOf(c))
  BY StageKind DEF Done, At, TypeInv, EventInv
<1>2. UNCHANGED unsent /\ log'[c] = Tail(log[c]) /\ \A d \in Channel : d # c => log'[d] = log[d]
  BY DEF Done, TypeInv, TypeOK
<1>3. \A a \in Author : \A k \in {"post", "follow"} : <<a, k>> \in Channel
  BY DEF Channel
<1>4. \A a \in Author : Quiet(a) => Quiet(a)'
  BY <1>1, <1>2, <1>3 DEF Quiet
<1>5. Range(Tail(log[c]) \o unsent[c]) \subseteq Range(log[c] \o unsent[c])
  BY <1>1, QueueFacts
<1>6. \A d \in Channel : Range(log'[d] \o unsent'[d]) \subseteq Range(log[d] \o unsent[d])
  BY <1>2, <1>5
<1> QED
  BY <1>3, <1>4, <1>6 DEF Behind, Leaving

\* The invariants behind the refinement.
PromiseInv == FeedInv /\ InvitedInv /\ SidedInv

\* Feed counts as the worker does.
LEMMA PromiseCounts == ASSUME NEW S PROVE Promise!Cardinality(S) = Cardinality(S)
BY DEF Promise!Cardinality, Cardinality

\* An author whose events are all applied is complete.
LEMMA QuietIsComplete ==
    ASSUME NoCrossing, PromiseInv, NoGap, NEW a \in Author, Quiet(a)
    PROVE  Promise!Complete(a)
<1>1. PostsOf(a) \subseteq DOMAIN author /\ \A n : Newest(n, PostsOf(a)) \subseteq PostsOf(a)
  BY DEF PostsOf, Newest
<1>2. ASSUME NEW u \in User PROVE <<u, a>> \notin Leaving
  <2>1. Range(<<>>) = {}
    BY DEF Range
  <2>2. log[<<a, "follow">>] = <<>> /\ unsent[<<a, "follow">>] = <<>>
    BY DEF Quiet
  <2>3. <<>> \o <<>> = <<>>
    OBVIOUS
  <2> QED
    BY <2>1, <2>2, <2>3 DEF Leaving
<1>3. ASSUME NEW u \in User, <<u, a>> \in follows,
             NEW p \in (owed[u] \intersect PostsOf(a)) \union Newest(BackfillCount, PostsOf(a))
      PROVE  p \in Shown[u] \union Past[u]
  <2>1. Served(u, p)
    BY <1>3 DEF NoGap
  <2>2. p \in DOMAIN author
    BY <1>1
  <2> QED
    BY <2>1, <2>2 DEF Served, Shown, Past
<1>4. /\ Promise!PostsOf(a) = PostsOf(a)
      /\ Promise!Newest(BackfillCount, PostsOf(a)) = Newest(BackfillCount, PostsOf(a))
  BY PromiseCounts DEF Promise!PostsOf, Promise!Newest, PostsOf, Newest
<1>5. ASSUME NEW u \in User, <<u, a>> \in follows
      PROVE  (owed[u] \intersect PostsOf(a)) \union Newest(BackfillCount, PostsOf(a))
                 \subseteq Shown[u] \union Past[u]
  BY <1>3, <1>5
<1> QED
  BY <1>2, <1>4, <1>5 DEF Promise!Complete

\* What a handler takes from a feed gives way to newer posts or to an unfollow.
LEMMA HandledKeeps ==
    ASSUME NoCrossing, PromiseInv, TypeInv', NEW c \in Channel, Handles(c), NEW u \in User,
           NEW p \in Shown[u], p \notin Shown'[u], p \notin Past'[u]
    PROVE  <<u, author[p]>> \in Leaving
<1>0. TypeInv /\ SideInv /\ InvitedInv /\ SidedInv /\ UNCHANGED author
  BY HandlesLeaves DEF PromiseInv, FeedInv
<1>1. /\ p \in timeline[u] \/ (p \in celebrityPosts /\ author[p] \in following[u])
      /\ p \notin timeline'[u]
      /\ p \in celebrityPosts' => author[p] \notin following'[u]
  BY <1>0 DEF Shown, Candidates, CelebrityPostsFor
<1>2. p \in DOMAIN author /\ author[p] \in Author /\ p \in Post
  <2>1. p \in DOMAIN author
    BY <1>0, <1>1 DEF InvitedInv, ListsInv, Shareable
  <2>2. p \in Post
    BY <1>0, <1>1 DEF TypeInv, TypeOK
  <2> QED
    BY <1>0, <2>1, <2>2 DEF TypeInv, TypeOK
<1>3. ~Displaced(p, IF Celebrity(author[p]) THEN celebrityPosts' ELSE timeline'[u])
  BY <1>0, <1>2, PastIsNext
<1>4. /\ Kept(p, celebrityPosts) => Kept(p, celebrityPosts')
      /\ Kept(p, timeline[u]) => Kept(p, timeline'[u])
  BY <1>0, <1>2, ListsKeep
<1>5. p \notin timeline[u]
  <2>1. p \in timeline[u] => ~Celebrity(author[p])
    BY <1>0 DEF SidedInv
  <2> QED
    BY <1>1, <1>3, <1>4, <2>1 DEF Kept
<1>6. p \in celebrityPosts /\ author[p] \in following[u] /\ Celebrity(author[p])
  BY <1>0, <1>1, <1>2, <1>5 DEF SidedInv, NoCrossing
<1>7. p \in celebrityPosts' /\ author[p] \notin following'[u]
  BY <1>1, <1>3, <1>4, <1>6 DEF Kept
<1>8. RemoveCelebrityFollow(c) /\ u = Current(c).user /\ author[p] = AuthorOf(c)
  <2>1. following'[u] # following[u]
    BY <1>6, <1>7
  <2>2. AddCelebrityFollow(c) \/ RemoveCelebrityFollow(c)
    BY <2>1
       DEF Handles, cache, Process, Invalidate, InvalidateAfter, Cached, Query, Store, AddCelebrityPost,
           FollowerIDs, FanoutPost, FanoutDone, RecentPosts, Backfill, StartOver
  <2>3. RemoveCelebrityFollow(c)
    BY <1>0, <1>6, <1>7, <2>2 DEF AddCelebrityFollow, TypeInv, TypeOK
  <2> QED
    BY <1>0, <1>6, <1>7, <2>3 DEF RemoveCelebrityFollow, TypeInv, TypeOK
<1>9. log[c] # <<>> /\ Current(c) = Deleted(u) /\ c = <<AuthorOf(c), "follow">>
  <2>1. log[c] # <<>> /\ Current(c).kind = "FollowDeleted" /\ c[2] = "follow" /\ Current(c) \in EventsOf(c)
    BY <1>0, <1>8, StageKind, CurrentType DEF RemoveCelebrityFollow, At
  <2>2. Current(c) \in FollowEvent
    BY <2>1 DEF EventsOf
  <2> QED
    BY <1>8, <2>1, <2>2, ChannelType DEF FollowEvent, Deleted
<1>10. Current(c) \in Range(log[c] \o unsent[c])
  BY <1>0, <1>9, QueueFacts DEF TypeInv, EventInv, Current
<1> QED
  BY <1>2, <1>8, <1>9, <1>10 DEF Leaving, Deleted

\* What it adds is of its author.
LEMMA HandledGains ==
    ASSUME PromiseInv, InvitedInv', NEW c \in Channel, Handles(c), NEW u \in User,
           NEW p \in Shown'[u], p \notin Shown[u]
    PROVE  p \in DOMAIN author /\ author[p] \in Behind /\ <<u, author[p]>> \in ever
<1>0. TypeInv /\ SideInv /\ InvitedInv /\ UNCHANGED <<author, ever, log, unsent>>
  BY HandlesLeaves DEF PromiseInv, FeedInv
<1>1. p \in timeline'[u] \/ (p \in celebrityPosts' /\ author[p] \in following'[u])
  BY <1>0 DEF Shown, Candidates, CelebrityPostsFor
<1>2. ~(p \in timeline[u] \/ (p \in celebrityPosts /\ author[p] \in following[u]))
  BY DEF Shown, Candidates, CelebrityPostsFor
<1>3. author[p] = AuthorOf(c) /\ log[c] # <<>>
  BY <1>0, <1>1, <1>2, HandledAdds DEF PostsOf
<1>4. p \in DOMAIN author /\ <<u, author[p]>> \in ever
  BY <1>0, <1>1 DEF InvitedInv, ListsInv, Shareable
<1>5. author[p] \in Behind
  <2>1. AuthorOf(c) \in Author /\ c[2] \in {"post", "follow"} /\ c = <<AuthorOf(c), c[2]>>
    BY ChannelType
  <2> QED
    BY <1>3, <2>1 DEF Behind, Quiet
<1> QED
  BY <1>4, <1>5

\* What is displaced stays displaced.
LEMMA HandledPast ==
    ASSUME NoCrossing, PromiseInv, TypeInv', NEW c \in Channel, Handles(c), NEW u \in User
    PROVE  Past[u] \subseteq Past'[u]
<1>0. TypeInv /\ UNCHANGED author
  BY HandlesLeaves DEF PromiseInv, FeedInv
<1> SUFFICES ASSUME NEW p \in Past[u] PROVE p \in Past'[u]
  OBVIOUS
<1>1. p \in DOMAIN author /\ Displaced(p, IF Celebrity(author[p]) THEN celebrityPosts ELSE timeline[u])
  BY <1>0, PastIs
<1>2. p \in Post
  BY <1>0, <1>1, ConstantFacts DEF TypeInv, TypeOK, PostsInv, Post
<1>3. Displaced(p, IF Celebrity(author[p]) THEN celebrityPosts' ELSE timeline'[u])
  BY <1>0, <1>1, <1>2, ListsDisplace
<1> QED
  BY <1>0, <1>1, <1>3, PastIsNext

\* A post off a full list has enough newer ones.
LEMMA DisplacedFades ==
    ASSUME NEW n \in Nat, NEW L \in SUBSET (1..n), NEW p, Displaced(p, L)
    PROVE  Cardinality({q \in 1..n : q > p}) >= MaxTimelineLen
<1> DEFINE S == {q \in L : q > p}
           T == {q \in 1..n : q > p}
<1>1. IsFiniteSet(1..n)
  BY FS_Interval
<1>2. S \subseteq T /\ IsFiniteSet(T)
  BY <1>1, FS_Subset
<1>3. Cardinality(S) <= Cardinality(T) /\ Cardinality(S) \in Nat /\ Cardinality(T) \in Nat
  BY <1>2, FS_Subset, FS_CardinalityType
<1>4. Cardinality(S) >= MaxTimelineLen /\ MaxTimelineLen \in Nat
  BY ConstantsAssumption DEF ConstantsAssumption, Displaced
<1> HIDE DEF S, T
<1>5. Cardinality(T) >= MaxTimelineLen
  BY <1>3, <1>4
<1> QED
  BY <1>5 DEF T

\* Steps that leave lists, markers and posts alone leave the feeds alone.
LEMMA FeedsSame ==
    ASSUME NoCrossing, TypeInv, TypeInv', UNCHANGED <<author, timeline, celebrityPosts, following>>
    PROVE  Shown' = Shown /\ Past' = Past
<1>1. Shown' = Shown
  BY DEF Shown, Candidates, CelebrityPostsFor
<1>2. \A u \in User : Past'[u] = Past[u]
  BY PastIs, PastIsNext
<1>3. Past' = [u \in User |-> Past'[u]] /\ Past = [u \in User |-> Past[u]]
  BY DEF Past
<1> QED
  BY <1>1, <1>2, <1>3

\* A new post is in no feed, and nothing is newer.
LEMMA FeedsBeforePost ==
    ASSUME NoCrossing, TypeInv, InvitedInv, TypeInv', NEW b \in Author, CreatePost(b)
    PROVE  Shown' = Shown /\ Past' = Past
<1>0. PICK n : n = Len(author) + 1
  OBVIOUS
<1>1. /\ DOMAIN author' = DOMAIN author \union {n} /\ n \notin DOMAIN author
      /\ \A q \in DOMAIN author : author'[q] = author[q]
      /\ UNCHANGED <<timeline, celebrityPosts, following>>
  BY <1>0, NewPost DEF CreatePost, cache
<1>2. \A p \in celebrityPosts : author'[p] = author[p]
  BY <1>1 DEF InvitedInv, ListsInv
<1>3. Shown' = Shown
  BY <1>1, <1>2 DEF Shown, Candidates, CelebrityPostsFor
<1>4. ASSUME NEW S, S \subseteq DOMAIN author PROVE ~Displaced(n, S)
  <2>1. author \in Seq(Author)
    BY DEF TypeInv, TypeOK
  <2>2. \A q \in DOMAIN author : q \in Nat /\ q < n
    BY <1>0, <2>1
  <2>3. {q \in S : q > n} = {}
    <3>1. n \in Nat
      BY <1>0, <2>1
    <3> QED
      BY <1>4, <2>2, <3>1
  <2> QED
    BY <2>3, FS_EmptySet, ConstantsAssumption DEF ConstantsAssumption, Displaced
<1>5. ASSUME NEW u \in User PROVE Past'[u] = Past[u]
  <2>1. timeline[u] \subseteq DOMAIN author /\ celebrityPosts \subseteq DOMAIN author
    BY DEF InvitedInv, ListsInv, Shareable
  <2>2. n \notin Past'[u]
    BY <1>1, <1>4, <2>1, PastIsNext
  <2>3. \A p \in DOMAIN author : p \in Past'[u] <=> p \in Past[u]
    BY <1>1, PastIs, PastIsNext
  <2>4. Past'[u] \subseteq DOMAIN author' /\ Past[u] \subseteq DOMAIN author
    BY DEF Past
  <2> QED
    BY <1>1, <2>2, <2>3, <2>4
<1>6. Past' = [u \in User |-> Past'[u]] /\ Past = [u \in User |-> Past[u]]
  BY DEF Past
<1> QED
  BY <1>3, <1>5, <1>6

\* A step of the worker, a publication or an expiry is a step of the feeds.
LEMMA ServeStep ==
    ASSUME UNCHANGED <<follows, author, ever, owed>>,
           Behind' \subseteq Behind, Leaving' \subseteq Leaving,
           \A u \in User : \A p \in Shown[u] :
               p \notin Shown'[u] /\ p \notin Past'[u] => <<u, author[p]>> \in Leaving,
           \A u \in User : Past[u] \subseteq Past'[u],
           \A u \in User : \A p \in Past'[u] :
               p \notin Past[u] => p \in DOMAIN author /\ Promise!Newer(p) >= MaxTimelineLen,
           \A u \in User : \A p \in Shown'[u] :
               p \notin Shown[u] =>
                   p \in DOMAIN author /\ author[p] \in Behind /\ <<u, author[p]>> \in ever,
           \A a \in Behind \ Behind' : Promise!Complete(a)'
    PROVE  Promise!Serve
<1>1. \A u \in User : Promise!Keeps(u) /\ Promise!Fades(u) /\ Promise!Gains(u)
  BY DEF Promise!Keeps, Promise!Fades, Promise!Gains
<1> QED
  BY <1>1 DEF Promise!Serve

\* The initial states are initial states of Feed.
LEMMA InitPromise == NoCrossing /\ Init => Promise!Init
<1> SUFFICES ASSUME NoCrossing, Init PROVE Promise!Init
  OBVIOUS
<1>1. <<>> \o <<>> = <<>> /\ Range(<<>>) = {} /\ DOMAIN <<>> = {}
  BY DEF Range
<1>2. \A a \in Author : log[<<a, "post">>] = <<>> /\ log[<<a, "follow">>] = <<>>
                        /\ unsent[<<a, "post">>] = <<>> /\ unsent[<<a, "follow">>] = <<>>
  BY ChannelsOfAuthor DEF Init
<1>3. Behind = {} /\ Leaving = {}
  BY <1>1, <1>2 DEF Behind, Quiet, Leaving
<1>4. Shown = [u \in User |-> {}] /\ Past = [u \in User |-> {}]
  BY <1>1 DEF Init, Shown, Candidates, CelebrityPostsFor, Past
<1> QED
  BY <1>3, <1>4 DEF Init, Promise!Init

\* Every step is a step of Feed or a stutter.
LEMMA NextPromise ==
    ASSUME NoCrossing, ~Reordering, PromiseInv, PromiseInv',
           \A a \in Author : Quiet(a)' => Promise!Complete(a)',
           [Next]_vars
    PROVE  [Promise!Next]_(Promise!vars)
<1>0. TypeInv /\ TypeInv' /\ InvitedInv /\ InvitedInv'
  BY DEF PromiseInv, FeedInv
<1>a. ASSUME UNCHANGED <<database, owed, timeline, celebrityPosts, following>>,
             Behind' \subseteq Behind, Leaving' \subseteq Leaving
      PROVE  Promise!Serve
  <2>1. Shown' = Shown /\ Past' = Past
    BY <1>0, <1>a, FeedsSame DEF database
  <2>2. \A a \in Behind \ Behind' : Promise!Complete(a)'
    BY DEF Behind
  <2> QED
    BY <1>a, <2>1, <2>2, ServeStep DEF database
<1>b. ASSUME UNCHANGED <<log, unsent>> PROVE Behind' = Behind /\ Leaving' = Leaving
  BY <1>b DEF Behind, Quiet, Leaving
<1>1. ASSUME NEW b \in Author, CreatePost(b) PROVE Promise!CreatePost(b)
  <2>1. Shown' = Shown /\ Past' = Past
    BY <1>0, <1>1, FeedsBeforePost
  <2>2. Behind' = Behind \union {b} /\ Leaving' = Leaving
    <3> DEFINE e == [kind |-> "PostCreated", post |-> Len(author) + 1]
    <3>1. e \in EventsOf(<<b, "post">>) /\ Committed(<<b, "post">>, e) /\ e.kind # "FollowDeleted"
      BY <1>0, <1>1, NewPost
    <3>2. UNCHANGED log
      BY <1>1 DEF CreatePost
    <3> HIDE DEF e
    <3> QED
      BY <1>0, <3>1, <3>2, BehindCommitted
  <2>3. /\ author' = Append(author, b) /\ UNCHANGED <<follows, ever>>
        /\ owed' = [u \in User |-> IF <<u, b>> \in follows THEN owed[u] \union {Len(author')} ELSE owed[u]]
    BY <1>1 DEF CreatePost, FollowersOf
  <2> QED
    BY <2>1, <2>2, <2>3 DEF Promise!CreatePost, Promise!feeds
<1>2. ASSUME NEW v \in User, NEW b \in Author, Follow(v, b) PROVE Promise!Follow(v, b)
  <2>1. Shown' = Shown /\ Past' = Past
    BY <1>0, <1>2, FeedsSame DEF Follow, cache
  <2>2. Behind' = Behind \union {b} /\ Leaving' = Leaving
    <3>1. Created(v) \in EventsOf(<<b, "follow">>) /\ Created(v).kind # "FollowDeleted"
      BY ChannelsOfAuthor DEF Created, FollowEvent
    <3>2. Committed(<<b, "follow">>, Created(v)) /\ UNCHANGED log
      BY <1>2 DEF Follow, Created
    <3> QED
      BY <1>0, <3>1, <3>2, BehindCommitted
  <2> QED
    BY <1>2, <2>1, <2>2 DEF Follow, Promise!Follow, Promise!feeds
<1>3. ASSUME NEW v \in User, NEW b \in Author, Unfollow(v, b) PROVE Promise!Unfollow(v, b)
  <2>1. Shown' = Shown /\ Past' = Past
    BY <1>0, <1>3, FeedsSame DEF Unfollow, cache
  <2>2. Behind' = Behind \union {b} /\ Leaving' = Leaving \union {<<v, b>>}
    <3>1. Deleted(v) \in EventsOf(<<b, "follow">>)
      BY ChannelsOfAuthor DEF Deleted, FollowEvent
    <3>2. Committed(<<b, "follow">>, Deleted(v)) /\ UNCHANGED log
      BY <1>3 DEF Unfollow, Deleted
    <3> QED
      BY <1>0, <3>1, <3>2, BehindCommitted
  <2>3. Promise!PostsOf(b) = PostsOf(b)
    BY DEF Promise!PostsOf, PostsOf
  <2> QED
    BY <1>3, <2>1, <2>2, <2>3 DEF Unfollow, Promise!Unfollow, Promise!feeds
<1>4. ASSUME NEW c \in Channel, Publish(c) PROVE Promise!Serve
  BY <1>0, <1>4, <1>a, BehindPublished DEF Publish, cache
<1>5. ASSUME NEW c \in Channel, Handles(c) PROVE Promise!Serve
  <2>1. UNCHANGED <<follows, author, ever, owed, log, unsent>>
    BY <1>0, <1>5, HandlesLeaves
  <2>2. Behind' = Behind /\ Leaving' = Leaving
    BY <1>b, <2>1
  <2>3. \A u \in User : \A p \in Shown[u] :
          p \notin Shown'[u] /\ p \notin Past'[u] => <<u, author[p]>> \in Leaving
    BY <1>0, <1>5, HandledKeeps
  <2>4. \A u \in User : Past[u] \subseteq Past'[u]
    BY <1>0, <1>5, HandledPast
  <2>5. \A u \in User : \A p \in Shown'[u] :
          p \notin Shown[u] =>
              p \in DOMAIN author /\ author[p] \in Behind /\ <<u, author[p]>> \in ever
    BY <1>0, <1>5, HandledGains
  <2>6. \A u \in User : \A p \in Past'[u] :
          p \in DOMAIN author /\ Promise!Newer(p) >= MaxTimelineLen
    <3> SUFFICES ASSUME NEW u \in User, NEW p \in Past'[u]
                 PROVE  p \in DOMAIN author /\ Promise!Newer(p) >= MaxTimelineLen
      OBVIOUS
    <3>1. p \in DOMAIN author' /\ Displaced(p, IF Celebrity(author'[p]) THEN celebrityPosts' ELSE timeline'[u])
      BY <1>0, PastIsNext
    <3>2. celebrityPosts' \subseteq DOMAIN author /\ timeline'[u] \subseteq DOMAIN author
      BY <1>0, <2>1 DEF InvitedInv, ListsInv, Shareable
    <3>3. Len(author) \in Nat /\ DOMAIN author = 1..Len(author)
      BY <1>0 DEF TypeInv, TypeOK
    <3>4. Cardinality({q \in 1..Len(author) : q > p}) >= MaxTimelineLen
      BY <3>1, <3>2, <3>3, DisplacedFades
    <3>5. Promise!Newer(p) = Cardinality({q \in 1..Len(author) : q > p})
      BY <3>3, PromiseCounts DEF Promise!Newer
    <3> QED
      BY <2>1, <3>1, <3>4, <3>5
  <2> QED
    BY <2>1, <2>2, <2>3, <2>4, <2>5, <2>6, ServeStep
<1>6. ASSUME NEW c \in Channel, Done(c) PROVE Promise!Serve
  BY <1>0, <1>6, <1>a, BehindDone DEF Done, cache
<1>7. ASSUME NEW b \in Author, CountExpires(b) PROVE Promise!Serve
  BY <1>7, <1>a, <1>b DEF CountExpires
<1>8. CASE UNCHANGED vars
  BY <1>8, <1>a, <1>b DEF vars, cache, Promise!Next
<1> QED
  BY <1>1, <1>2, <1>3, <1>4, <1>5, <1>6, <1>7, <1>8 DEF Next, Step, Handles, Promise!Next

\* Nobody loses a post but to newer ones or by an unfollow, nobody is shown an author
\* never followed, and each author's followers have his posts once his events are
\* applied: the worker implements Feed, as long as requests publish in the order of
\* their commits and no author can cross the threshold.
THEOREM FeedPromised == NoCrossing /\ ~Reordering => (Safety => PromiseKept)
<1> SUFFICES ASSUME NoCrossing, ~Reordering PROVE Safety => PromiseKept
  OBVIOUS
<1>1. Init => PromiseInv
  <2>1. Init => SidedInv
    BY DEF Init, SidedInv
  <2> QED
    BY <2>1, InitFeedInv, InitInvitedInv DEF PromiseInv
<1>2. PromiseInv /\ [Next]_vars => PromiseInv'
  <2>1. FeedInv => TypeInv /\ SideInv
    BY DEF FeedInv
  <2> QED
    BY <2>1, NextFeedInv, NextInvitedInv, NextSidedInv DEF PromiseInv
<1> DEFINE Completed == \A a \in Author : Quiet(a) => Promise!Complete(a)
<1>3. PromiseInv => Completed
  BY FeedInvNoGap, QuietIsComplete DEF PromiseInv
<1>4. Completed' => \A a \in Author : Quiet(a)' => Promise!Complete(a)'
  OBVIOUS
<1>5. PromiseInv /\ PromiseInv' /\ Completed' /\ [Next]_vars => [Promise!Next]_(Promise!vars)
  BY <1>4, NextPromise
<1>6. Init => Promise!Init
  BY InitPromise
<1> HIDE DEF Completed
<1> QED
  BY <1>1, <1>2, <1>3, <1>5, <1>6, PTL DEF Safety, PromiseKept, Promise!Spec
===============================================================================
