---------------------------- MODULE WarmCacheProofs ----------------------------
(***************************************************************************)
(* Proofs about WarmCache: for any users, authors, posts and list lengths, *)
(* and any number of runs of the job, what an undisturbed run leaves in    *)
(* Redis is what the database says, and a run beside a working worker does *)
(* damage only where it was overtaken.                                     *)
(*                                                                         *)
(* The worker's steps are those of HybridFanout, so its lemmas, stated one *)
(* user, author and post at a time, carry over to the pairs that the job   *)
(* has written and that did not change since it read them.                 *)
(***************************************************************************)
EXTENDS WarmCache, HybridFanoutProofs

-----------------------------------------------------------------------------
(* The invariants. *)

JobType ==
    /\ job \in JobStage
    /\ listed \in Listed
    /\ todo \in Seq(User \union Author)
    /\ runs \in 0..MaxRuns
    /\ calm \in BOOLEAN
    /\ missed \in SUBSET (User \X Author)
    /\ late \in SUBSET Post

WarmTypeInv == TypeInv /\ JobType

Resetting == {"resetTimelines", "resetFollowing", "resetCounts", "resetCelebrityPosts"}
Rewriting == {"users", "timeline", "following", "count", "celebrityPosts"}

\* The users still to be cleared, to get their timeline, to get their markers.
ToClear == Range(IF job \in {"timeline", "following", "count"} THEN Tail(todo) ELSE todo)
ToList == Range(IF job \in {"following", "count"} THEN Tail(todo) ELSE todo)
ToMark == Range(IF job = "count" THEN Tail(todo) ELSE todo)

\* Nobody is written before everybody is listed, and nobody is left at the end.
TodoInv ==
    /\ job \in Resetting => User \subseteq Range(todo)
    /\ job \in {"celebrityPosts", "done"} => todo = <<>>

\* What was read is what the tables say, but for what committed since.
ReadInv ==
    /\ job \in {"posts"} \union Resetting \union Rewriting =>
         \A u \in User, a \in Author :
             <<u, a>> \notin missed => (<<u, a>> \in listed.follows <=> <<u, a>> \in follows)
    /\ job \in Resetting \union Rewriting =>
         /\ listed.posts \subseteq DOMAIN author
         /\ \A a \in Author : \A p \in PostsOf(a) \ late : Kept(p, listed.posts \intersect PostsOf(a))

\* Without a disturbance there is nothing to apply and nothing that was missed, ...
CalmInv ==
    calm => /\ \A a \in Author : Quiet(a)
            /\ missed = {} /\ late = {}
            /\ job \in {"follows", "posts"} \union Resetting \union Rewriting =>
                 \A a \in Author : listed.count[a] = FollowerCount(a)

\* ... and what is written is what the database says.
WrittenInv ==
    calm /\ job \in Rewriting \union {"done"} =>
        /\ job = "timeline" => timeline[Head(todo)] = {}
        /\ job \in {"timeline", "following"} => following[Head(todo)] = {}
        /\ \A u \in User \ ToList : timeline[u] = SqlNormal(u)
        /\ \A u \in User \ ToMark : following[u] = SqlFollowed(u)
        /\ job = "done" => celebrityPosts = SqlCelebrity

RebuildInv == WarmTypeInv /\ TodoInv /\ ReadInv /\ CalmInv /\ WrittenInv

\* The counts read are on their authors' sides.
ReadSideInv ==
    job \in {"follows", "posts"} \union Resetting \union Rewriting =>
        \A a \in Author : CountOnSide(a, listed.count[a])

\* What HybridFanout keeps for every pair holds for those written and not missed.
ClearedInv ==
    job \in Rewriting \union {"done"} =>
        \A u \in User \ ToClear, a \in Author : <<u, a>> \notin missed => MarkOf(u, a)

WarmMarkedInv ==
    job \in Rewriting \union {"done"} =>
        \A u \in User \ ToMark, a \in Author : <<u, a>> \notin missed => MarkedOf(u, a)

WarmOwedInv ==
    job \in Rewriting \union {"done"} =>
        \A u \in User \ ToList, a \in Author, p \in Post \ late :
            <<u, a>> \notin missed => OwedOf(u, a, p) /\ BackfillOf(u, a, p)

WarmListedInv == job = "done" => \A a \in Author, p \in Post \ late : ListedOf(a, p)

OverlapInv ==
    /\ RebuildInv
    /\ OrderedInv
    /\ SideInv
    /\ ReadSideInv
    /\ OwedFollows
    /\ ClearedInv
    /\ WarmMarkedInv
    /\ WarmOwedInv
    /\ WarmListedInv

-----------------------------------------------------------------------------
(* Lists. *)

\* A longer list keeps what a shorter one keeps.
LEMMA KeptGrows ==
    ASSUME NEW S \in SUBSET Post, NEW T \in SUBSET S, NEW p, Kept(p, T)
    PROVE  Kept(p, S)
<1>1. /\ Cardinality(Later(p, T)) <= Cardinality(Later(p, S))
      /\ Cardinality(Later(p, T)) \in Nat /\ Cardinality(Later(p, S)) \in Nat
  BY LaterGrows
<1>2. CASE Displaced(p, T)
  BY <1>1, <1>2, ConstantFacts DEF Displaced, Later, Kept
<1>3. CASE p \in T
  BY <1>3 DEF Kept
<1> QED
  BY <1>2, <1>3 DEF Kept

\* The newest of a set, at least as many as a list holds, keep all of the set.
LEMMA NewestKeeps ==
    ASSUME NEW S \in SUBSET Post, NEW n \in Nat, n >= MaxTimelineLen, NEW p \in S
    PROVE  Kept(p, Newest(n, S))
<1> DEFINE T == Newest(n, S)
<1>1. /\ T = TopOf(LaterPairs, n, S) /\ T \in SUBSET S
      /\ IsFiniteSet(S) /\ StrictOrder(LaterPairs, S)
  BY NewestIsTop, PostSets DEF Newest
<1> HIDE DEF T
<1>2. CASE p \in T
  BY <1>2 DEF T, Kept
<1>3. CASE p \notin T
  <2>1. ASSUME NEW q \in T PROVE q > p
    <3>1. q \in TopOf(LaterPairs, n, S) /\ p \in S \ TopOf(LaterPairs, n, S)
      BY <1>1, <1>3
    <3>2. <<q, p>> \in LaterPairs
      BY <1>1, <3>1, TopIsAbove
    <3> QED
      BY <3>2 DEF LaterPairs
  <2>2. Later(p, T) = T
    BY <2>1 DEF Later
  <2>3. Cardinality(T) \in Nat /\ Cardinality(T) >= n
    BY <1>1, <1>3, TopIsFull
  <2>4. Displaced(p, T)
    BY <2>2, <2>3, ConstantFacts DEF Displaced, Later
  <2> QED
    BY <2>4 DEF T, Kept
<1> QED
  BY <1>2, <1>3

\* A list that keeps all of a set has the same newest posts.
LEMMA KeptNewest ==
    ASSUME NEW S \in SUBSET Post, NEW T \in SUBSET S, \A p \in S : Kept(p, T)
    PROVE  Newest(MaxTimelineLen, T) = Newest(MaxTimelineLen, S)
<1> DEFINE N == Newest(MaxTimelineLen, S)
<1>0. MaxTimelineLen \in Nat /\ T \in SUBSET Post
  BY ConstantFacts
<1>1. ASSUME NEW p \in N PROVE p \in Newest(MaxTimelineLen, T)
  <2>1. p \in S /\ Cardinality(Later(p, S)) < MaxTimelineLen
    BY <1>1 DEF Newest, Later
  <2>2. /\ Cardinality(Later(p, T)) <= Cardinality(Later(p, S))
        /\ Cardinality(Later(p, T)) \in Nat /\ Cardinality(Later(p, S)) \in Nat
    BY LaterGrows
  <2>3. Cardinality(Later(p, T)) < MaxTimelineLen
    BY <1>0, <2>1, <2>2
  <2>4. p \in T
    BY <1>0, <2>1, <2>2, <2>3 DEF Kept, Displaced, Later
  <2> QED
    BY <2>3, <2>4 DEF Newest, Later
<1>2. ASSUME NEW p \in Newest(MaxTimelineLen, T) PROVE p \in N
  <2>1. p \in S /\ p \in Post /\ Cardinality(Later(p, T)) < MaxTimelineLen
    BY <1>2 DEF Newest, Later
  <2>2. N \in SUBSET T
    BY <1>1 DEF Newest
  <2>3. CASE Displaced(p, S)
    <3>1. Displaced(p, N)
      BY <2>1, <2>3, TrimKeepsDisplaced DEF Trimmed
    <3> HIDE DEF N
    <3>2. /\ Cardinality(Later(p, N)) <= Cardinality(Later(p, T))
          /\ Cardinality(Later(p, N)) \in Nat /\ Cardinality(Later(p, T)) \in Nat
      BY <1>0, <2>2, LaterGrows
    <3> QED
      BY <1>0, <2>1, <3>1, <3>2 DEF Displaced, Later
  <2>4. CASE ~Displaced(p, S)
    <3>1. Cardinality(Later(p, S)) \in Nat
      BY LaterGrows
    <3> QED
      BY <1>0, <2>1, <2>4, <3>1 DEF Displaced, Later, Newest
  <2> QED
    BY <2>3, <2>4
<1> QED
  BY <1>1, <1>2

\* Taking the newest again changes nothing.
LEMMA NewestAgain ==
    ASSUME NEW S \in SUBSET Post
    PROVE  Newest(MaxTimelineLen, Newest(MaxTimelineLen, S)) = Newest(MaxTimelineLen, S)
<1> DEFINE T == Newest(MaxTimelineLen, S)
<1>1. T \in SUBSET S
  BY DEF Newest
<1>2. MaxTimelineLen \in Nat /\ MaxTimelineLen >= MaxTimelineLen
  BY ConstantFacts
<1>3. \A p \in S : Kept(p, T)
  BY <1>2, NewestKeeps
<1> HIDE DEF T
<1>4. Newest(MaxTimelineLen, T) = Newest(MaxTimelineLen, S)
  BY <1>1, <1>3, KeptNewest
<1> QED
  BY <1>4 DEF T

\* The first of a sequence and the rest are all of it.
LEMMA RangeFacts ==
    ASSUME NEW E, NEW s \in Seq(E), s # <<>>
    PROVE  /\ Range(s) = {Head(s)} \union Range(Tail(s))
           /\ Head(s) \in E /\ Tail(s) \in Seq(E)
<1>1. /\ Head(s) = s[1] /\ Head(s) \in E /\ Tail(s) \in Seq(E)
      /\ Len(s) \in Nat \ {0} /\ Len(Tail(s)) = Len(s) - 1
      /\ \A i \in 1..Len(s) - 1 : Tail(s)[i] = s[i + 1]
  OBVIOUS
<1>2. DOMAIN s = 1..Len(s) /\ DOMAIN Tail(s) = 1..Len(s) - 1
  BY <1>1
<1>3. ASSUME NEW x \in Range(s) PROVE x \in {Head(s)} \union Range(Tail(s))
  <2>1. PICK i \in 1..Len(s) : x = s[i]
    BY <1>2 DEF Range
  <2>2. CASE i = 1
    BY <1>1, <2>1, <2>2
  <2>3. CASE i # 1
    <3>1. i - 1 \in 1..Len(s) - 1 /\ Tail(s)[i - 1] = s[i]
      BY <1>1, <2>1, <2>3
    <3> QED
      BY <1>2, <2>1, <3>1 DEF Range
  <2> QED
    BY <2>2, <2>3
<1>4. ASSUME NEW x \in Range(Tail(s)) PROVE x \in Range(s)
  <2>1. PICK i \in 1..Len(s) - 1 : x = Tail(s)[i]
    BY <1>2 DEF Range
  <2>2. i + 1 \in 1..Len(s) /\ x = s[i + 1]
    BY <1>1, <2>1
  <2> QED
    BY <1>2, <2>2 DEF Range
<1>5. Head(s) \in Range(s)
  BY <1>1, <1>2 DEF Range
<1> QED
  BY <1>1, <1>3, <1>4, <1>5

\* Nobody is in an empty sequence.
LEMMA RangeEmpty == Range(<<>>) = {}
BY DEF Range

\* ListUsers lists every account.
LEMMA AccountsType == Accounts \in Seq(User \union Author) /\ Range(Accounts) = User \union Author
<1> DEFINE S == User \union Author
           n == Cardinality(S)
<1>1. IsFiniteSet(S) /\ n \in Nat
  BY ConstantFacts, WarmAssumption, FS_Union, FS_CardinalityType DEF WarmAssumption
<1> HIDE DEF n
<1>2. PICK f : f \in Bijection(1..n, S)
  BY <1>1, FS_CardinalityType DEF ExistsBijection, n
<1>3. f \in [1..n -> S] /\ IsInjective(f)
  BY <1>2 DEF Bijection, Injection, IsInjective
<1>4. Accounts \in [1..n -> S] /\ IsInjective(Accounts)
  BY <1>3 DEF Accounts, SetToSeq, n
<1>5. Accounts \in Injection(1..n, S)
  BY <1>4 DEF Injection
<1>6. Accounts \in Surjection(1..n, S)
  <2>1. IsFiniteSet(1..n) /\ Cardinality(1..n) = n
    BY <1>1, FS_Interval
  <2> QED
    BY <1>1, <1>5, <2>1, FS_Injection DEF n
<1>7. Accounts \in Seq(S)
  BY <1>1, <1>4
<1>8. Range(Accounts) = S
  BY <1>4, <1>6 DEF Range, Surjection
<1> QED
  BY <1>7, <1>8

-----------------------------------------------------------------------------
(* Types. *)

\* What every step of the job leaves alone.
LEMMA JobLeaves ==
    ASSUME Job
    PROVE  /\ UNCHANGED <<follows, author, ever, unsent, log, work, owed, changes>>
           /\ \A c : Queue(c)' = Queue(c)
           /\ \A a : PostsOf(a)' = PostsOf(a)
<1>1. UNCHANGED <<follows, author, ever, unsent, log, work, owed, changes>>
  BY DEF Job, ListUsers, ListFollows, RecentPostsPerAuthor, ResetTimelines, ResetFollowing,
         ResetCounts, ResetCelebrityPosts, DeleteUser, WarmTimeline, WarmFollowing, WarmCount,
         UsersWarmed, ReplaceCelebrityPosts, JobFails, Writing, vars, database
<1> QED
  BY <1>1, QueuesSame DEF PostsOf

\* A step that writes only lists, of their types, keeps the types.
LEMMA CacheWritten ==
    ASSUME TypeInv, UNCHANGED <<follows, author, ever, unsent, log, work, owed, changes>>, CacheType'
    PROVE  TypeInv'
<1>1. TypeOK'
  BY DEF TypeInv, TypeOK, CacheType
<1>2. EventInv' /\ StageInv' /\ PostsInv'
  BY DEF TypeInv, EventInv, StageInv, PostsInv, Current
<1> QED
  BY <1>1, <1>2 DEF TypeInv

\* What the job writes has the types of the lists.
LEMMA JobCache ==
    ASSUME WarmTypeInv, Job
    PROVE  CacheType'
<1>0. CacheType /\ TypeInv /\ JobType
  BY DEF WarmTypeInv, TypeInv, TypeOK, CacheType
<1>1. Cardinality({}) = 0 /\ 0 <= MaxTimelineLen
  BY FS_EmptySet, ConstantFacts
<1>2. \A S \in SUBSET Post : /\ Newest(MaxTimelineLen, S) \in SUBSET Post
                             /\ Cardinality(Newest(MaxTimelineLen, S)) <= MaxTimelineLen
  BY TrimmedIsBounded DEF Trimmed
<1>3. listed.posts \in SUBSET Post /\ listed.count \in [Author -> Nat]
  BY <1>0 DEF JobType, Listed
<1>4. ASSUME UNCHANGED <<timeline, celebrityPosts, following, count>> PROVE CacheType'
  BY <1>0, <1>4 DEF CacheType
<1>5. CASE ResetTimelines
  BY <1>0, <1>1, <1>5 DEF ResetTimelines, CacheType
<1>6. CASE ResetFollowing
  BY <1>0, <1>6 DEF ResetFollowing, CacheType
<1>7. CASE ResetCounts
  BY <1>0, <1>7 DEF ResetCounts, CacheType
<1>8. CASE ResetCelebrityPosts
  BY <1>0, <1>1, <1>8 DEF ResetCelebrityPosts, CacheType
<1>9. CASE DeleteUser
  BY <1>0, <1>1, <1>9 DEF DeleteUser, Writing, CacheType
<1>10. CASE WarmTimeline
  <2> DEFINE u == Head(todo)
  <2>1. /\ timeline' = [timeline EXCEPT ![u] = Trimmed(timeline[u] \union TimelinePosts(u))]
        /\ UNCHANGED <<celebrityPosts, following, count>>
    BY <1>10 DEF WarmTimeline, Writing
  <2>2. TimelinePosts(u) \in SUBSET Post
    BY <1>2, <1>3 DEF TimelinePosts
  <2>3. u \in User => /\ Trimmed(timeline[u] \union TimelinePosts(u)) \in SUBSET Post
                      /\ Cardinality(Trimmed(timeline[u] \union TimelinePosts(u))) <= MaxTimelineLen
    BY <1>0, <1>2, <2>2 DEF CacheType, Trimmed
  <2> QED
    BY <1>0, <2>1, <2>3 DEF CacheType
<1>11. CASE WarmFollowing
  BY <1>0, <1>11 DEF WarmFollowing, Writing, CacheType, Celebrities
<1>12. CASE WarmCount
  BY <1>0, <1>3, <1>12 DEF WarmCount, Writing, CacheType
<1>13. CASE ReplaceCelebrityPosts
  <2>1. CelebrityNewest \in SUBSET Post /\ Cardinality(CelebrityNewest) <= MaxTimelineLen
    BY <1>2, <1>3 DEF CelebrityNewest
  <2> QED
    BY <1>0, <1>13, <2>1 DEF ReplaceCelebrityPosts, CacheType
<1>14. CASE ListUsers \/ ListFollows \/ RecentPostsPerAuthor \/ UsersWarmed \/ JobFails
  BY <1>4, <1>14 DEF ListUsers, ListFollows, RecentPostsPerAuthor, UsersWarmed, JobFails, vars, cache
<1> QED
  BY <1>5, <1>6, <1>7, <1>8, <1>9, <1>10, <1>11, <1>12, <1>13, <1>14 DEF Job

\* An empty listing is a listing.
LEMMA NothingListedType == NothingListed \in Listed
BY DEF NothingListed, Listed

\* The job keeps its own types.
LEMMA JobKeepsType ==
    ASSUME WarmTypeInv, Job
    PROVE  JobType'
<1>0. TypeInv /\ JobType
  BY DEF WarmTypeInv
<1>1. Tail(todo) \in Seq(User \union Author) \/ todo = <<>>
  BY <1>0 DEF JobType
<1>2. CASE ListUsers
  <2>1. listed' = [NothingListed EXCEPT !.count = [a \in Author |-> FollowerCount(a)]]
    BY <1>2 DEF ListUsers
  <2>2. [a \in Author |-> FollowerCount(a)] \in [Author -> Nat]
    BY FollowersType
  <2>3. listed' \in Listed
    BY <2>1, <2>2, NothingListedType DEF Listed
  <2>4. runs' \in 0..MaxRuns
    BY <1>0, <1>2, WarmAssumption DEF JobType, ListUsers, WarmAssumption
  <2>5. job' \in JobStage /\ todo' = todo /\ calm' \in BOOLEAN /\ missed' = {} /\ late' = {}
    BY <1>2 DEF ListUsers, JobGo, JobStage
  <2> QED
    BY <1>0, <2>3, <2>4, <2>5 DEF JobType
<1>3. CASE ListFollows
  <2>1. listed' \in Listed
    BY <1>0, <1>3 DEF ListFollows, JobType, Listed, TypeInv, TypeOK
  <2>2. job' \in JobStage /\ UNCHANGED <<todo, runs, calm, missed, late>>
    BY <1>3 DEF ListFollows, JobGo, JobStage, history
  <2> QED
    BY <1>0, <2>1, <2>2 DEF JobType
<1>4. CASE RecentPostsPerAuthor
  <2>1. \A a, n : Newest(n, PostsOf(a)) \in SUBSET Post
    BY <1>0, PostsOfType
  <2>2. listed' \in Listed
    BY <1>0, <1>4, <2>1 DEF RecentPostsPerAuthor, JobType, Listed
  <2>3. job' \in JobStage /\ todo' = Accounts /\ UNCHANGED <<runs, calm, missed, late>>
    BY <1>4 DEF RecentPostsPerAuthor, JobGo, JobStage, history
  <2> QED
    BY <1>0, <2>2, <2>3, AccountsType DEF JobType
<1>5. CASE ReplaceCelebrityPosts \/ JobFails
  <2>1. job' \in JobStage /\ UNCHANGED <<runs, calm, missed, late>> /\ (todo' = todo \/ todo' = <<>>)
        /\ listed' = NothingListed
    BY <1>5 DEF ReplaceCelebrityPosts, JobFails, JobGo, JobStage, history
  <2>2. <<>> \in Seq(User \union Author)
    OBVIOUS
  <2> QED
    BY <1>0, <2>1, <2>2, NothingListedType DEF JobType
<1>6. CASE ResetTimelines \/ ResetFollowing \/ ResetCounts \/ ResetCelebrityPosts \/ UsersWarmed
  BY <1>0, <1>6
     DEF ResetTimelines, ResetFollowing, ResetCounts, ResetCelebrityPosts, UsersWarmed, JobGo,
         JobStage, history, JobType
<1>7. CASE DeleteUser \/ WarmTimeline \/ WarmFollowing
  BY <1>0, <1>7 DEF DeleteUser, WarmTimeline, WarmFollowing, Writing, JobGo, JobStage, history, JobType
<1>8. CASE WarmCount
  BY <1>0, <1>1, <1>8 DEF WarmCount, Writing, JobGo, JobStage, history, JobType
<1> QED
  BY <1>2, <1>3, <1>4, <1>5, <1>6, <1>7, <1>8 DEF Job

\* The initial states have the types.
LEMMA WarmInitType == WarmInit => WarmTypeInv
<1> SUFFICES ASSUME WarmInit PROVE WarmTypeInv
  OBVIOUS
<1>1. PICK n \in 0..MaxSeeded : author \in [1..n -> Author]
  BY DEF WarmInit
<1>2. /\ author \in Seq(Author) /\ Len(author) = n /\ n <= MaxPosts /\ n \in Nat
      /\ DOMAIN author \in SUBSET Post
  <2>1. n \in Nat /\ n <= MaxPosts
    BY <1>1, WarmAssumption, ConstantFacts DEF WarmAssumption
  <2>2. author \in Seq(Author) /\ Len(author) = n
    BY <1>1, <2>1
  <2> QED
    BY <1>1, <2>1, <2>2, ConstantFacts DEF Post
<1>3. NoWork \in Work
  BY DEF NoWork, Working, Work, Stage
<1>4. \A E : <<>> \in Seq(E)
  OBVIOUS
<1>5. CacheType
  <2>1. /\ timeline \in [User -> Few(DOMAIN author)] /\ celebrityPosts \in Few(DOMAIN author)
        /\ following \in [User -> SUBSET Author] /\ count = [a \in Author |-> -1]
    BY DEF WarmInit
  <2>2. \A S \in Few(DOMAIN author) : S \in SUBSET Post /\ Cardinality(S) <= MaxTimelineLen
    BY <1>2 DEF Few
  <2> QED
    BY <2>1, <2>2 DEF CacheType
<1>6. TypeOK
  <2>1. /\ follows \in SUBSET (User \X Author) /\ ever \in SUBSET (User \X Author)
        /\ unsent = [c \in Channel |-> <<>>] /\ log = [c \in Channel |-> <<>>]
        /\ work = [c \in Channel |-> NoWork]
        /\ owed = [u \in User |-> {p \in DOMAIN author : <<u, author[p]>> \in follows}]
        /\ changes = 0
    BY DEF WarmInit
  <2>2. owed \in [User -> SUBSET Post] /\ changes \in 0..MaxChanges
    BY <1>2, <2>1, ConstantFacts
  <2>3. unsent \in [Channel -> Seq(Event)] /\ log \in [Channel -> Seq(Event)] /\ work \in [Channel -> Work]
    BY <1>3, <1>4, <2>1
  <2>4. \A c \in Channel : log[c] = <<>> => work[c] = NoWork
    BY <2>1
  <2> QED
    BY <1>2, <1>5, <2>1, <2>2, <2>3, <2>4 DEF TypeOK, CacheType
<1>7. EventInv /\ StageInv /\ PostsInv
  BY <1>2, <1>4 DEF WarmInit, EventInv, StageInv, PostsInv
<1>8. JobType
  <2>1. /\ job = "idle" /\ listed = NothingListed /\ todo = <<>> /\ runs = 0 /\ calm = FALSE
        /\ missed = {} /\ late = {}
    BY DEF WarmInit
  <2>2. runs \in 0..MaxRuns
    BY <2>1, WarmAssumption DEF WarmAssumption
  <2> QED
    BY <1>4, <2>1, <2>2, NothingListedType DEF JobType, JobStage
<1> QED
  BY <1>6, <1>7, <1>8 DEF WarmTypeInv, TypeInv

\* Every step keeps the types.
LEMMA WarmNextType == WarmTypeInv /\ [WarmNext]_warmVars => WarmTypeInv'
<1> SUFFICES ASSUME WarmTypeInv, [WarmNext]_warmVars PROVE WarmTypeInv'
  OBVIOUS
<1>0. TypeInv /\ JobType
  BY DEF WarmTypeInv
<1>1. CASE Job
  BY <1>0, <1>1, JobLeaves, JobCache, CacheWritten, JobKeepsType DEF WarmTypeInv
<1>2. CASE Others
  <2>1. Next /\ UNCHANGED <<job, listed, todo, runs>>
    BY <1>2 DEF Others, jobState
  <2>2. TypeInv'
    BY <1>0, <2>1, NextTypeInv
  <2>3. follows' \in SUBSET (User \X Author) /\ DOMAIN author' \in SUBSET Post
    <3>1. author' \in Seq(Author) /\ Len(author') <= MaxPosts
      BY <2>2 DEF TypeInv, TypeOK, PostsInv
    <3>2. DOMAIN author' = 1..Len(author') /\ Len(author') \in Nat
      BY <3>1
    <3> QED
      BY <2>2, <3>1, <3>2, ConstantFacts DEF TypeInv, TypeOK, Post
  <2>4. calm' \in BOOLEAN
    BY <1>0, <1>2 DEF Others, JobType
  <2>5. missed' \in SUBSET (User \X Author)
    <3>1. missed' \subseteq missed \union follows \union follows'
      BY <1>2 DEF Others
    <3> QED
      BY <1>0, <2>3, <3>1 DEF JobType, TypeInv, TypeOK
  <2>6. late' \in SUBSET Post
    <3>1. late' \subseteq late \union DOMAIN author'
      BY <1>2 DEF Others
    <3> QED
      BY <1>0, <2>3, <3>1 DEF JobType
  <2> QED
    BY <1>0, <2>1, <2>2, <2>4, <2>5, <2>6 DEF WarmTypeInv, JobType
<1>3. CASE UNCHANGED warmVars
  <2>1. UNCHANGED vars /\ UNCHANGED <<jobState, history>>
    BY <1>3 DEF warmVars
  <2>2. TypeInv'
    BY <1>0, <2>1, NextTypeInv
  <2> QED
    BY <1>0, <2>1, <2>2 DEF WarmTypeInv, JobType, jobState, history
<1> QED
  BY <1>1, <1>2, <1>3 DEF WarmNext

\* The job and the worker beside it keep to their types: lists bounded, only
\* accounts left to write, nothing read but what the tables can hold.
THEOREM WarmTypeCorrect == WarmSafety => []WarmTypeOK
<1>1. WarmTypeInv => WarmTypeOK
  BY DEF WarmTypeInv, TypeInv, JobType, WarmTypeOK
<1> QED
  BY <1>1, WarmInitType, WarmNextType, PTL DEF WarmSafety

-----------------------------------------------------------------------------
(* What the job's steps do. *)

\* The steps after the reads and before the last keep what was read.
LEMMA JobWrites ==
    ASSUME Job, ~ListUsers, ~ListFollows, ~RecentPostsPerAuthor, ~ReplaceCelebrityPosts, ~JobFails
    PROVE  /\ job \in Resetting \union Rewriting
           /\ job' \in Resetting \union Rewriting
           /\ UNCHANGED <<listed, runs, calm, missed, late>>
<1>1. CASE ResetTimelines \/ ResetFollowing \/ ResetCounts \/ ResetCelebrityPosts \/ UsersWarmed
  BY <1>1 DEF ResetTimelines, ResetFollowing, ResetCounts, ResetCelebrityPosts, UsersWarmed, JobAt,
              JobGo, history, Resetting, Rewriting
<1>2. CASE DeleteUser \/ WarmTimeline \/ WarmFollowing \/ WarmCount
  BY <1>2 DEF DeleteUser, WarmTimeline, WarmFollowing, WarmCount, Writing, JobAt, JobGo, history,
              Resetting, Rewriting
<1> QED
  BY <1>1, <1>2 DEF Job

\* Nobody is written before everybody is listed, and nobody is left at the end.
LEMMA JobTodo ==
    ASSUME TodoInv, Job
    PROVE  TodoInv'
<1>1. CASE RecentPostsPerAuthor
  BY <1>1, AccountsType DEF RecentPostsPerAuthor, JobGo, TodoInv, Resetting
<1>2. CASE ListUsers \/ ListFollows \/ JobFails
  BY <1>2 DEF ListUsers, ListFollows, JobFails, JobGo, TodoInv, Resetting
<1>3. CASE ResetTimelines \/ ResetFollowing \/ ResetCounts \/ ResetCelebrityPosts
  BY <1>3 DEF ResetTimelines, ResetFollowing, ResetCounts, ResetCelebrityPosts, JobAt, JobGo, TodoInv,
              Resetting
<1>4. CASE DeleteUser \/ WarmTimeline \/ WarmFollowing \/ WarmCount
  BY <1>4 DEF DeleteUser, WarmTimeline, WarmFollowing, WarmCount, JobGo, TodoInv, Resetting
<1>5. CASE UsersWarmed \/ ReplaceCelebrityPosts
  BY <1>5 DEF UsersWarmed, ReplaceCelebrityPosts, JobAt, JobGo, TodoInv, Resetting
<1> QED
  BY <1>1, <1>2, <1>3, <1>4, <1>5 DEF Job

\* A user's keys are those of before unless the step is the one that writes them.
UserFrame(u) ==
    /\ u \notin ToClear' =>
         \/ job \in Rewriting /\ u \notin ToClear /\ following'[u] = following[u]
         \/ following'[u] = {}
         \/ WarmFollowing /\ u = Head(todo) /\ u \notin ToClear
    /\ u \notin ToList' =>
         \/ job \in Rewriting /\ u \notin ToList /\ timeline'[u] = timeline[u]
         \/ WarmTimeline /\ u = Head(todo)
    /\ u \notin ToMark' =>
         \/ job \in Rewriting /\ u \notin ToMark /\ following'[u] = following[u]
         \/ WarmFollowing /\ u = Head(todo)

\* A user is written by the steps for that user only.
LEMMA JobFrame ==
    ASSUME WarmTypeInv, TodoInv, Job, job' \in Rewriting \union {"done"}, NEW u \in User
    PROVE  UserFrame(u)
<1>0. /\ timeline \in [User -> SUBSET Post] /\ following \in [User -> SUBSET Author]
      /\ todo \in Seq(User \union Author)
  BY DEF WarmTypeInv, TypeInv, TypeOK, JobType
<1>1. todo # <<>> => Range(todo) = {Head(todo)} \union Range(Tail(todo))
  BY <1>0, RangeFacts
<1>2. CASE ListUsers \/ ListFollows \/ JobFails \/ ResetTimelines \/ ResetFollowing \/ ResetCounts
  BY <1>2 DEF ListUsers, ListFollows, JobFails, ResetTimelines, ResetFollowing, ResetCounts, JobGo,
              Rewriting
<1>3. CASE RecentPostsPerAuthor
  <2>1. todo' = Accounts /\ job' = "users"
    BY <1>3 DEF RecentPostsPerAuthor, JobGo, Rewriting
  <2> QED
    BY <2>1, AccountsType DEF UserFrame, ToClear, ToList, ToMark
<1>4. CASE ResetCelebrityPosts
  <2>1. todo' = todo /\ job' = "users" /\ User \subseteq Range(todo)
    BY <1>4 DEF ResetCelebrityPosts, JobAt, JobGo, TodoInv, Resetting
  <2> QED
    BY <2>1 DEF UserFrame, ToClear, ToList, ToMark
<1>5. CASE DeleteUser
  <2>1. /\ job = "users" /\ job' = "timeline" /\ todo' = todo /\ todo # <<>>
        /\ timeline' = [timeline EXCEPT ![Head(todo)] = {}]
        /\ following' = [following EXCEPT ![Head(todo)] = {}]
    BY <1>5 DEF DeleteUser, Writing, JobAt, JobGo
  <2> QED
    BY <1>0, <1>1, <2>1 DEF UserFrame, ToClear, ToList, ToMark, Rewriting
<1>6. CASE WarmTimeline
  <2>1. /\ job = "timeline" /\ job' = "following" /\ todo' = todo /\ todo # <<>>
        /\ \A v \in User : v # Head(todo) => timeline'[v] = timeline[v]
        /\ UNCHANGED following
    BY <1>0, <1>6 DEF WarmTimeline, Writing, JobAt, JobGo
  <2> QED
    BY <1>1, <1>6, <2>1 DEF UserFrame, ToClear, ToList, ToMark, Rewriting
<1>7. CASE WarmFollowing
  <2>1. /\ job = "following" /\ job' = "count" /\ todo' = todo /\ todo # <<>>
        /\ \A v \in User : v # Head(todo) => following'[v] = following[v]
        /\ UNCHANGED timeline
    BY <1>0, <1>7 DEF WarmFollowing, Writing, JobAt, JobGo
  <2> QED
    BY <1>1, <1>7, <2>1 DEF UserFrame, ToClear, ToList, ToMark, Rewriting
<1>8. CASE WarmCount
  <2>1. /\ job = "count" \/ (job = "users" /\ u # Head(todo))
        /\ job' = "users" /\ todo' = Tail(todo) /\ todo # <<>>
        /\ UNCHANGED <<timeline, following>>
    BY <1>8 DEF WarmCount, Writing, JobAt, JobGo
  <2> QED
    BY <1>1, <2>1 DEF UserFrame, ToClear, ToList, ToMark, Rewriting
<1>9. CASE UsersWarmed \/ ReplaceCelebrityPosts
  <2>1. /\ job \in {"users", "celebrityPosts"} /\ job' \in {"celebrityPosts", "done"}
        /\ UNCHANGED <<todo, timeline, following>>
    BY <1>9 DEF UsersWarmed, ReplaceCelebrityPosts, JobAt, JobGo, vars, cache
  <2> QED
    BY <2>1 DEF UserFrame, ToClear, ToList, ToMark, Rewriting
<1> QED
  BY <1>2, <1>3, <1>4, <1>5, <1>6, <1>7, <1>8, <1>9 DEF Job

\* What was read is what the tables say, but for what committed since.
LEMMA JobRead ==
    ASSUME WarmTypeInv, ReadInv, Job
    PROVE  ReadInv'
<1>0. /\ UNCHANGED <<follows, author>> /\ \A a : PostsOf(a)' = PostsOf(a)
      /\ TypeInv /\ listed \in Listed
  BY JobLeaves DEF WarmTypeInv, JobType
<1>1. CASE ListUsers \/ JobFails \/ ReplaceCelebrityPosts
  BY <1>1 DEF ListUsers, JobFails, ReplaceCelebrityPosts, JobGo, ReadInv, Resetting, Rewriting
<1>2. CASE ListFollows
  <2>1. job' = "posts" /\ listed'.follows = follows
    BY <1>0, <1>2 DEF ListFollows, JobGo, Listed
  <2> QED
    BY <1>0, <2>1 DEF ReadInv, Resetting, Rewriting
<1>3. CASE RecentPostsPerAuthor
  <2>1. PICK m \in Nat : m >= MaxTimelineLen /\ m = Max({BackfillCount, MaxTimelineLen})
    <3>1. \E x \in {BackfillCount, MaxTimelineLen} : \A y \in {BackfillCount, MaxTimelineLen} : x >= y
      BY ConstantFacts
    <3>2. /\ Max({BackfillCount, MaxTimelineLen}) \in {BackfillCount, MaxTimelineLen}
          /\ Max({BackfillCount, MaxTimelineLen}) >= MaxTimelineLen
      BY <3>1 DEF Max
    <3> QED
      BY <3>2, ConstantFacts
  <2>2. /\ listed'.posts = UNION {Newest(m, PostsOf(a)) : a \in Author}
        /\ listed'.follows = listed.follows /\ job = "posts" /\ UNCHANGED <<missed, late>>
    BY <1>0, <1>3, <2>1 DEF RecentPostsPerAuthor, JobAt, Listed, history
  <2>3. \A u \in User, a \in Author :
            <<u, a>> \notin missed => (<<u, a>> \in listed.follows <=> <<u, a>> \in follows)
    BY <2>2 DEF ReadInv
  <2>4. listed'.posts \subseteq DOMAIN author
    BY <2>2 DEF Newest, PostsOf
  <2>5. ASSUME NEW a \in Author, NEW p \in PostsOf(a)
        PROVE  Kept(p, listed'.posts \intersect PostsOf(a))
    <3>1. listed'.posts \intersect PostsOf(a) = Newest(m, PostsOf(a))
      <4>1. \A b : Newest(m, PostsOf(b)) \subseteq PostsOf(b)
        BY DEF Newest
      <4>2. \A b : PostsOf(b) \intersect PostsOf(a) # {} => b = a
        BY DEF PostsOf
      <4> QED
        BY <2>2, <4>1, <4>2
    <3>2. Kept(p, Newest(m, PostsOf(a)))
      BY <1>0, <2>1, PostsOfType, NewestKeeps
    <3> QED
      BY <3>1, <3>2
  <2> QED
    BY <1>0, <2>2, <2>3, <2>4, <2>5 DEF ReadInv, Kept, Displaced
<1>4. CASE ~(ListUsers \/ JobFails \/ ReplaceCelebrityPosts \/ ListFollows \/ RecentPostsPerAuthor)
  <2>1. job \in Resetting \union Rewriting /\ UNCHANGED <<listed, missed, late>>
    BY <1>4, JobWrites
  <2> QED
    BY <1>0, <2>1 DEF ReadInv, Kept, Displaced
<1> QED
  BY <1>1, <1>2, <1>3, <1>4

\* Without a disturbance there is nothing to apply and nothing that was missed.
LEMMA JobCalm ==
    ASSUME WarmTypeInv, CalmInv, Job
    PROVE  CalmInv'
<1>0. /\ \A a : Quiet(a)' = Quiet(a) /\ FollowerCount(a)' = FollowerCount(a)
      /\ listed \in Listed
  BY JobLeaves DEF WarmTypeInv, JobType, Quiet, FollowerCount, FollowersOf, Outside
<1>1. CASE ListUsers
  <2>1. /\ calm' = \A a \in Author : Quiet(a)
        /\ missed' = {} /\ late' = {}
        /\ listed' = [NothingListed EXCEPT !.count = [a \in Author |-> FollowerCount(a)]]
    BY <1>1 DEF ListUsers
  <2>2. \A a \in Author : listed'.count[a] = FollowerCount(a)
    BY <2>1 DEF NothingListed
  <2> QED
    BY <1>0, <2>1, <2>2 DEF CalmInv
<1>2. CASE ListFollows \/ RecentPostsPerAuthor
  <2>1. /\ UNCHANGED <<calm, missed, late>> /\ listed'.count = listed.count
        /\ job \in {"follows", "posts"}
    BY <1>0, <1>2 DEF ListFollows, RecentPostsPerAuthor, JobAt, history, Listed
  <2> QED
    BY <1>0, <2>1 DEF CalmInv
<1>3. CASE JobFails \/ ReplaceCelebrityPosts
  <2>1. UNCHANGED <<calm, missed, late>> /\ job' \in {"failed", "done"}
    BY <1>3 DEF JobFails, ReplaceCelebrityPosts, JobGo, history
  <2> QED
    BY <1>0, <2>1 DEF CalmInv, Resetting, Rewriting
<1>4. CASE ~(ListUsers \/ JobFails \/ ReplaceCelebrityPosts \/ ListFollows \/ RecentPostsPerAuthor)
  <2>1. job \in Resetting \union Rewriting /\ UNCHANGED <<listed, calm, missed, late>>
    BY <1>4, JobWrites
  <2> QED
    BY <1>0, <2>1 DEF CalmInv
<1> QED
  BY <1>1, <1>2, <1>3, <1>4

\* The posts of some authors, and those among them that were read.
PostsBy(A) == {p \in DOMAIN author : author[p] \in A}
ReadBy(A) == {p \in listed.posts : author[p] \in A}

\* Of what was not late, the posts read keep all.
LEMMA ReadKeeps ==
    ASSUME WarmTypeInv, ReadInv, job \in Rewriting, NEW A \in SUBSET Author
    PROVE  /\ PostsBy(A) \in SUBSET Post /\ ReadBy(A) \in SUBSET PostsBy(A)
           /\ \A p \in PostsBy(A) \ late : Kept(p, ReadBy(A))
<1>1. listed.posts \subseteq DOMAIN author
  BY DEF ReadInv
<1>2. PostsBy(A) \in SUBSET Post
  <2>1. author \in Seq(Author) /\ Len(author) <= MaxPosts
    BY DEF WarmTypeInv, TypeInv, TypeOK, PostsInv
  <2>2. DOMAIN author = 1..Len(author) /\ Len(author) \in Nat
    BY <2>1
  <2> QED
    BY <2>1, <2>2, ConstantFacts DEF PostsBy, Post
<1>3. ReadBy(A) \in SUBSET PostsBy(A)
  BY <1>1 DEF ReadBy, PostsBy
<1>4. ASSUME NEW p \in PostsBy(A) \ late PROVE Kept(p, ReadBy(A))
  <2>1. PICK a \in A : a = author[p]
    BY DEF PostsBy
  <2>2. p \in PostsOf(a) \ late
    BY <2>1 DEF PostsBy, PostsOf
  <2>3. Kept(p, listed.posts \intersect PostsOf(a))
    BY <2>1, <2>2 DEF ReadInv
  <2>4. listed.posts \intersect PostsOf(a) \in SUBSET ReadBy(A)
    BY <2>1 DEF ReadBy, PostsOf
  <2>5. ReadBy(A) \in SUBSET Post
    BY <1>2, <1>3
  <2> QED
    BY <2>3, <2>4, <2>5, KeptGrows
<1> QED
  BY <1>2, <1>3, <1>4

\* Undisturbed, what the job computes from its reads is what the database says.
LEMMA ReadIsSql ==
    ASSUME WarmTypeInv, ReadInv, CalmInv, calm, job \in Rewriting
    PROVE  /\ \A u \in User : TimelinePosts(u) = SqlNormal(u)
           /\ \A u \in User : FolloweesOf(u) \intersect Celebrities = SqlFollowed(u)
           /\ CelebrityNewest = SqlCelebrity
<1>1. /\ missed = {} /\ late = {}
      /\ \A a \in Author : listed.count[a] = FollowerCount(a)
  BY DEF CalmInv
<1>2. Celebrities = {a \in Author : IsCelebrity(a)}
  BY <1>1 DEF Celebrities, IsCelebrity
<1>3. \A u \in User : FolloweesOf(u) = {a \in Author : <<u, a>> \in follows}
  BY <1>1 DEF ReadInv, FolloweesOf
<1>4. ASSUME NEW A \in SUBSET Author
      PROVE  Newest(MaxTimelineLen, ReadBy(A)) = Newest(MaxTimelineLen, PostsBy(A))
  <2>1. /\ PostsBy(A) \in SUBSET Post /\ ReadBy(A) \in SUBSET PostsBy(A)
        /\ \A p \in PostsBy(A) : Kept(p, ReadBy(A))
    BY <1>1, ReadKeeps
  <2> QED
    BY <2>1, KeptNewest
<1>5. \A p \in DOMAIN author : author[p] \in Author
  <2>1. author \in Seq(Author)
    BY DEF WarmTypeInv, TypeInv, TypeOK
  <2> QED
    BY <2>1
<1>6. ASSUME NEW u \in User PROVE TimelinePosts(u) = SqlNormal(u)
  <2> DEFINE A == {a \in Author : <<u, a>> \in follows /\ ~IsCelebrity(a)}
  <2>1. FolloweesOf(u) \ Celebrities = A
    BY <1>2, <1>3
  <2>2. PostsBy(A) = {p \in DOMAIN author : <<u, author[p]>> \in follows /\ ~IsCelebrity(author[p])}
    BY <1>5 DEF PostsBy
  <2>3. TimelinePosts(u) = Newest(MaxTimelineLen, ReadBy(A))
    BY <2>1 DEF TimelinePosts, ReadBy
  <2>4. SqlNormal(u) = Newest(MaxTimelineLen, PostsBy(A))
    BY <2>2 DEF SqlNormal
  <2> QED
    BY <1>4, <2>3, <2>4
<1>7. CelebrityNewest = SqlCelebrity
  <2>1. PostsBy(Celebrities) = {p \in DOMAIN author : IsCelebrity(author[p])}
    BY <1>2, <1>5 DEF PostsBy
  <2>2. CelebrityNewest = Newest(MaxTimelineLen, ReadBy(Celebrities))
    BY DEF CelebrityNewest, ReadBy
  <2>3. SqlCelebrity = Newest(MaxTimelineLen, PostsBy(Celebrities))
    BY <2>1 DEF SqlCelebrity
  <2>4. Celebrities \in SUBSET Author
    BY DEF Celebrities
  <2> QED
    BY <1>4, <2>2, <2>3, <2>4
<1> QED
  BY <1>2, <1>3, <1>6, <1>7 DEF SqlFollowed

\* Undisturbed, what the job writes is what the database says.
LEMMA JobWritten ==
    ASSUME RebuildInv, Job
    PROVE  WrittenInv'
<1> SUFFICES ASSUME calm', job' \in Rewriting \union {"done"} PROVE WrittenInv'
  BY DEF WrittenInv
<1>0. /\ WarmTypeInv /\ TodoInv /\ ReadInv /\ CalmInv
      /\ todo \in Seq(User \union Author)
      /\ timeline \in [User -> SUBSET Post] /\ following \in [User -> SUBSET Author]
  BY DEF RebuildInv, WarmTypeInv, JobType, TypeInv, TypeOK
<1>1. calm
  BY DEF Job, ListUsers, ListFollows, RecentPostsPerAuthor, ResetTimelines, ResetFollowing,
         ResetCounts, ResetCelebrityPosts, DeleteUser, WarmTimeline, WarmFollowing, WarmCount,
         UsersWarmed, ReplaceCelebrityPosts, JobFails, Writing, history, JobGo, Rewriting
<1>2. /\ \A u : SqlNormal(u)' = SqlNormal(u) /\ SqlFollowed(u)' = SqlFollowed(u)
      /\ SqlCelebrity' = SqlCelebrity
  BY JobLeaves DEF SqlNormal, SqlFollowed, SqlCelebrity, IsCelebrity, FollowerCount, FollowersOf,
                   Outside
<1>3. job \in Rewriting => WrittenInv
  BY DEF RebuildInv
<1>4. ASSUME NEW u \in User, u \notin ToList' PROVE timeline'[u] = SqlNormal(u)
  <2>1. CASE job \in Rewriting /\ u \notin ToList /\ timeline'[u] = timeline[u]
    BY <1>1, <1>3, <2>1 DEF WrittenInv
  <2>2. CASE WarmTimeline /\ u = Head(todo)
    <3>1. /\ job = "timeline"
          /\ timeline'[u] = Trimmed(timeline[u] \union TimelinePosts(u))
      BY <1>0, <2>2 DEF WarmTimeline, Writing, JobAt
    <3>2. timeline[u] = {}
      BY <1>1, <1>3, <2>2, <3>1 DEF WrittenInv, Rewriting
    <3>3. TimelinePosts(u) = SqlNormal(u)
      BY <1>0, <1>1, <3>1, ReadIsSql DEF Rewriting
    <3>4. Trimmed({} \union TimelinePosts(u)) = TimelinePosts(u)
      <4> DEFINE S == {p \in listed.posts : author[p] \in FolloweesOf(u) \ Celebrities}
      <4>1. S \in SUBSET Post
        BY <1>0 DEF WarmTypeInv, JobType, Listed
      <4>2. TimelinePosts(u) = Newest(MaxTimelineLen, S)
        BY DEF TimelinePosts
      <4> HIDE DEF S
      <4>3. {} \union TimelinePosts(u) = TimelinePosts(u)
        OBVIOUS
      <4> QED
        BY <4>1, <4>2, <4>3, NewestAgain DEF Trimmed
    <3> QED
      BY <3>1, <3>2, <3>3, <3>4
  <2> QED
    BY <1>0, <1>4, <2>1, <2>2, JobFrame DEF UserFrame
<1>5. ASSUME NEW u \in User, u \notin ToMark' PROVE following'[u] = SqlFollowed(u)
  <2>1. CASE job \in Rewriting /\ u \notin ToMark /\ following'[u] = following[u]
    BY <1>1, <1>3, <2>1 DEF WrittenInv
  <2>2. CASE WarmFollowing /\ u = Head(todo)
    <3>1. /\ job = "following"
          /\ following'[u] = following[u] \union (FolloweesOf(u) \intersect Celebrities)
      BY <1>0, <2>2 DEF WarmFollowing, Writing, JobAt
    <3>2. following[u] = {}
      BY <1>1, <1>3, <2>2, <3>1 DEF WrittenInv, Rewriting
    <3>3. FolloweesOf(u) \intersect Celebrities = SqlFollowed(u)
      BY <1>0, <1>1, <3>1, ReadIsSql DEF Rewriting
    <3> QED
      BY <3>1, <3>2, <3>3
  <2> QED
    BY <1>0, <1>5, <2>1, <2>2, JobFrame DEF UserFrame
<1>6. job' = "timeline" => timeline'[Head(todo')] = {} /\ following'[Head(todo')] = {}
  <2> SUFFICES ASSUME job' = "timeline" PROVE timeline'[Head(todo')] = {} /\ following'[Head(todo')] = {}
    OBVIOUS
  <2>1. DeleteUser
    BY DEF Job, ListUsers, ListFollows, RecentPostsPerAuthor, ResetTimelines, ResetFollowing,
           ResetCounts, ResetCelebrityPosts, WarmTimeline, WarmFollowing, WarmCount,
           UsersWarmed, ReplaceCelebrityPosts, JobFails, JobGo
  <2> QED
    BY <1>0, <2>1 DEF DeleteUser
<1>7. job' = "following" => following'[Head(todo')] = {}
  <2> SUFFICES ASSUME job' = "following" PROVE following'[Head(todo')] = {}
    OBVIOUS
  <2>1. WarmTimeline
    BY DEF Job, ListUsers, ListFollows, RecentPostsPerAuthor, ResetTimelines, ResetFollowing,
           ResetCounts, ResetCelebrityPosts, DeleteUser, WarmFollowing, WarmCount,
           UsersWarmed, ReplaceCelebrityPosts, JobFails, JobGo
  <2> QED
    BY <1>1, <1>3, <2>1 DEF WarmTimeline, Writing, JobAt, WrittenInv, Rewriting
<1>8. job' = "done" => celebrityPosts' = SqlCelebrity
  <2> SUFFICES ASSUME job' = "done" PROVE celebrityPosts' = SqlCelebrity
    OBVIOUS
  <2>1. ReplaceCelebrityPosts
    BY DEF Job, ListUsers, ListFollows, RecentPostsPerAuthor, ResetTimelines, ResetFollowing,
           ResetCounts, ResetCelebrityPosts, DeleteUser, WarmTimeline, WarmFollowing, WarmCount,
           UsersWarmed, JobFails, JobGo
  <2>2. job = "celebrityPosts" /\ celebrityPosts' = CelebrityNewest
    BY <2>1 DEF ReplaceCelebrityPosts, JobAt
  <2> QED
    BY <1>0, <1>1, <2>2, ReadIsSql DEF Rewriting
<1> QED
  BY <1>2, <1>4, <1>5, <1>6, <1>7, <1>8 DEF WrittenInv

-----------------------------------------------------------------------------
(* What the others' steps do. *)

\* Posts are only added.
LEMMA AuthorGrows ==
    ASSUME TypeInv, Next
    PROVE  /\ DOMAIN author \subseteq DOMAIN author'
           /\ \A p \in DOMAIN author : author'[p] = author[p]
<1>1. CASE UNCHANGED author
  BY <1>1
<1>2. ASSUME NEW a \in Author, CreatePost(a)
      PROVE  /\ DOMAIN author \subseteq DOMAIN author'
             /\ \A p \in DOMAIN author : author'[p] = author[p]
  BY <1>2, NewPost
<1>3. CASE \E a \in Author : CountExpires(a)
  BY <1>1, <1>3 DEF CountExpires, database
<1>4. CASE \E u \in User, a \in Author : Follow(u, a) \/ Unfollow(u, a)
  BY <1>1, <1>4 DEF Follow, Unfollow
<1>5. ASSUME NEW c \in Channel, Publish(c) \/ Step(c) \/ StartOver(c)
      PROVE  UNCHANGED author
  <2>1. CASE Publish(c) \/ Done(c)
    BY <2>1 DEF Publish, Done, database
  <2>2. CASE Handles(c)
    BY <2>2, HandlesLeaves
  <2> QED
    BY <1>5, <2>1, <2>2 DEF Step, Handles
<1> QED
  BY <1>1, <1>2, <1>3, <1>4, <1>5 DEF Next

\* With nothing to apply, and the tables, queues and handlers as they are, only a
\* cached count can have expired.
LEMMA QuietStep ==
    ASSUME TypeInv, \A a \in Author : Quiet(a), Next, UNCHANGED <<database, unsent, log, work>>
    PROVE  UNCHANGED <<timeline, celebrityPosts, following>>
<1>1. ASSUME NEW c \in Channel PROVE log[c] = <<>> /\ unsent[c] = <<>> /\ At(c, "idle")
  <2>1. log[c] = <<>> /\ unsent[c] = <<>>
    <3>1. PICK a \in Author, t \in {"post", "follow"} : c = <<a, t>>
      BY DEF Channel
    <3> QED
      BY <3>1 DEF Quiet
  <2> QED
    BY <2>1, StageKind
<1>2. ASSUME NEW a \in Author, CreatePost(a) PROVE FALSE
  <2>1. PICK n : n \in DOMAIN author' /\ n \notin DOMAIN author
    BY <1>2, NewPost
  <2> QED
    BY <2>1 DEF database
<1>3. ASSUME NEW u \in User, NEW a \in Author, Follow(u, a) \/ Unfollow(u, a) PROVE FALSE
  BY <1>3 DEF Follow, Unfollow, database
<1>4. ASSUME NEW c \in Channel, Publish(c) PROVE FALSE
  <2>1. PICK i : i \in DOMAIN unsent[c]
    BY <1>4 DEF Publish
  <2> QED
    BY <1>1, <2>1
<1>5. ASSUME NEW c \in Channel, Step(c) \/ StartOver(c) PROVE FALSE
  <2>1. ~Process(c)
    BY <1>1 DEF Process
  <2> QED
    BY <1>1, <1>5, <2>1
       DEF Step, StartOver, At, Invalidate, InvalidateAfter, Cached, Query, Store, AddCelebrityPost,
           FollowerIDs, FanoutPost, FanoutDone, AddCelebrityFollow, RemoveCelebrityFollow,
           RecentPosts, Backfill, Done
<1>6. CASE \E a \in Author : CountExpires(a)
  BY <1>6 DEF CountExpires
<1> QED
  BY <1>2, <1>3, <1>4, <1>5, <1>6 DEF Next

\* What was read is what the tables say, but for what committed since.
LEMMA OthersRead ==
    ASSUME WarmTypeInv, ReadInv, Others
    PROVE  ReadInv'
<1>0. /\ UNCHANGED <<job, listed, todo>> /\ Next /\ TypeInv
      /\ DOMAIN author \subseteq DOMAIN author'
      /\ \A p \in DOMAIN author : author'[p] = author[p]
  BY AuthorGrows DEF WarmTypeInv, Others, jobState
<1>1. ASSUME job \in {"posts"} \union Resetting \union Rewriting,
             NEW u \in User, NEW a \in Author, <<u, a>> \notin missed'
      PROVE  <<u, a>> \in listed.follows <=> <<u, a>> \in follows'
  <2>1. missed' = missed \union (follows \ follows') \union (follows' \ follows)
    BY <1>1 DEF Others, Resetting, Rewriting
  <2> QED
    BY <1>1, <2>1 DEF ReadInv
<1>2. ASSUME job \in Resetting \union Rewriting
      PROVE  /\ listed.posts \subseteq DOMAIN author'
             /\ \A a \in Author : \A p \in PostsOf(a)' \ late' :
                    Kept(p, listed.posts \intersect PostsOf(a)')
  <2>1. late' = late \union (DOMAIN author' \ DOMAIN author)
    BY <1>2 DEF Others, Resetting, Rewriting
  <2>2. listed.posts \subseteq DOMAIN author
    BY <1>2 DEF ReadInv
  <2>3. ASSUME NEW a \in Author, NEW p \in PostsOf(a)' \ late'
        PROVE  Kept(p, listed.posts \intersect PostsOf(a)')
    <3>1. p \in PostsOf(a) \ late
      BY <1>0, <2>1, <2>3 DEF PostsOf
    <3>2. listed.posts \intersect PostsOf(a)' = listed.posts \intersect PostsOf(a)
      BY <1>0, <2>2 DEF PostsOf
    <3>3. Kept(p, listed.posts \intersect PostsOf(a))
      BY <1>2, <3>1 DEF ReadInv
    <3> QED
      BY <3>2, <3>3
  <2> QED
    BY <1>0, <2>2, <2>3
<1> QED
  BY <1>0, <1>1, <1>2 DEF ReadInv, Kept, Displaced

\* A run that stays undisturbed keeps what was read and written.
LEMMA OthersCalm ==
    ASSUME RebuildInv, Others
    PROVE  CalmInv' /\ WrittenInv'
<1> SUFFICES ASSUME calm' PROVE CalmInv' /\ WrittenInv'
  BY DEF CalmInv, WrittenInv
<1>0. WarmTypeInv /\ TypeInv /\ CalmInv /\ WrittenInv
  BY DEF RebuildInv, WarmTypeInv
<1>1. /\ calm /\ UNCHANGED <<database, unsent, log, work>> /\ Next
      /\ UNCHANGED <<job, listed, todo, runs>>
  BY DEF Others, jobState
<1>2. UNCHANGED <<timeline, celebrityPosts, following>>
  BY <1>0, <1>1, QuietStep DEF CalmInv
<1>3. missed' = {} /\ late' = {}
  BY <1>0, <1>1 DEF Others, CalmInv, database
<1>4. /\ \A a : Quiet(a)' = Quiet(a) /\ FollowerCount(a)' = FollowerCount(a)
      /\ \A u : SqlNormal(u)' = SqlNormal(u) /\ SqlFollowed(u)' = SqlFollowed(u)
      /\ SqlCelebrity' = SqlCelebrity
  BY <1>1 DEF database, Quiet, SqlNormal, SqlFollowed, SqlCelebrity, IsCelebrity, FollowerCount,
              FollowersOf, Outside
<1>5. CalmInv'
  BY <1>0, <1>1, <1>3, <1>4 DEF CalmInv
<1>6. WrittenInv'
  BY <1>0, <1>1, <1>2, <1>4 DEF WrittenInv, ToList, ToMark
<1> QED
  BY <1>5, <1>6

-----------------------------------------------------------------------------
(* The rebuild. *)

\* The initial states satisfy the invariant.
LEMMA WarmInitRebuild == WarmInit => RebuildInv
<1> SUFFICES ASSUME WarmInit PROVE RebuildInv
  OBVIOUS
<1>1. job = "idle" /\ calm = FALSE
  BY DEF WarmInit
<1> QED
  BY <1>1, WarmInitType
     DEF RebuildInv, TodoInv, ReadInv, CalmInv, WrittenInv, Resetting, Rewriting

\* Every step keeps the invariant.
LEMMA WarmNextRebuild == RebuildInv /\ [WarmNext]_warmVars => RebuildInv'
<1> SUFFICES ASSUME RebuildInv, [WarmNext]_warmVars PROVE RebuildInv'
  OBVIOUS
<1>0. WarmTypeInv /\ TodoInv /\ ReadInv /\ CalmInv /\ WrittenInv /\ WarmTypeInv'
  BY WarmNextType DEF RebuildInv
<1>1. CASE Job
  BY <1>0, <1>1, JobTodo, JobRead, JobCalm, JobWritten DEF RebuildInv
<1>2. CASE Others
  <2>1. TodoInv'
    BY <1>0, <1>2 DEF Others, jobState, TodoInv
  <2> QED
    BY <1>0, <1>2, <2>1, OthersRead, OthersCalm DEF RebuildInv
<1>3. CASE UNCHANGED warmVars
  <2>1. UNCHANGED <<follows, author, unsent, log, timeline, celebrityPosts, following, job, listed,
                    todo, calm, missed, late>>
    BY <1>3 DEF warmVars, vars, database, cache, jobState, history
  <2>2. TodoInv'
    BY <1>0, <2>1 DEF TodoInv
  <2>3. ReadInv'
    BY <1>0, <2>1 DEF ReadInv, PostsOf, Kept, Displaced
  <2>4. CalmInv'
    BY <1>0, <2>1 DEF CalmInv, Quiet, FollowerCount, FollowersOf, Outside
  <2>5. /\ \A u : SqlNormal(u)' = SqlNormal(u) /\ SqlFollowed(u)' = SqlFollowed(u)
        /\ SqlCelebrity' = SqlCelebrity /\ ToList' = ToList /\ ToMark' = ToMark
    BY <2>1 DEF SqlNormal, SqlFollowed, SqlCelebrity, IsCelebrity, FollowerCount, FollowersOf,
                Outside, ToList, ToMark
  <2>6. WrittenInv'
    BY <1>0, <2>1, <2>5 DEF WrittenInv
  <2> QED
    BY <1>0, <2>2, <2>3, <2>4, <2>6 DEF RebuildInv
<1> QED
  BY <1>1, <1>2, <1>3 DEF WarmNext

\* After a run that nothing disturbed, timelines, markers and the celebrity stream
\* are what the SQL baseline reads, whatever leftovers, cleared keys and failed
\* runs came before, with any list lengths and wherever the threshold is.
THEOREM RebuildsBaseline == WarmSafety => []RebuiltIsBaseline
<1>1. RebuildInv => RebuiltIsBaseline
  <2> SUFFICES ASSUME RebuildInv, job = "done", calm
               PROVE  /\ celebrityPosts = SqlCelebrity
                      /\ \A u \in User : timeline[u] = SqlNormal(u) /\ following[u] = SqlFollowed(u)
    BY DEF RebuiltIsBaseline, JobAt
  <2>1. ToList = {} /\ ToMark = {}
    BY RangeEmpty DEF RebuildInv, TodoInv, ToList, ToMark
  <2> QED
    BY <2>1 DEF RebuildInv, WrittenInv
<1> QED
  BY <1>1, WarmInitRebuild, WarmNextRebuild, PTL DEF WarmSafety

-----------------------------------------------------------------------------
(* The overlap: the job's steps. *)

\* What HybridFanout keeps of a pair stays when its tables, queues and lists stay.
LEMMA PairSame ==
    ASSUME UNCHANGED <<follows, author, work, owed>>, \A c : Queue(c)' = Queue(c),
           NEW u \in User, NEW a \in Author
    PROVE  /\ following'[u] = following[u] => /\ MarkOf(u, a) => MarkOf(u, a)'
                                              /\ MarkedOf(u, a) => MarkedOf(u, a)'
           /\ timeline'[u] = timeline[u] =>
                \A p \in Post : /\ OwedOf(u, a, p) => OwedOf(u, a, p)'
                                /\ BackfillOf(u, a, p) => BackfillOf(u, a, p)'
<1>1. \A c, e, S : Coming(c, e, S)' = Coming(c, e, S)
  BY DEF Coming
<1>2. \A p : Fanned(u, a, p)' = Fanned(u, a, p) /\ Refilled(u, a, p)' = Refilled(u, a, p)
  BY <1>1 DEF Fanned, Refilled, Posted, Created
<1>3. PostsOf(a)' = PostsOf(a) /\ Newest(BackfillCount, PostsOf(a))' = Newest(BackfillCount, PostsOf(a))
  BY DEF PostsOf, Newest
<1>4. following'[u] = following[u] => MarkOf(u, a)' = MarkOf(u, a) /\ MarkedOf(u, a)' = MarkedOf(u, a)
  BY <1>1 DEF MarkOf, MarkedOf, Celebrity, Outside, Created, Deleted, Unmarked
<1>5. timeline'[u] = timeline[u] =>
        \A p \in Post : OwedOf(u, a, p)' = OwedOf(u, a, p) /\ BackfillOf(u, a, p)' = BackfillOf(u, a, p)
  BY <1>2, <1>3 DEF OwedOf, BackfillOf, Ordinary, Outside, Kept, Displaced
<1> QED
  BY <1>4, <1>5

\* The job writes only counts that it read, and those are on their sides.
LEMMA JobSide ==
    ASSUME WarmTypeInv, SideInv, ReadSideInv, Job
    PROVE  SideInv' /\ ReadSideInv'
<1>0. /\ count \in [Author -> Nat \union {-1}] /\ listed \in Listed
      /\ CountInv
  BY DEF WarmTypeInv, TypeInv, TypeOK, JobType, SideInv
<1>1. ReadSideInv'
  <2>1. CASE ListUsers
    <3>1. \A a \in Author : listed'.count[a] = FollowerCount(a)
      BY <2>1 DEF ListUsers, NothingListed
    <3> QED
      BY <3>1, FollowerCountOnSide DEF ReadSideInv, CountOnSide, Ordinary, Celebrity, Outside
  <2>2. CASE JobFails \/ ReplaceCelebrityPosts
    BY <2>2 DEF JobFails, ReplaceCelebrityPosts, JobGo, ReadSideInv, Resetting, Rewriting
  <2>3. CASE ListFollows \/ RecentPostsPerAuthor
    <3>1. listed'.count = listed.count /\ job \in {"follows", "posts"}
      BY <1>0, <2>3 DEF ListFollows, RecentPostsPerAuthor, JobAt, Listed
    <3> QED
      BY <3>1 DEF ReadSideInv, CountOnSide, Ordinary, Celebrity, Outside
  <2>4. CASE ~(ListUsers \/ JobFails \/ ReplaceCelebrityPosts \/ ListFollows \/ RecentPostsPerAuthor)
    <3>1. job \in Resetting \union Rewriting /\ UNCHANGED listed
      BY <2>4, JobWrites
    <3> QED
      BY <3>1 DEF ReadSideInv, CountOnSide, Ordinary, Celebrity, Outside
  <2> QED
    BY <2>1, <2>2, <2>3, <2>4
<1>2. CountInv'
  <2>1. CASE UNCHANGED count
    BY <1>0, <2>1, CountSame
  <2>2. CASE ResetCounts
    BY <2>2 DEF ResetCounts, CountInv
  <2>3. CASE WarmCount
    <3>1. /\ \A a \in Author : count'[a] = listed.count[a] \/ count'[a] = count[a]
          /\ job \in Rewriting
      BY <2>3 DEF WarmCount, Writing, JobAt, Rewriting
    <3>2. \A a \in Author : CountOnSide(a, listed.count[a])
      BY <3>1 DEF ReadSideInv
    <3> QED
      BY <1>0, <3>1, <3>2 DEF CountInv, CountOnSide, Ordinary, Celebrity, Outside
  <2> QED
    BY <2>1, <2>2, <2>3
       DEF Job, ListUsers, ListFollows, RecentPostsPerAuthor, ResetTimelines, ResetFollowing,
           ResetCelebrityPosts, DeleteUser, WarmTimeline, WarmFollowing,
           UsersWarmed, ReplaceCelebrityPosts, JobFails, vars, cache
<1>3. ASSUME NEW c \in Channel PROVE OnSide(AuthorOf(c), work[c])'
  BY JobLeaves DEF SideInv, OnSide, AuthorOf, Ordinary, Celebrity, CountOnSide, Outside
<1> QED
  BY <1>1, <1>2, <1>3 DEF SideInv

\* Ordinary authors are not taken for celebrities, nor celebrities for ordinary authors.
LEMMA ReadSides ==
    ASSUME WarmTypeInv, ReadSideInv, job \in Rewriting, NEW a \in Author
    PROVE  /\ Ordinary(a) => a \notin Celebrities
           /\ Celebrity(a) => a \in Celebrities
<1>1. CountOnSide(a, listed.count[a]) /\ listed.count[a] \in Nat
  BY DEF ReadSideInv, WarmTypeInv, JobType, Listed
<1> QED
  BY <1>1, ConstantFacts DEF CountOnSide, Celebrities, ShouldFanoutOnWrite

\* A timeline is rewritten with every post of the ordinary followees, but for what
\* was late or displaced.
LEMMA TimelineKeeps ==
    ASSUME WarmTypeInv, ReadInv, ReadSideInv, WarmTimeline, Head(todo) \in User,
           NEW a \in Author, Ordinary(a), <<Head(todo), a>> \in follows, <<Head(todo), a>> \notin missed,
           NEW p \in PostsOf(a) \ late
    PROVE  Kept(p, timeline'[Head(todo)])
<1> DEFINE u == Head(todo)
           A == FolloweesOf(u) \ Celebrities
           T == TimelinePosts(u)
<1>1. /\ timeline' = [timeline EXCEPT ![u] = Trimmed(timeline[u] \union T)]
      /\ job \in Rewriting /\ timeline \in [User -> SUBSET Post]
  BY DEF WarmTimeline, Writing, JobAt, Rewriting, WarmTypeInv, TypeInv, TypeOK
<1>2. a \in A
  <2>1. <<u, a>> \in listed.follows
    BY <1>1 DEF ReadInv
  <2>2. a \notin Celebrities
    BY <1>1, ReadSides
  <2> QED
    BY <2>1, <2>2 DEF FolloweesOf
<1>3. p \in PostsBy(A) \ late /\ A \in SUBSET Author
  BY <1>2 DEF PostsOf, PostsBy, FolloweesOf
<1>4. /\ ReadBy(A) \in SUBSET Post /\ p \in Post /\ Kept(p, ReadBy(A))
  <2> HIDE DEF A
  <2> QED
    BY <1>1, <1>3, ReadKeeps
<1>5. T = Trimmed(ReadBy(A) \union {}) /\ T \in SUBSET Post
  <2>1. ReadBy(A) \union {} = ReadBy(A)
    OBVIOUS
  <2>2. T = Newest(MaxTimelineLen, ReadBy(A))
    BY DEF TimelinePosts, ReadBy
  <2> QED
    BY <1>4, <2>1, <2>2 DEF Trimmed, Newest
<1>6. Kept(p, T)
  <2> HIDE DEF A, T
  <2> QED
    BY <1>4, <1>5, TrimKeeps
<1>7. Kept(p, Trimmed(T \union timeline[u]))
  <2> HIDE DEF T
  <2> QED
    BY <1>1, <1>4, <1>5, <1>6, TrimKeeps
<1>8. T \union timeline[u] = timeline[u] \union T
  OBVIOUS
<1> QED
  BY <1>1, <1>7, <1>8

\* The job leaves no written user with a marker without a follow, ...
LEMMA JobCleared ==
    ASSUME RebuildInv, ClearedInv, Job
    PROVE  ClearedInv'
<1> SUFFICES ASSUME job' \in Rewriting \union {"done"}, NEW u \in User, u \notin ToClear',
                    NEW a \in Author, <<u, a>> \notin missed'
             PROVE  MarkOf(u, a)'
  BY DEF ClearedInv
<1>0. /\ WarmTypeInv /\ TodoInv /\ ReadInv /\ UNCHANGED <<follows, author, work, owed>>
      /\ \A c : Queue(c)' = Queue(c)
      /\ following \in [User -> SUBSET Author]
  BY JobLeaves DEF RebuildInv, WarmTypeInv, TypeInv, TypeOK
<1>1. UNCHANGED missed
  BY DEF Job, ListUsers, ListFollows, RecentPostsPerAuthor, ResetTimelines, ResetFollowing,
         ResetCounts, ResetCelebrityPosts, DeleteUser, WarmTimeline, WarmFollowing, WarmCount,
         UsersWarmed, ReplaceCelebrityPosts, JobFails, Writing, history, JobGo, Rewriting
<1>2. CASE job \in Rewriting /\ u \notin ToClear /\ following'[u] = following[u]
  BY <1>0, <1>1, <1>2, PairSame DEF ClearedInv
<1>3. CASE following'[u] = {}
  BY <1>3 DEF MarkOf
<1>4. CASE WarmFollowing /\ u = Head(todo) /\ u \notin ToClear
  <2>1. /\ job = "following"
        /\ following'[u] = following[u] \union (FolloweesOf(u) \intersect Celebrities)
    BY <1>0, <1>4 DEF WarmFollowing, Writing, JobAt
  <2>2. CASE a \in FolloweesOf(u)
    <3>1. <<u, a>> \in follows
      BY <1>0, <1>1, <2>1, <2>2 DEF ReadInv, Rewriting, FolloweesOf
    <3> QED
      BY <1>0, <3>1 DEF MarkOf
  <2>3. CASE a \notin FolloweesOf(u)
    <3>1. MarkOf(u, a)
      BY <1>1, <1>4, <2>1 DEF ClearedInv, Rewriting
    <3>2. a \in following'[u] => a \in following[u]
      BY <2>1, <2>3
    <3> QED
      BY <1>0, <3>1, <3>2 DEF MarkOf, Coming, Deleted, Unmarked
  <2> QED
    BY <2>2, <2>3
<1> QED
  BY <1>0, <1>2, <1>3, <1>4, JobFrame DEF UserFrame

\* ... and no follower of a celebrity unmarked, ...
LEMMA JobMarked ==
    ASSUME RebuildInv, ReadSideInv, WarmMarkedInv, Job
    PROVE  WarmMarkedInv'
<1> SUFFICES ASSUME job' \in Rewriting \union {"done"}, NEW u \in User, u \notin ToMark',
                    NEW a \in Author, <<u, a>> \notin missed'
             PROVE  MarkedOf(u, a)'
  BY DEF WarmMarkedInv
<1>0. /\ WarmTypeInv /\ TodoInv /\ ReadInv /\ UNCHANGED <<follows, author, work, owed>>
      /\ \A c : Queue(c)' = Queue(c)
      /\ following \in [User -> SUBSET Author]
  BY JobLeaves DEF RebuildInv, WarmTypeInv, TypeInv, TypeOK
<1>1. UNCHANGED missed
  BY DEF Job, ListUsers, ListFollows, RecentPostsPerAuthor, ResetTimelines, ResetFollowing,
         ResetCounts, ResetCelebrityPosts, DeleteUser, WarmTimeline, WarmFollowing, WarmCount,
         UsersWarmed, ReplaceCelebrityPosts, JobFails, Writing, history, JobGo, Rewriting
<1>2. CASE job \in Rewriting /\ u \notin ToMark /\ following'[u] = following[u]
  BY <1>0, <1>1, <1>2, PairSame DEF WarmMarkedInv
<1>3. CASE WarmFollowing /\ u = Head(todo)
  <2>1. /\ job = "following"
        /\ following'[u] = following[u] \union (FolloweesOf(u) \intersect Celebrities)
    BY <1>0, <1>3 DEF WarmFollowing, Writing, JobAt
  <2>2. Celebrity(a) /\ <<u, a>> \in follows => a \in following'[u]
    <3>1. <<u, a>> \in follows => a \in FolloweesOf(u)
      BY <1>0, <1>1, <2>1 DEF ReadInv, Rewriting, FolloweesOf
    <3>2. Celebrity(a) => a \in Celebrities
      BY <1>0, <2>1, ReadSides DEF Rewriting
    <3> QED
      BY <2>1, <3>1, <3>2
  <2> QED
    BY <1>0, <2>2 DEF MarkedOf, Celebrity, Outside
<1> QED
  BY <1>0, <1>2, <1>3, JobFrame DEF UserFrame

\* ... and no post of an ordinary author missing, ...
LEMMA JobOwed ==
    ASSUME RebuildInv, ReadSideInv, OwedFollows, WarmOwedInv, Job
    PROVE  WarmOwedInv'
<1> SUFFICES ASSUME job' \in Rewriting \union {"done"}, NEW u \in User, u \notin ToList',
                    NEW a \in Author, <<u, a>> \notin missed', NEW p \in Post, p \notin late'
             PROVE  OwedOf(u, a, p)' /\ BackfillOf(u, a, p)'
  BY DEF WarmOwedInv
<1>0. /\ WarmTypeInv /\ TodoInv /\ ReadInv /\ UNCHANGED <<follows, author, work, owed>>
      /\ \A c : Queue(c)' = Queue(c)
  BY JobLeaves DEF RebuildInv
<1>1. UNCHANGED <<missed, late>>
  BY DEF Job, ListUsers, ListFollows, RecentPostsPerAuthor, ResetTimelines, ResetFollowing,
         ResetCounts, ResetCelebrityPosts, DeleteUser, WarmTimeline, WarmFollowing, WarmCount,
         UsersWarmed, ReplaceCelebrityPosts, JobFails, Writing, history, JobGo, Rewriting
<1>2. CASE job \in Rewriting /\ u \notin ToList /\ timeline'[u] = timeline[u]
  BY <1>0, <1>1, <1>2, PairSame DEF WarmOwedInv
<1>3. CASE WarmTimeline /\ u = Head(todo)
  <2>1. p \in PostsOf(a) /\ Ordinary(a) /\ <<u, a>> \in follows => Kept(p, timeline'[u])
    BY <1>0, <1>1, <1>3, TimelineKeeps
  <2>2. p \in owed[u] \intersect PostsOf(a) => <<u, a>> \in follows
    BY DEF OwedFollows
  <2>3. p \in Newest(BackfillCount, PostsOf(a)) => p \in PostsOf(a)
    BY DEF Newest
  <2>4. PostsOf(a)' = PostsOf(a) /\ Newest(BackfillCount, PostsOf(a))' = Newest(BackfillCount, PostsOf(a))
    BY <1>0 DEF PostsOf, Newest
  <2> QED
    BY <1>0, <2>1, <2>2, <2>3, <2>4 DEF OwedOf, BackfillOf, Ordinary, Outside, Kept, Displaced
<1> QED
  BY <1>0, <1>2, <1>3, JobFrame DEF UserFrame

\* ... and no post of a celebrity missing from the stream.
LEMMA JobListed ==
    ASSUME RebuildInv, ReadSideInv, Job
    PROVE  WarmListedInv'
<1> SUFFICES ASSUME job' = "done", NEW a \in Author, NEW p \in Post, p \notin late',
                    p \in PostsOf(a), Celebrity(a)
             PROVE  Kept(p, celebrityPosts')
  BY JobLeaves DEF WarmListedInv, ListedOf, Celebrity, Outside, Kept, Displaced
<1>1. ReplaceCelebrityPosts
  BY DEF Job, ListUsers, ListFollows, RecentPostsPerAuthor, ResetTimelines, ResetFollowing,
         ResetCounts, ResetCelebrityPosts, DeleteUser, WarmTimeline, WarmFollowing, WarmCount,
         UsersWarmed, JobFails, JobGo
<1>2. /\ job \in Rewriting /\ celebrityPosts' = CelebrityNewest /\ late' = late
      /\ WarmTypeInv /\ ReadInv
  BY <1>1 DEF ReplaceCelebrityPosts, JobAt, Rewriting, history, RebuildInv
<1>3. a \in Celebrities
  BY <1>2, ReadSides
<1>4. p \in PostsBy(Celebrities) \ late /\ Celebrities \in SUBSET Author
  BY <1>2, <1>3 DEF PostsBy, PostsOf, Celebrities
<1>5. ReadBy(Celebrities) \in SUBSET Post /\ Kept(p, ReadBy(Celebrities))
  BY <1>2, <1>4, ReadKeeps
<1>6. ReadBy(Celebrities) \union {} = ReadBy(Celebrities)
  OBVIOUS
<1>7. Kept(p, Trimmed(ReadBy(Celebrities)))
  BY <1>5, <1>6, TrimKeeps
<1>8. CelebrityNewest = Trimmed(ReadBy(Celebrities))
  BY DEF CelebrityNewest, Trimmed, ReadBy
<1> QED
  BY <1>2, <1>7, <1>8

\* The job's steps keep the invariant.
LEMMA JobOverlap ==
    ASSUME OverlapInv, Job
    PROVE  OverlapInv'
<1>0. /\ RebuildInv /\ RebuildInv' /\ WarmTypeInv /\ OrderedInv /\ SideInv /\ ReadSideInv /\ OwedFollows
      /\ ClearedInv /\ WarmMarkedInv /\ WarmOwedInv
  BY WarmNextRebuild DEF OverlapInv, RebuildInv, WarmNext
<1>1. /\ UNCHANGED <<follows, author, owed>>
      /\ \A c : Queue(c)' = Queue(c)
  BY <1>0, JobLeaves
<1>2. OrderedInv'
  BY <1>0, <1>1, OrderedSame
<1>3. OwedFollows'
  BY <1>0, <1>1 DEF OwedFollows, PostsOf
<1>4. SideInv' /\ ReadSideInv'
  BY <1>0, JobSide
<1>5. ClearedInv' /\ WarmMarkedInv' /\ WarmOwedInv' /\ WarmListedInv'
  BY <1>0, JobCleared, JobMarked, JobOwed, JobListed
<1> QED
  BY <1>0, <1>2, <1>3, <1>4, <1>5 DEF OverlapInv

-----------------------------------------------------------------------------
(* The overlap: the worker's steps and the database's. *)

\* Beside the job, what holds of a pair goes on holding as it does without a job.
LEMMA OthersOverlap ==
    ASSUME ~Reordering, OverlapInv, RebuildInv', [Next]_vars, UNCHANGED <<job, listed, todo>>,
           missed \subseteq missed', late \subseteq late'
    PROVE  OverlapInv'
<1>0. /\ TypeInv /\ OrderedInv /\ SideInv /\ ReadSideInv /\ OwedFollows
      /\ ClearedInv /\ WarmMarkedInv /\ WarmOwedInv /\ WarmListedInv
  BY DEF OverlapInv, RebuildInv, WarmTypeInv
<1>1. OrderedInv' /\ SideInv' /\ OwedFollows'
  BY <1>0, NextOrderedInv, NextSideInv, NextOwedFollows
<1>2. ReadSideInv'
  BY <1>0 DEF ReadSideInv, CountOnSide, Ordinary, Celebrity, Outside
<1>3. ToClear' = ToClear /\ ToList' = ToList /\ ToMark' = ToMark
  BY DEF ToClear, ToList, ToMark
<1>4. ClearedInv'
  <2> SUFFICES ASSUME job \in Rewriting \union {"done"}, NEW u \in User \ ToClear, NEW a \in Author,
                      <<u, a>> \notin missed'
               PROVE  MarkOf(u, a)'
    BY <1>3 DEF ClearedInv
  <2>1. MarkOf(u, a)
    BY <1>0 DEF ClearedInv
  <2> QED
    BY <1>0, <2>1, NextMarkOf
<1>5. WarmMarkedInv'
  <2> SUFFICES ASSUME job \in Rewriting \union {"done"}, NEW u \in User \ ToMark, NEW a \in Author,
                      <<u, a>> \notin missed'
               PROVE  MarkedOf(u, a)'
    BY <1>3 DEF WarmMarkedInv
  <2>1. MarkedOf(u, a)
    BY <1>0 DEF WarmMarkedInv
  <2> QED
    BY <1>0, <2>1, NextMarkedOf
<1>6. WarmOwedInv'
  <2> SUFFICES ASSUME job \in Rewriting \union {"done"}, NEW u \in User \ ToList, NEW a \in Author,
                      <<u, a>> \notin missed', NEW p \in Post \ late'
               PROVE  OwedOf(u, a, p)' /\ BackfillOf(u, a, p)'
    BY <1>3 DEF WarmOwedInv
  <2>1. OwedOf(u, a, p) /\ BackfillOf(u, a, p)
    BY <1>0 DEF WarmOwedInv
  <2> QED
    BY <1>0, <2>1, NextOwedOf, NextBackfillOf
<1>7. WarmListedInv'
  <2> SUFFICES ASSUME job = "done", NEW a \in Author, NEW p \in Post \ late'
               PROVE  ListedOf(a, p)'
    BY DEF WarmListedInv
  <2>1. ListedOf(a, p)
    BY <1>0 DEF WarmListedInv
  <2> QED
    BY <1>0, <2>1, NextListedOf
<1> QED
  BY <1>1, <1>2, <1>4, <1>5, <1>6, <1>7 DEF OverlapInv

\* The database is filled, the queues are empty and no run has begun.
LEMMA WarmInitOverlap == WarmInit => OverlapInv
<1> SUFFICES ASSUME WarmInit PROVE OverlapInv
  OBVIOUS
<1>0. job = "idle" /\ RebuildInv
  BY WarmInitRebuild DEF WarmInit
<1>1. OrderedInv
  <2>1. \A u, k : Answered(<<>>, u, k)
    BY DEF Answered
  <2>2. ASSUME NEW a \in Author PROVE Queue(<<a, "follow">>) = <<>>
    <3>1. <<a, "follow">> \in Channel
      BY ChannelsOfAuthor
    <3>2. TypeInv /\ log[<<a, "follow">>] = <<>> /\ unsent[<<a, "follow">>] = <<>>
      BY <1>0, <3>1 DEF WarmInit, RebuildInv, WarmTypeInv
    <3> QED
      BY <3>1, <3>2, QueueType
  <2> QED
    BY <2>1, <2>2 DEF OrderedInv
<1>2. SideInv
  BY CommonStage DEF WarmInit, NoWork, Working, SideInv, CountInv
<1>3. OwedFollows
  BY DEF WarmInit, OwedFollows, PostsOf
<1> QED
  BY <1>0, <1>1, <1>2, <1>3
     DEF OverlapInv, ReadSideInv, ClearedInv, WarmMarkedInv, WarmOwedInv, WarmListedInv, Resetting,
         Rewriting

\* Every step keeps the invariant.
LEMMA WarmNextOverlap ==
    ASSUME ~Reordering, OverlapInv, [WarmNext]_warmVars
    PROVE  OverlapInv'
<1>0. RebuildInv'
  BY WarmNextRebuild DEF OverlapInv
<1>1. CASE Job
  BY <1>1, JobOverlap
<1>2. CASE Others
  <2>1. Next /\ UNCHANGED <<job, listed, todo>> /\ missed \subseteq missed' /\ late \subseteq late'
    BY <1>2 DEF Others, jobState
  <2> QED
    BY <1>0, <2>1, OthersOverlap
<1>3. CASE UNCHANGED warmVars
  <2>1. UNCHANGED <<vars, job, listed, todo, missed, late>>
    BY <1>3 DEF warmVars, jobState, history
  <2> QED
    BY <1>0, <2>1, OthersOverlap
<1> QED
  BY <1>1, <1>2, <1>3 DEF WarmNext

\* At the end of a run everybody is written, and a quiet author has nothing on its way.
LEMMA OverlapIsDamage ==
    ASSUME NoCrossing, OverlapInv
    PROVE  DamageIsOverlap
<1> SUFFICES ASSUME NEW u \in User, NEW a \in Author, job = "done", Quiet(a), <<u, a>> \notin missed
             PROVE  IF <<u, a>> \in follows
                    THEN \A p \in (owed[u] \intersect PostsOf(a)) \union Newest(BackfillCount, PostsOf(a)) :
                            p \in late \/ Served(u, p)
                    ELSE a \notin following[u]
  BY DEF DamageIsOverlap, JobAt
<1>0. /\ TypeInv /\ TodoInv /\ ClearedInv /\ WarmMarkedInv /\ WarmOwedInv /\ WarmListedInv
      /\ ToClear = {} /\ ToList = {} /\ ToMark = {}
  <2>1. /\ TypeInv /\ TodoInv /\ ClearedInv /\ WarmMarkedInv /\ WarmOwedInv /\ WarmListedInv
    BY DEF OverlapInv, RebuildInv, WarmTypeInv
  <2> QED
    BY <2>1, RangeEmpty DEF TodoInv, ToClear, ToList, ToMark
<1>1. Queue(<<a, "post">>) = <<>> /\ Queue(<<a, "follow">>) = <<>>
  BY <1>0, QueueType, ChannelsOfAuthor DEF Quiet
<1>2. \A e, S : ~Coming(<<a, "post">>, e, S) /\ ~Coming(<<a, "follow">>, e, S)
  <2>1. Len(<<>>) = 0
    OBVIOUS
  <2> QED
    BY <1>1, <2>1 DEF Coming, IsFirst, IsBehind
<1>3. CASE <<u, a>> \notin follows
  <2>1. MarkOf(u, a)
    BY <1>0 DEF ClearedInv
  <2> QED
    BY <1>2, <1>3, <2>1 DEF MarkOf
<1>4. CASE <<u, a>> \in follows
  <2> SUFFICES ASSUME NEW p \in (owed[u] \intersect PostsOf(a)) \union Newest(BackfillCount, PostsOf(a)),
                      p \notin late
               PROVE  Served(u, p)
    BY <1>4
  <2>1. p \in PostsOf(a) /\ author[p] = a
    BY DEF Newest, PostsOf
  <2>2. p \in Post \ late
    BY <1>0, <2>1, PostsOfType
  <2>3. ~Fanned(u, a, p) /\ ~Refilled(u, a, p)
    BY <1>1, <1>2 DEF Fanned, Refilled, IsFirst
  <2>4. CASE Ordinary(a)
    <3>1. OwedOf(u, a, p) /\ BackfillOf(u, a, p)
      BY <1>0, <2>2 DEF WarmOwedInv
    <3>2. p \in owed[u] => Kept(p, timeline[u])
      BY <2>1, <2>3, <2>4, <3>1 DEF OwedOf
    <3>3. p \in Newest(BackfillCount, PostsOf(a)) => p \in owed[u] \/ Kept(p, timeline[u])
      BY <1>4, <2>3, <2>4, <3>1 DEF BackfillOf
    <3> QED
      BY <2>1, <2>4, <3>2, <3>3, KeptIsServed
  <2>5. CASE Celebrity(a)
    <3>1. ListedOf(a, p) /\ MarkedOf(u, a)
      BY <1>0, <2>2 DEF WarmListedInv, WarmMarkedInv
    <3>2. Kept(p, celebrityPosts)
      BY <1>2, <2>1, <2>5, <3>1 DEF ListedOf
    <3>3. a \in following[u]
      BY <1>2, <1>4, <2>5, <3>1 DEF MarkedOf
    <3> QED
      BY <2>1, <2>5, <3>2, <3>3, KeptIsServed
  <2> QED
    BY <2>4, <2>5 DEF NoCrossing
<1> QED
  BY <1>3, <1>4

\* A run that ends loses no post and no marker, and brings back no marker, but of
\* what committed between its reads and its end: for any number of posts, users and
\* runs, whatever earlier runs, lost events and handlers that failed have left, as
\* long as requests publish in the order of their commits and no author can cross
\* the threshold.
THEOREM DamageBounded == NoCrossing /\ ~Reordering => (WarmSafety => []DamageIsOverlap)
<1> SUFFICES ASSUME NoCrossing, ~Reordering PROVE WarmSafety => []DamageIsOverlap
  OBVIOUS
<1>1. OverlapInv /\ [WarmNext]_warmVars => OverlapInv'
  BY WarmNextOverlap
<1>2. OverlapInv => DamageIsOverlap
  BY OverlapIsDamage
<1> QED
  BY <1>1, <1>2, WarmInitOverlap, PTL DEF WarmSafety
===============================================================================
