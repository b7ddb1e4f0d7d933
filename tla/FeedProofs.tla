------------------------------ MODULE FeedProofs ------------------------------
(***************************************************************************)
(* What follows from the promise of a feed alone, and so holds of whatever *)
(* implements it.                                                          *)
(***************************************************************************)
EXTENDS Feed, FiniteSetTheorems, TLAPS

-----------------------------------------------------------------------------
(* The invariant. *)

AuthorsInv == author \in Seq(Author)

\* The pairs that are followed or have been.
EverInv == follows \subseteq ever

\* What is shown has been asked for.
InvitedInv == \A u \in User : \A p \in shown[u] : p \in DOMAIN author /\ <<u, author[p]>> \in ever

\* What is past has enough newer posts.
FadedInv == \A u \in User : \A p \in past[u] : p \in DOMAIN author /\ Newer(p) >= MaxTimelineLen

\* The feeds stay complete once they have caught up.
CaughtUp == \A a \in Author \ behind : Complete(a)

FeedsInv ==
    /\ AuthorsInv
    /\ owed \in [User -> SUBSET Nat]
    /\ leaving \subseteq User \X Author
    /\ EverInv
    /\ InvitedInv
    /\ FadedInv
    /\ CaughtUp

\* What a follower has been promised of an author.
Promised(u, a) == (owed[u] \intersect PostsOf(a)) \union Newest(BackfillCount, PostsOf(a))

-----------------------------------------------------------------------------
(* Posts. *)

\* A new post comes after all others.
LEMMA NewPost ==
  ASSUME AuthorsInv, NEW a \in Author, author' = Append(author, a), NEW n, n = Len(author')
  PROVE  /\ author' \in Seq(Author)
         /\ n \in Nat /\ n \notin DOMAIN author
         /\ DOMAIN author' = DOMAIN author \union {n}
         /\ author'[n] = a
         /\ \A p \in DOMAIN author : author'[p] = author[p]
BY DEF AuthorsInv

\* There are only more newer posts.
LEMMA NewerGrows ==
  ASSUME AuthorsInv, AuthorsInv', DOMAIN author \subseteq DOMAIN author', NEW p
  PROVE  Newer(p) \in Nat /\ Newer(p)' \in Nat /\ Newer(p) <= Newer(p)'
<1> DEFINE S == {q \in DOMAIN author : q > p}
           T == {q \in DOMAIN author' : q > p}
<1>1. IsFiniteSet(DOMAIN author')
  <2>1. DOMAIN author' = 1..Len(author') /\ Len(author') \in Nat
    BY DEF AuthorsInv
  <2> QED
    BY <2>1, FS_Interval
<1>2. IsFiniteSet(T) /\ S \subseteq T
  BY <1>1, FS_Subset
<1>3. IsFiniteSet(S) /\ Cardinality(S) <= Cardinality(T)
  BY <1>2, FS_Subset
<1>4. Cardinality(S) \in Nat /\ Cardinality(T) \in Nat
  BY <1>2, <1>3, FS_CardinalityType
<1> QED
  BY <1>3, <1>4 DEF Newer

\* Displaced posts stay so as posts are added.
LEMMA StaysFaded ==
  ASSUME AuthorsInv, AuthorsInv', DOMAIN author \subseteq DOMAIN author', FadedInv,
         MaxTimelineLen \in Nat, NEW u \in User, NEW p \in past[u]
  PROVE  p \in DOMAIN author' /\ Newer(p)' >= MaxTimelineLen
<1>1. p \in DOMAIN author /\ Newer(p) >= MaxTimelineLen
  BY DEF FadedInv
<1> QED
  BY <1>1, NewerGrows

\* What a follower is promised of an author are posts of the author.
LEMMA PromisedFacts ==
  ASSUME NEW u \in User, NEW a \in Author
  PROVE  \A p \in Promised(u, a) : p \in DOMAIN author /\ author[p] = a
BY DEF Promised, Newest, PostsOf

\* An author's feeds are complete as long as nothing about the author changes.
LEMMA StaysComplete ==
  ASSUME NEW a \in Author, Complete(a), UNCHANGED feeds, PostsOf(a)' = PostsOf(a),
         \A u \in User : /\ <<u, a>> \in leaving' => <<u, a>> \in leaving
                         /\ <<u, a>> \in follows' => <<u, a>> \in follows
                         /\ owed'[u] \intersect PostsOf(a) \subseteq owed[u]
  PROVE  Complete(a)'
<1>1. shown' = shown /\ past' = past
  BY DEF feeds
<1>2. Newest(BackfillCount, PostsOf(a))' = Newest(BackfillCount, PostsOf(a))
  BY DEF Newest
<1> QED
  BY <1>1, <1>2 DEF Complete

-----------------------------------------------------------------------------
(* The invariance. *)

\* The feeds are empty at the start, and nobody is promised anything.
LEMMA InitFeeds == Init => FeedsInv
<1> SUFFICES ASSUME Init PROVE FeedsInv
  OBVIOUS
<1>1. \A a \in Author : Complete(a)
  BY DEF Init, Complete
<1> QED
  BY <1>1 DEF Init, FeedsInv, AuthorsInv, EverInv, InvitedInv, FadedInv, CaughtUp

\* Every step keeps the feeds as promised.
LEMMA NextFeeds == MaxTimelineLen \in Nat /\ FeedsInv /\ [Next]_vars => FeedsInv'
<1> SUFFICES ASSUME MaxTimelineLen \in Nat, FeedsInv, [Next]_vars PROVE FeedsInv'
  OBVIOUS
<1>1. ASSUME NEW b \in Author, CreatePost(b) PROVE FeedsInv'
  <2>0. PICK n : n = Len(author')
    OBVIOUS
  <2>1. /\ AuthorsInv' /\ n \in Nat /\ n \notin DOMAIN author
        /\ DOMAIN author' = DOMAIN author \union {n} /\ author'[n] = b
        /\ \A p \in DOMAIN author : author'[p] = author[p]
    BY <1>1, <2>0, NewPost DEF CreatePost, FeedsInv, AuthorsInv
  <2>2. /\ owed' \in [User -> SUBSET Nat]
        /\ \A u \in User : owed'[u] \subseteq owed[u] \union {n}
    BY <1>1, <2>0, <2>1 DEF CreatePost, FeedsInv
  <2>3. InvitedInv'
    BY <1>1, <2>1 DEF CreatePost, feeds, FeedsInv, InvitedInv
  <2>4. FadedInv'
    BY <1>1, <2>1, StaysFaded DEF CreatePost, feeds, FeedsInv, FadedInv
  <2>5. CaughtUp'
    <3> SUFFICES ASSUME NEW a \in Author, a \notin behind' PROVE Complete(a)'
      BY DEF CaughtUp
    <3>1. a # b /\ Complete(a)
      BY <1>1 DEF CreatePost, FeedsInv, CaughtUp
    <3>2. PostsOf(a)' = PostsOf(a) /\ n \notin PostsOf(a)
      BY <2>1, <3>1 DEF PostsOf
    <3> QED
      BY <1>1, <2>2, <3>1, <3>2, StaysComplete DEF CreatePost
  <2> QED
    BY <1>1, <2>1, <2>2, <2>3, <2>4, <2>5 DEF CreatePost, FeedsInv, EverInv
<1>2. ASSUME NEW v \in User, NEW b \in Author, Follow(v, b) \/ Unfollow(v, b) PROVE FeedsInv'
  <2>1. /\ UNCHANGED <<author, feeds>> /\ behind' = behind \union {b}
        /\ follows' \subseteq follows \union {<<v, b>>}
        /\ leaving' \subseteq leaving \union {<<v, b>>}
        /\ ever \subseteq ever' /\ follows' \subseteq ever'
    BY <1>2 DEF Follow, Unfollow, FeedsInv, EverInv
  <2>2. owed' \in [User -> SUBSET Nat] /\ \A u \in User : owed'[u] \subseteq owed[u]
    BY <1>2 DEF Follow, Unfollow, FeedsInv
  <2>3. AuthorsInv' /\ EverInv' /\ InvitedInv' /\ FadedInv'
    BY <2>1 DEF FeedsInv, AuthorsInv, EverInv, InvitedInv, FadedInv, feeds, Newer
  <2>4. CaughtUp'
    <3> SUFFICES ASSUME NEW a \in Author, a \notin behind' PROVE Complete(a)'
      BY DEF CaughtUp
    <3>1. a # b /\ Complete(a)
      BY <2>1 DEF FeedsInv, CaughtUp
    <3>2. PostsOf(a)' = PostsOf(a)
      BY <2>1 DEF PostsOf
    <3> QED
      BY <2>1, <2>2, <3>1, <3>2, StaysComplete
  <2> QED
    BY <2>1, <2>2, <2>3, <2>4 DEF FeedsInv
<1>3. CASE Serve
  <2>1. UNCHANGED <<follows, author, ever, owed>> /\ behind' \subseteq behind /\ leaving' \subseteq leaving
    BY <1>3 DEF Serve
  <2>2. \A u \in User : Keeps(u) /\ Fades(u) /\ Gains(u)
    BY <1>3 DEF Serve
  <2>3. InvitedInv'
    BY <2>1, <2>2 DEF FeedsInv, InvitedInv, Gains
  <2>4. FadedInv'
    BY <2>1, <2>2 DEF FeedsInv, FadedInv, Fades, Newer
  <2>5. CaughtUp'
    <3> SUFFICES ASSUME NEW a \in Author, a \notin behind', a \notin behind PROVE Complete(a)'
      BY <1>3 DEF CaughtUp, Serve
    <3>1. Complete(a)
      BY DEF FeedsInv, CaughtUp
    <3>2. ASSUME NEW u \in User, <<u, a>> \in follows, NEW p \in Promised(u, a)
          PROVE  p \in shown'[u] \union past'[u]
      <4>1. p \in shown[u] \union past[u] /\ <<u, a>> \notin leaving
        BY <3>1, <3>2 DEF Complete, Promised
      <4>2. author[p] = a
        BY <3>2, PromisedFacts
      <4> QED
        BY <2>2, <4>1, <4>2 DEF Keeps
    <3>3. \A u \in User : <<u, a>> \notin leaving'
      BY <2>1, <3>1 DEF Complete
    <3>4. \A u \in User : Promised(u, a)' = Promised(u, a)
      BY <2>1 DEF Promised, PostsOf, Newest
    <3> QED
      BY <2>1, <3>2, <3>3, <3>4 DEF Complete, Promised
  <2> QED
    BY <2>1, <2>3, <2>4, <2>5 DEF FeedsInv, AuthorsInv, EverInv
<1>4. CASE UNCHANGED vars
  <2>1. AuthorsInv' /\ EverInv' /\ InvitedInv' /\ FadedInv'
    BY <1>4 DEF vars, feeds, FeedsInv, AuthorsInv, EverInv, InvitedInv, FadedInv, Newer
  <2>2. \A a \in Author : PostsOf(a)' = PostsOf(a)
    BY <1>4 DEF vars, PostsOf
  <2>3. CaughtUp'
    BY <1>4, <2>2, StaysComplete DEF vars, feeds, FeedsInv, CaughtUp
  <2> QED
    BY <1>4, <2>1, <2>3 DEF vars, FeedsInv
<1> QED
  BY <1>1, <1>2, <1>3, <1>4 DEF Next

-----------------------------------------------------------------------------
(* What a user may rely on. *)

\* Once the feeds have caught up with an author, and until the author changes something
\* again, each follower is shown every post promised that is not displaced by as many
\* newer posts as a list holds, whatever the other authors and users do meanwhile.
THEOREM FollowersAreShown ==
  MaxTimelineLen \in Nat =>
      (Spec => [](\A a \in Author \ behind, u \in User :
                     <<u, a>> \in follows =>
                         \A p \in Promised(u, a) : p \in shown[u] \/ Newer(p) >= MaxTimelineLen))
<1> SUFFICES ASSUME MaxTimelineLen \in Nat
             PROVE  Spec => [](\A a \in Author \ behind, u \in User :
                                 <<u, a>> \in follows =>
                                     \A p \in Promised(u, a) : p \in shown[u] \/ Newer(p) >= MaxTimelineLen)
  OBVIOUS
<1>1. FeedsInv => \A a \in Author \ behind, u \in User :
                    <<u, a>> \in follows =>
                        \A p \in Promised(u, a) : p \in shown[u] \/ Newer(p) >= MaxTimelineLen
  BY DEF FeedsInv, CaughtUp, Complete, FadedInv, Promised
<1>2. FeedsInv /\ [Next]_vars => FeedsInv'
  BY NextFeeds
<1> QED
  BY <1>1, <1>2, InitFeeds, PTL DEF Spec

\* Nobody is shown a post of an author he never followed.
THEOREM OnlyInvitedShown == MaxTimelineLen \in Nat => (Spec => []InvitedInv)
<1> SUFFICES ASSUME MaxTimelineLen \in Nat PROVE Spec => []InvitedInv
  OBVIOUS
<1>1. FeedsInv => InvitedInv
  BY DEF FeedsInv
<1>2. FeedsInv /\ [Next]_vars => FeedsInv'
  BY NextFeeds
<1> QED
  BY <1>1, <1>2, InitFeeds, PTL DEF Spec

\* A post that leaves a feed has as many newer posts as a list holds, or its author was
\* unfollowed and the feed has still to apply that.
THEOREM OnlyOldOrLeft ==
  MaxTimelineLen \in Nat =>
      (Spec => [][\A u \in User : \A p \in shown[u] \ shown'[u] :
                     Newer(p)' >= MaxTimelineLen \/ <<u, author[p]>> \in leaving]_vars)
<1> SUFFICES ASSUME MaxTimelineLen \in Nat
             PROVE  Spec => [][\A u \in User : \A p \in shown[u] \ shown'[u] :
                                 Newer(p)' >= MaxTimelineLen \/ <<u, author[p]>> \in leaving]_vars
  OBVIOUS
<1>1. ASSUME FeedsInv', [Next]_vars
      PROVE  [\A u \in User : \A p \in shown[u] \ shown'[u] :
                Newer(p)' >= MaxTimelineLen \/ <<u, author[p]>> \in leaving]_vars
  <2> SUFFICES ASSUME Next, NEW u \in User, NEW p \in shown[u] \ shown'[u]
               PROVE  Newer(p)' >= MaxTimelineLen \/ <<u, author[p]>> \in leaving
    BY <1>1 DEF vars
  <2>1. Serve
    BY DEF Next, CreatePost, Follow, Unfollow, feeds
  <2>2. p \in past'[u] \/ <<u, author[p]>> \in leaving
    BY <2>1 DEF Serve, Keeps
  <2> QED
    BY <1>1, <2>2 DEF FeedsInv, FadedInv
<1>2. FeedsInv /\ [Next]_vars => FeedsInv'
  BY NextFeeds
<1> QED
  BY <1>1, <1>2, InitFeeds, PTL DEF Spec
===============================================================================
