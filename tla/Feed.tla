--------------------------------- MODULE Feed ---------------------------------
(***************************************************************************)
(* What a user may expect of a feed, with the worker, its events, its      *)
(* lists and the threshold left out: the follows and the posts change at   *)
(* once, and the feeds come after.  Until they have caught up with an      *)
(* author they may lack his newest posts; from then on each follower has   *)
(* every post made while following, and the newest at the follow, until    *)
(* newer ones displace it.  Nobody is shown an author he never followed,   *)
(* and nobody loses a post but to newer ones or by an unfollow.            *)
(***************************************************************************)
EXTENDS Naturals, Sequences, FiniteSets

CONSTANTS
    User,
    Author,
    BackfillCount,  \* how many older posts of an author a new follower gets
    MaxTimelineLen  \* how many newer posts it takes to displace one

VARIABLES
    follows,  \* who follows whom: pairs <<user, author>>
    author,   \* the author of each post, in order of creation
    ever,     \* who has ever followed whom
    owed,     \* per user, the posts of authors followed ever since
    behind,   \* the authors that the feeds have still to catch up with
    leaving,  \* the pairs whose unfollow the feeds have still to apply
    shown,    \* per user, the posts of the feed
    past      \* per user, the posts that newer ones displace

vars == <<follows, author, ever, owed, behind, leaving, shown, past>>
feeds == <<shown, past>>

Init ==
    /\ follows = {}
    /\ author = <<>>
    /\ ever = {}
    /\ owed = [u \in User |-> {}]
    /\ behind = {}
    /\ leaving = {}
    /\ shown = [u \in User |-> {}]
    /\ past = [u \in User |-> {}]

PostsOf(a) == {p \in DOMAIN author : author[p] = a}
Newest(n, ps) == {p \in ps : Cardinality({q \in ps : q > p}) < n}

CreatePost(a) ==
    /\ author' = Append(author, a)
    /\ owed' = [u \in User |-> IF <<u, a>> \in follows THEN owed[u] \union {Len(author')} ELSE owed[u]]
    /\ behind' = behind \union {a}
    /\ UNCHANGED <<follows, ever, leaving, feeds>>

Follow(u, a) ==
    /\ <<u, a>> \notin follows
    /\ follows' = follows \union {<<u, a>>}
    /\ ever' = ever \union {<<u, a>>}
    /\ behind' = behind \union {a}
    /\ UNCHANGED <<author, owed, leaving, feeds>>

Unfollow(u, a) ==
    /\ <<u, a>> \in follows
    /\ follows' = follows \ {<<u, a>>}
    /\ owed' = [owed EXCEPT ![u] = @ \ PostsOf(a)]
    /\ behind' = behind \union {a}
    /\ leaving' = leaving \union {<<u, a>>}
    /\ UNCHANGED <<author, ever, feeds>>

\* How many posts are newer.
Newer(p) == Cardinality({q \in DOMAIN author : q > p})

\* A feed loses posts to newer ones, or by an unfollow.
Keeps(u) ==
    /\ \A p \in shown[u] \ (shown'[u] \union past'[u]) : <<u, author[p]>> \in leaving
    /\ past[u] \subseteq past'[u]

\* It takes enough newer posts to displace one.
Fades(u) == \A p \in past'[u] \ past[u] : p \in DOMAIN author /\ Newer(p) >= MaxTimelineLen

\* What it gains are new posts of authors once followed.
Gains(u) ==
    \A p \in shown'[u] \ shown[u] :
        p \in DOMAIN author /\ author[p] \in behind /\ <<u, author[p]>> \in ever

\* The feeds have caught up with an author.
Complete(a) ==
    \A u \in User : /\ <<u, a>> \notin leaving
                    /\ <<u, a>> \in follows =>
                         (owed[u] \intersect PostsOf(a)) \union Newest(BackfillCount, PostsOf(a))
                             \subseteq shown[u] \union past[u]

\* The feeds get on.
Serve ==
    /\ UNCHANGED <<follows, author, ever, owed>>
    /\ behind' \subseteq behind
    /\ leaving' \subseteq leaving
    /\ \A u \in User : Keeps(u) /\ Fades(u) /\ Gains(u)
    /\ \A a \in behind \ behind' : Complete(a)'

Next ==
    \/ \E a \in Author : CreatePost(a)
    \/ \E u \in User, a \in Author : Follow(u, a) \/ Unfollow(u, a)
    \/ Serve

Spec == Init /\ [][Next]_vars
===============================================================================
