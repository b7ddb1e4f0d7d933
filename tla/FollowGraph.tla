------------------------------ MODULE FollowGraph ------------------------------
(***************************************************************************)
(* What the follow service promises to its users and to the worker, with   *)
(* the row locks, the transactions and their rollbacks left out: a follow  *)
(* or an unfollow happens at once, to the pair, the count and the flag     *)
(* together, and leaves one event with whoever asked for it.  That event   *)
(* is sent once or lost; events of one followee may be sent in any order.  *)
(***************************************************************************)
EXTENDS Integers, Sequences

CONSTANTS User, Sender, Threshold

VARIABLES
    follows,        \* who follows whom: pairs <<follower, followee>>
    followerCount,  \* per user, the number of followers
    celebrity,      \* per user, whether it has reached the threshold
    unsent,         \* pairs <<sender, event>>: the changes not yet announced
    published       \* per followee, the events announced

vars == <<follows, followerCount, celebrity, unsent, published>>

Init ==
    /\ follows = {}
    /\ followerCount = [u \in User |-> 0]
    /\ celebrity = [u \in User |-> FALSE]
    /\ unsent = {}
    /\ published = [u \in User |-> <<>>]

Event(op, f, u) == [op |-> op, follower |-> f, followee |-> u]

Counted(u, n) ==
    /\ n >= 0
    /\ followerCount' = [followerCount EXCEPT ![u] = n]
    /\ celebrity' = [celebrity EXCEPT ![u] = n >= Threshold]

\* A sender has one change to announce at a time.
Owes(s, e) ==
    /\ \A owing \in unsent : owing[1] # s
    /\ unsent' = unsent \union {<<s, e>>}

Follow(s, f, u) ==
    /\ f # u
    /\ <<f, u>> \notin follows
    /\ follows' = follows \union {<<f, u>>}
    /\ Counted(u, followerCount[u] + 1)
    /\ Owes(s, Event("follow", f, u))
    /\ UNCHANGED published

Unfollow(s, f, u) ==
    /\ <<f, u>> \in follows
    /\ follows' = follows \ {<<f, u>>}
    /\ Counted(u, followerCount[u] - 1)
    /\ Owes(s, Event("unfollow", f, u))
    /\ UNCHANGED published

Lose(s) ==
    /\ unsent' = {owing \in unsent : owing[1] # s}
    /\ UNCHANGED <<follows, followerCount, celebrity, published>>

Publish(s) ==
    /\ \E owing \in unsent :
         /\ owing[1] = s
         /\ published' = [published EXCEPT ![owing[2].followee] = Append(@, owing[2])]
    /\ unsent' = {owing \in unsent : owing[1] # s}
    /\ UNCHANGED <<follows, followerCount, celebrity>>

Next ==
    \E s \in Sender : \/ \E f, u \in User : Follow(s, f, u) \/ Unfollow(s, f, u)
                      \/ Publish(s) \/ Lose(s)

Spec == Init /\ [][Next]_vars
===============================================================================
