------------------------------ MODULE FeedReadMC ------------------------------
(* A small table of posts: 1 and 2 have the same creation time, 2 and 3 change *)
(* places as the recency of 3 decays, and the viewer's like of 1 leaves the    *)
(* window.                                                                     *)
EXTENDS FeedRead

MCAuthorOf == [p \in Post |-> IF p = 1 THEN "a" ELSE "c"]
MCCreated == [p \in Post |-> IF p <= 2 THEN 0 ELSE p - 2]
MCEngagements == {[post |-> 1, user |-> "u", type |-> "like", at |-> 0],
                  [post |-> 2, user |-> "x", type |-> "comment", at |-> 1]}
MCRecencyScore == [age \in 0..MaxTime |-> CASE age = 0 -> 4 [] age = 1 -> 2 [] OTHER -> 1]
MCEngagementScore == [n \in 0..4 |-> IF n = 0 THEN 0 ELSE 1]
===============================================================================
