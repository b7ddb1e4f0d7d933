---------------------------- MODULE SocialGraph ----------------------------
(***************************************************************************)
(* Follow and unfollow in social-graph-service (follow/FollowService.java, *)
(* user/User.java): concurrent transactions that lock the followee's row,  *)
(* check the follows table, change it together with the denormalised       *)
(* follower_count and is_celebrity, commit, and publish the event after    *)
(* the commit, when the lock is already gone.                              *)
(*                                                                         *)
(* One element of Txn is a request thread of some instance of the service. *)
(* Postgres (READ COMMITTED, row locks) is external: what a transaction    *)
(* wrote becomes visible when it commits, a locked row is read fresh.      *)
(***************************************************************************)
EXTENDS Integers, Sequences, FiniteSets

CONSTANTS
    User,
    Txn,          \* request threads
    NoTxn,        \* the holder of an unlocked row
    Threshold,    \* cascade.celebrity-threshold
    MaxRequests,  \* bound: requests begun
    MaxFailures   \* bound: rollbacks and lost publishes

ASSUME ConstantsAssumption ==
    /\ NoTxn \notin Txn
    /\ Threshold \in Nat \ {0}
    /\ MaxRequests \in Nat
    /\ MaxFailures \in Nat

VARIABLES
    follows,        \* table follows: pairs <<follower, followee>>
    followerCount,  \* users.follower_count
    celebrity,      \* users.is_celebrity
    lock,           \* per users row, the transaction that locked it for update
    stage,          \* where each request is
    request,        \* what each request asks: [op, follower, followee]
    loaded,         \* follower_count of the entity each request loaded
    committed,      \* history: per followee, the events of committed changes
    published,      \* per followee, its part of the follow-events log
    requests, failures  \* bound counters

tables == <<follows, followerCount, celebrity>>
vars == <<tables, lock, stage, request, loaded, committed, published, requests, failures>>

Request == [op : {"follow", "unfollow"}, follower : User, followee : User]

Stage == {"idle", "locking", "checking", "writing", "publishing"}

TypeOK ==
    /\ follows \in SUBSET (User \X User)
    /\ followerCount \in [User -> Nat]
    /\ celebrity \in [User -> BOOLEAN]
    /\ lock \in [User -> Txn \union {NoTxn}]
    /\ stage \in [Txn -> Stage]
    /\ request \in [Txn -> Request]
    /\ loaded \in [Txn -> Nat]
    /\ committed \in [User -> Seq(Request)]
    /\ published \in [User -> Seq(Request)]
    /\ requests \in 0..MaxRequests
    /\ failures \in 0..MaxFailures

Init ==
    /\ follows = {}
    /\ followerCount = [u \in User |-> 0]
    /\ celebrity = [u \in User |-> FALSE]
    /\ lock = [u \in User |-> NoTxn]
    /\ stage = [t \in Txn |-> "idle"]
    /\ \E r \in Request : request = [t \in Txn |-> r]
    /\ loaded = [t \in Txn |-> 0]
    /\ committed = [u \in User |-> <<>>]
    /\ published = [u \in User |-> <<>>]
    /\ requests = 0
    /\ failures = 0

FollowersOf(u) == {f \in User : <<f, u>> \in follows}

Row(t) == request[t].followee
Pair(t) == <<request[t].follower, request[t].followee>>

\* The transaction ends and its row lock goes with it.
Unlock(t) == lock' = [lock EXCEPT ![Row(t)] = NoTxn]

Enter(t, s) == stage' = [stage EXCEPT ![t] = s]

Fail == failures < MaxFailures /\ failures' = failures + 1

-----------------------------------------------------------------------------
\* POST /follows or DELETE /follows/..: a request for two different users
\* (validateDifferentUsers).  Users exist and are never deleted, so requireUser
\* and lockUser find them.
Begin(t) ==
    /\ stage[t] = "idle"
    /\ requests < MaxRequests
    /\ \E r \in Request : /\ r.follower # r.followee
                          /\ request' = [request EXCEPT ![t] = r]
    /\ requests' = requests + 1
    /\ Enter(t, "locking")
    /\ UNCHANGED <<tables, lock, loaded, committed, published, failures>>

\* MUTANT: the followee is loaded with findById, without the lock.
LoadUnlocked(t) ==
    /\ stage[t] = "locking"
    /\ loaded' = [loaded EXCEPT ![t] = followerCount[Row(t)]]
    /\ Enter(t, "checking")
    /\ UNCHANGED <<tables, lock, request, committed, published, requests, failures>>

\* findByIdForUpdate: waits for the row, then loads its current values.
LockUser(t) ==
    /\ stage[t] = "locking"
    /\ lock[Row(t)] = NoTxn
    /\ lock' = [lock EXCEPT ![Row(t)] = t]
    /\ loaded' = [loaded EXCEPT ![t] = followerCount[Row(t)]]
    /\ Enter(t, "checking")
    /\ UNCHANGED <<tables, request, committed, published, requests, failures>>

\* Whether the pair's row has to be there for the request to go on.
Applicable(t) == (Pair(t) \in follows) = (request[t].op = "unfollow")

\* existsById and findById: the request's precondition holds.
Check(t) ==
    /\ stage[t] = "checking"
    /\ Applicable(t)
    /\ Enter(t, "writing")
    /\ UNCHANGED <<tables, lock, request, loaded, committed, published, requests, failures>>

\* MUTANT: the exception path leaves the row locked.
RejectLocked(t) ==
    /\ stage[t] = "checking"
    /\ ~Applicable(t)
    /\ Enter(t, "idle")
    /\ UNCHANGED <<tables, lock, request, loaded, committed, published, requests, failures>>

\* ConflictException or NotFoundException: the transaction rolls back.
Reject(t) ==
    /\ stage[t] = "checking"
    /\ ~Applicable(t)
    /\ Unlock(t)
    /\ Enter(t, "idle")
    /\ UNCHANGED <<tables, request, loaded, committed, published, requests, failures>>

\* MUTANT: the decrement forgets to recompute is_celebrity.
NewStateKeepingFlag(t) ==
    LET n == IF request[t].op = "follow" THEN loaded[t] + 1
             ELSE IF loaded[t] = 0 THEN 0 ELSE loaded[t] - 1
    IN  [count |-> n,
         celebrity |-> celebrity[Row(t)] \/ n >= Threshold]

\* MUTANT: the two methods swapped.
NewStateSwapped(t) ==
    LET n == IF request[t].op = "unfollow" THEN loaded[t] + 1 ELSE loaded[t] - 1
    IN  [count |-> n, celebrity |-> n >= Threshold]

\* incrementFollowers and decrementFollowers on the loaded entity.
NewState(t) ==
    LET n == IF request[t].op = "follow" THEN loaded[t] + 1
             ELSE IF loaded[t] = 0 THEN 0 ELSE loaded[t] - 1
    IN  [count |-> n, celebrity |-> n >= Threshold]

\* The insert or delete, the update of the followee's row and the commit.
Commit(t) ==
    /\ stage[t] = "writing"
    /\ follows' = IF request[t].op = "follow" THEN follows \union {Pair(t)}
                                              ELSE follows \ {Pair(t)}
    /\ followerCount' = [followerCount EXCEPT ![Row(t)] = NewState(t).count]
    /\ celebrity' = [celebrity EXCEPT ![Row(t)] = NewState(t).celebrity]
    /\ committed' = [committed EXCEPT ![Row(t)] = Append(@, request[t])]
    /\ Unlock(t)
    /\ Enter(t, "publishing")
    /\ UNCHANGED <<request, loaded, published, requests, failures>>

\* MUTANT: the event is sent after the transaction, whether or not it committed.
RollbackAnnounced(t) ==
    /\ stage[t] \in {"locking", "checking", "writing"}
    /\ Fail
    /\ lock' = [u \in User |-> IF lock[u] = t THEN NoTxn ELSE lock[u]]
    /\ Enter(t, "publishing")
    /\ UNCHANGED <<tables, request, loaded, committed, published, requests>>

\* The database fails, or the process dies, before the commit.
Rollback(t) ==
    /\ stage[t] \in {"locking", "checking", "writing"}
    /\ Fail
    /\ lock' = [u \in User |-> IF lock[u] = t THEN NoTxn ELSE lock[u]]
    /\ Enter(t, "idle")
    /\ UNCHANGED <<tables, request, loaded, committed, published, requests>>

\* MUTANT: the event is sent when it is registered, before the commit.
PublishEarly(t) ==
    /\ stage[t] \in {"writing", "publishing"}
    /\ published' = [published EXCEPT ![Row(t)] = Append(@, request[t])]
    /\ Enter(t, IF stage[t] = "publishing" THEN "idle" ELSE "writing")
    /\ Len(published[Row(t)]) < MaxRequests
    /\ UNCHANGED <<tables, lock, request, loaded, committed, requests, failures>>

\* afterCommit: the event reaches the partition of its followee's key.  The row
\* lock is gone, so the event of a later commit may have been there first:
\* HybridFanout takes this as its constant Reordering.
Publish(t) ==
    /\ stage[t] = "publishing"
    /\ published' = [published EXCEPT ![Row(t)] = Append(@, request[t])]
    /\ Enter(t, "idle")
    /\ UNCHANGED <<tables, lock, request, loaded, committed, requests, failures>>

\* The send fails and is logged, or the process dies after its commit.
PublishLost(t) ==
    /\ stage[t] = "publishing"
    /\ Fail
    /\ Enter(t, "idle")
    /\ UNCHANGED <<tables, lock, request, loaded, committed, published, requests>>

-----------------------------------------------------------------------------
Step(t) == LockUser(t) \/ Check(t) \/ Reject(t) \/ Commit(t) \/ Publish(t)

Next == \E t \in Txn : Begin(t) \/ Step(t) \/ Rollback(t) \/ PublishLost(t)

Safety == Init /\ [][Next]_vars

\* A request thread runs until its request is done, and Postgres grants a free
\* row lock to each waiting transaction in turn.
Fairness == \A t \in Txn : WF_vars(Step(t)) /\ SF_vars(LockUser(t))

Spec == Safety /\ Fairness

-----------------------------------------------------------------------------
(* Properties. *)

\* users.follower_count is the number of follows rows of the user and
\* is_celebrity says whether it reached the threshold, whatever requests for the
\* same followee overlap (User.java:67-75 under the lock of FollowService.java:49).
CountMatchesFollowers ==
    \A u \in User : /\ followerCount[u] = Cardinality(FollowersOf(u))
                    /\ celebrity[u] = (followerCount[u] >= Threshold)

\* What a request read under the lock is still true when it writes: the insert
\* meets no duplicate (the catch at FollowService.java:58 never runs), the
\* delete finds its row, and the count it increments is the current one.
ReadsStillHold ==
    \A t \in Txn : stage[t] = "writing" => /\ Applicable(t)
                                           /\ loaded[t] = followerCount[Row(t)]

Count(r, s) == Cardinality({i \in DOMAIN s : s[i] = r})

\* The log never holds more events of a change than commits of it: nothing is
\* announced before, or without, its commit (publishAfterCommit).
OnlyCommittedPublished ==
    \A u \in User : \A r \in Request : Count(r, published[u]) <= Count(r, committed[u])

\* Every request comes to an end: no lock is leaked, nobody waits for ever.
EveryRequestEnds == \A t \in Txn : stage[t] # "idle" ~> stage[t] = "idle"

\* SocialGraph as seen by FollowGraph: a request past its commit has an event to send.
Unsent == {<<t, request[t]>> : t \in {x \in Txn : stage[x] = "publishing"}}

Promise == INSTANCE FollowGraph WITH Sender <- Txn, unsent <- Unsent

\* Overlapping transactions, with their locks, rollbacks and early returns, are one
\* change of the graph each, count and flag included, and one event that is sent at
\* most once (FollowService.java:45-81, 128-148).
GraphKept == Promise!Spec
=============================================================================
