------------------------- MODULE SocialGraphProofs -------------------------
(***************************************************************************)
(* Proofs about SocialGraph, for any number of users and request threads   *)
(* and any celebrity threshold.                                            *)
(***************************************************************************)
EXTENDS SocialGraph, FiniteSetTheorems, TLAPS

-----------------------------------------------------------------------------
(* Facts about the pieces the actions share. *)

\* The types of a request and of what it names.
LEMMA RequestType ==
  ASSUME TypeOK, NEW t \in Txn
  PROVE  /\ request[t] \in Request
         /\ Row(t) \in User
         /\ request[t].follower \in User
         /\ request[t].op \in {"follow", "unfollow"}
         /\ Pair(t) \in User \X User
         /\ loaded[t] \in Nat
<1>1. request[t] \in Request /\ loaded[t] \in Nat
  BY DEF TypeOK
<1>2. QED
  BY <1>1 DEF Request, Row, Pair

\* The followee's new count and flag have their types.
LEMMA NewStateType ==
  ASSUME TypeOK, NEW t \in Txn
  PROVE  NewState(t).count \in Nat /\ NewState(t).celebrity \in BOOLEAN
BY RequestType, ConstantsAssumption DEF NewState

-----------------------------------------------------------------------------
(* Type correctness. *)

\* The initial states have the types.
LEMMA InitTypeOK == Init => TypeOK
BY ConstantsAssumption DEF Init, TypeOK, Stage

\* No step leaves the types.
LEMMA NextTypeOK == TypeOK /\ [Next]_vars => TypeOK'
<1> SUFFICES ASSUME TypeOK, [Next]_vars PROVE TypeOK'
  OBVIOUS
<1> USE DEF Stage, Enter, tables
<1>1. ASSUME NEW t \in Txn, Begin(t) PROVE TypeOK'
  BY <1>1, ConstantsAssumption DEF Begin, TypeOK
<1>2. ASSUME NEW t \in Txn, LockUser(t) PROVE TypeOK'
  BY <1>2, RequestType DEF LockUser, TypeOK
<1>3. ASSUME NEW t \in Txn, Check(t) PROVE TypeOK'
  BY <1>3 DEF Check, TypeOK
<1>4. ASSUME NEW t \in Txn, Reject(t) PROVE TypeOK'
  BY <1>4 DEF Reject, Unlock, TypeOK
<1>5. ASSUME NEW t \in Txn, Commit(t) PROVE TypeOK'
  <2>1. follows' \in SUBSET (User \X User)
    BY <1>5, RequestType DEF Commit, TypeOK
  <2>2. followerCount' \in [User -> Nat] /\ celebrity' \in [User -> BOOLEAN]
    BY <1>5, NewStateType DEF Commit, TypeOK
  <2>3. committed' \in [User -> Seq(Request)]
    <3>1. Append(committed[Row(t)], request[t]) \in Seq(Request)
      BY RequestType DEF TypeOK
    <3>2. QED
      BY <1>5, <3>1 DEF Commit, TypeOK
  <2>4. QED
    BY <1>5, <2>1, <2>2, <2>3 DEF Commit, Unlock, TypeOK
<1>6. ASSUME NEW t \in Txn, Publish(t) PROVE TypeOK'
  <2>1. Append(published[Row(t)], request[t]) \in Seq(Request)
    BY RequestType DEF TypeOK
  <2>2. QED
    BY <1>6, <2>1 DEF Publish, TypeOK
<1>7. ASSUME NEW t \in Txn, Rollback(t) PROVE TypeOK'
  BY <1>7, ConstantsAssumption DEF Rollback, Fail, TypeOK
<1>8. ASSUME NEW t \in Txn, PublishLost(t) PROVE TypeOK'
  BY <1>8, ConstantsAssumption DEF PublishLost, Fail, TypeOK
<1>9. CASE UNCHANGED vars
  BY <1>9 DEF vars, TypeOK
<1>10. QED
  BY <1>1, <1>2, <1>3, <1>4, <1>5, <1>6, <1>7, <1>8, <1>9 DEF Next, Step

\* Every variable keeps its type.
THEOREM TypeCorrect == Safety => []TypeOK
BY InitTypeOK, NextTypeOK, PTL DEF Safety

-----------------------------------------------------------------------------
(* What the row lock protects. *)

\* Between the lock and the end of its transaction a request holds the row of its
\* followee, and what it read about that row is what the tables say.
LockInv ==
    \A t \in Txn :
        /\ stage[t] \in {"checking", "writing"} => /\ lock[Row(t)] = t
                                                   /\ loaded[t] = followerCount[Row(t)]
        /\ stage[t] = "writing" => Applicable(t)

\* Nobody is past the lock at the start.
LEMMA InitLockInv == Init => LockInv
BY DEF Init, LockInv

\* Two requests past the lock are for two rows.
LEMMA OneWriterPerRow ==
  ASSUME LockInv, NEW s \in Txn, NEW t \in Txn, s # t,
         stage[s] \in {"checking", "writing"}, stage[t] \in {"checking", "writing"}
  PROVE  Row(s) # Row(t)
BY DEF LockInv

\* No other request changes what a request read under its row lock.
LEMMA NextLockInv == TypeOK /\ LockInv /\ [Next]_vars => LockInv'
<1> SUFFICES ASSUME TypeOK, LockInv, [Next]_vars PROVE LockInv'
  OBVIOUS
<1> USE DEF Stage, Enter, tables
<1>1. ASSUME NEW t \in Txn, Begin(t) PROVE LockInv'
  BY <1>1 DEF Begin, LockInv, TypeOK, Row, Pair, Applicable
<1>2. ASSUME NEW t \in Txn, LockUser(t) PROVE LockInv'
  BY <1>2, RequestType, ConstantsAssumption DEF LockUser, LockInv, TypeOK, Row, Pair, Applicable
<1>3. ASSUME NEW t \in Txn, Check(t) PROVE LockInv'
  BY <1>3 DEF Check, LockInv, TypeOK, Row, Pair, Applicable
<1>4. ASSUME NEW t \in Txn, Reject(t) PROVE LockInv'
  BY <1>4, OneWriterPerRow DEF Reject, Unlock, LockInv, TypeOK, Row, Pair, Applicable
<1>5. ASSUME NEW t \in Txn, Commit(t) PROVE LockInv'
  BY <1>5, OneWriterPerRow, RequestType DEF Commit, Unlock, LockInv, TypeOK, Row, Pair, Applicable
<1>6. ASSUME NEW t \in Txn, Publish(t) PROVE LockInv'
  BY <1>6 DEF Publish, LockInv, TypeOK, Row, Pair, Applicable
<1>7. ASSUME NEW t \in Txn, Rollback(t) PROVE LockInv'
  BY <1>7, RequestType DEF Rollback, LockInv, TypeOK, Row, Pair, Applicable
<1>8. ASSUME NEW t \in Txn, PublishLost(t) PROVE LockInv'
  BY <1>8 DEF PublishLost, LockInv, TypeOK, Row, Pair, Applicable
<1>9. CASE UNCHANGED vars
  BY <1>9 DEF vars, LockInv, Row, Pair, Applicable
<1>10. QED
  BY <1>1, <1>2, <1>3, <1>4, <1>5, <1>6, <1>7, <1>8, <1>9 DEF Next, Step

\* Whatever overlaps, what a request read under the row lock still holds when it writes.
THEOREM LockedReadsHold == Safety => []ReadsStillHold
<1>1. LockInv => ReadsStillHold
  BY DEF LockInv, ReadsStillHold
<1>2. QED
  BY <1>1, InitTypeOK, NextTypeOK, InitLockInv, NextLockInv, PTL DEF Safety

-----------------------------------------------------------------------------
(* The denormalised count. *)

CountInv == /\ \A u \in User : IsFiniteSet(FollowersOf(u))
            /\ CountMatchesFollowers

\* Nobody has followers at the start.
LEMMA InitCountInv == Init => CountInv
<1> SUFFICES ASSUME Init PROVE CountInv
  OBVIOUS
<1>1. \A u \in User : FollowersOf(u) = {}
  BY DEF Init, FollowersOf
<1>2. \A u \in User : followerCount[u] = 0 /\ celebrity[u] = FALSE
  BY DEF Init
<1>3. ~(0 >= Threshold)
  BY ConstantsAssumption
<1>4. IsFiniteSet({}) /\ Cardinality({}) = 0
  BY FS_EmptySet
<1>5. ASSUME NEW u \in User
      PROVE  /\ IsFiniteSet(FollowersOf(u))
             /\ followerCount[u] = Cardinality(FollowersOf(u))
             /\ celebrity[u] = (followerCount[u] >= Threshold)
  <2>1. IsFiniteSet(FollowersOf(u)) /\ followerCount[u] = Cardinality(FollowersOf(u))
    BY <1>1, <1>2, <1>4
  <2>2. celebrity[u] = FALSE /\ (followerCount[u] >= Threshold) = FALSE
    BY <1>2, <1>3
  <2>3. QED
    BY <2>1, <2>2
<1>6. QED
  BY <1>5 DEF CountInv, CountMatchesFollowers

\* Every commit changes the count and the follows table together.
LEMMA NextCountInv == TypeOK /\ LockInv /\ CountInv /\ [Next]_vars => CountInv'
<1> SUFFICES ASSUME TypeOK, LockInv, CountInv, [Next]_vars PROVE CountInv'
  OBVIOUS
<1>1. CASE UNCHANGED tables
  BY <1>1 DEF tables, CountInv, CountMatchesFollowers, FollowersOf
<1>2. ASSUME NEW t \in Txn, Commit(t) PROVE CountInv'
  <2>1. PICK u \in User, f \in User :
          u = Row(t) /\ f = request[t].follower /\ Pair(t) = <<f, u>>
    BY RequestType DEF Row, Pair
  <2> DEFINE S == FollowersOf(u)
  <2>2. loaded[t] = Cardinality(S) /\ IsFiniteSet(S) /\ Cardinality(S) \in Nat
    BY <1>2, <2>1, RequestType DEF Commit, LockInv, CountInv, CountMatchesFollowers
  <2>3. \A v \in User \ {u} : FollowersOf(v)' = FollowersOf(v)
    BY <1>2, <2>1 DEF Commit, FollowersOf
  <2>4. /\ IsFiniteSet(FollowersOf(u)')
        /\ Cardinality(FollowersOf(u)') = NewState(t).count
    <3>1. CASE request[t].op = "follow"
      <4>1. f \notin S /\ FollowersOf(u)' = S \union {f}
        BY <1>2, <2>1, <3>1 DEF Commit, LockInv, Applicable, FollowersOf
      <4>2. QED
        BY <2>2, <3>1, <4>1, FS_AddElement DEF NewState
    <3>2. CASE request[t].op = "unfollow"
      <4>1. f \in S /\ FollowersOf(u)' = S \ {f}
        BY <1>2, <2>1, <3>2 DEF Commit, LockInv, Applicable, FollowersOf
      <4>2. Cardinality(S) # 0
        BY <2>2, <4>1, FS_EmptySet
      <4>3. QED
        BY <2>2, <3>2, <4>1, <4>2, FS_RemoveElement DEF NewState
    <3>3. QED
      BY <3>1, <3>2, RequestType
  <2>5. NewState(t).celebrity = (NewState(t).count >= Threshold)
    BY DEF NewState
  <2>6. /\ followerCount' = [followerCount EXCEPT ![u] = NewState(t).count]
        /\ celebrity' = [celebrity EXCEPT ![u] = NewState(t).celebrity]
    BY <1>2, <2>1 DEF Commit
  <2>7. NewState(t).count \in Nat /\ NewState(t).celebrity \in BOOLEAN
    BY NewStateType
  <2>8. /\ followerCount'[u] = NewState(t).count
        /\ celebrity'[u] = NewState(t).celebrity
        /\ \A v \in User \ {u} : followerCount'[v] = followerCount[v] /\ celebrity'[v] = celebrity[v]
    BY <2>6, <2>7 DEF TypeOK
  <2>9. \A v \in User \ {u} : /\ IsFiniteSet(FollowersOf(v)')
                               /\ followerCount'[v] = Cardinality(FollowersOf(v)')
                               /\ celebrity'[v] = (followerCount'[v] >= Threshold)
    BY <2>3, <2>8 DEF CountInv, CountMatchesFollowers
  <2>10. /\ IsFiniteSet(FollowersOf(u)')
         /\ followerCount'[u] = Cardinality(FollowersOf(u)')
         /\ celebrity'[u] = (followerCount'[u] >= Threshold)
    BY <2>4, <2>5, <2>8
  <2>11. QED
    BY <2>9, <2>10 DEF CountInv, CountMatchesFollowers
<1>3. UNCHANGED tables \/ \E t \in Txn : Commit(t)
  BY DEF Next, Step, vars, Begin, LockUser, Check, Reject, Publish, Rollback, PublishLost
<1>4. QED
  BY <1>1, <1>2, <1>3

\* follower_count and is_celebrity always agree with the follows table, for any
\* number of concurrent requests.
THEOREM CountsCorrect == Safety => []CountMatchesFollowers
<1>1. CountInv => CountMatchesFollowers
  BY DEF CountInv
<1>2. QED
  BY <1>1, InitTypeOK, NextTypeOK, InitLockInv, NextLockInv, InitCountInv, NextCountInv, PTL
  DEF Safety

-----------------------------------------------------------------------------
(* Commits and events. *)

\* The requests that committed the change r and have not published it yet.
Unpublished(u, r) == {t \in Txn : stage[t] = "publishing" /\ Row(t) = u /\ request[t] = r}

\* Each commit of a change is published at most once.
EventInv ==
    \A u \in User, r \in Request :
        /\ IsFiniteSet(Unpublished(u, r))
        /\ Count(r, published[u]) + Cardinality(Unpublished(u, r)) <= Count(r, committed[u])

\* Appending an element adds one to its count.
LEMMA CountAppend ==
  ASSUME NEW E, NEW s \in Seq(E), NEW e \in E, NEW r
  PROVE  /\ Count(r, s) \in Nat
         /\ Count(r, Append(s, e)) = IF e = r THEN Count(r, s) + 1 ELSE Count(r, s)
<1> DEFINE I == {i \in DOMAIN s : s[i] = r}
           J == {i \in DOMAIN Append(s, e) : Append(s, e)[i] = r}
           n == Len(s) + 1
<1>1. /\ DOMAIN s = 1..Len(s) /\ Len(s) \in Nat
      /\ DOMAIN Append(s, e) = 1..n
      /\ Append(s, e)[n] = e
      /\ \A i \in 1..Len(s) : Append(s, e)[i] = s[i]
  OBVIOUS
<1>2. J = IF e = r THEN I \union {n} ELSE I
  BY <1>1
<1>3. n \notin I /\ I \in SUBSET (1..Len(s))
  BY <1>1
<1>4. IsFiniteSet(I) /\ Cardinality(I) \in Nat
  <2> HIDE DEF I
  <2>1. IsFiniteSet(1..Len(s))
    BY <1>1, FS_Interval
  <2>2. IsFiniteSet(I)
    BY <1>3, <2>1, FS_Subset
  <2>3. QED
    BY <2>2, FS_CardinalityType
<1>5. Count(r, s) = Cardinality(I) /\ Count(r, Append(s, e)) = Cardinality(J)
  BY DEF Count
<1> HIDE DEF I, J, n
<1>6. QED
  BY <1>2, <1>3, <1>4, <1>5, FS_AddElement

\* Nothing is committed or published at the start.
LEMMA InitEventInv == Init => EventInv
<1> SUFFICES ASSUME Init, NEW u \in User, NEW r \in Request
             PROVE  /\ IsFiniteSet(Unpublished(u, r))
                    /\ Count(r, published[u]) + Cardinality(Unpublished(u, r)) <= Count(r, committed[u])
  BY DEF EventInv
<1>1. Unpublished(u, r) = {} /\ published[u] = <<>> /\ committed[u] = <<>>
  BY DEF Init, Unpublished
<1>2. Count(r, <<>>) = Cardinality({}) /\ IsFiniteSet({}) /\ Cardinality({}) = 0
  <2>1. {i \in DOMAIN <<>> : <<>>[i] = r} = {}
    OBVIOUS
  <2>2. QED
    BY <2>1, FS_EmptySet DEF Count
<1>3. QED
  BY <1>1, <1>2

\* A step keeps the balance of commits and events, if what it adds to one side it
\* takes from another.
LEMMA NextEventInv == TypeOK /\ EventInv /\ [Next]_vars => EventInv'
<1> SUFFICES ASSUME TypeOK, EventInv, [Next]_vars, NEW u \in User, NEW r \in Request
             PROVE  /\ IsFiniteSet(Unpublished(u, r)')
                    /\ Count(r, published'[u]) + Cardinality(Unpublished(u, r)') <= Count(r, committed'[u])
  BY DEF EventInv
<1> USE DEF Enter
<1> DEFINE S == Unpublished(u, r)
<1>1. /\ IsFiniteSet(S) /\ Cardinality(S) \in Nat
      /\ Count(r, published[u]) + Cardinality(S) <= Count(r, committed[u])
  BY FS_CardinalityType DEF EventInv
<1>2. \A e \in Request :
        /\ Count(r, published[u]) \in Nat /\ Count(r, committed[u]) \in Nat
        /\ Count(r, Append(published[u], e)) = IF e = r THEN Count(r, published[u]) + 1
                                                        ELSE Count(r, published[u])
        /\ Count(r, Append(committed[u], e)) = IF e = r THEN Count(r, committed[u]) + 1
                                                        ELSE Count(r, committed[u])
  BY CountAppend DEF TypeOK
<1>3. Count(r, published[u]) \in Nat /\ Count(r, committed[u]) \in Nat
  BY <1>2
<1>4. CASE UNCHANGED <<published, committed>> /\ Unpublished(u, r)' = S
  BY <1>1, <1>4
<1>5. ASSUME NEW t \in Txn, Begin(t) \/ LockUser(t) \/ Check(t) \/ Reject(t) \/ Rollback(t)
      PROVE  UNCHANGED <<published, committed>> /\ Unpublished(u, r)' = S
  <2>1. /\ stage[t] # "publishing" /\ stage'[t] # "publishing"
        /\ \A x \in Txn : x # t => stage'[x] = stage[x] /\ request'[x] = request[x]
        /\ UNCHANGED <<published, committed>>
    BY <1>5 DEF Begin, LockUser, Check, Reject, Rollback, TypeOK
  <2>2. QED
    BY <2>1 DEF Unpublished, Row
<1>6. ASSUME NEW t \in Txn, Commit(t)
      PROVE  /\ IsFiniteSet(Unpublished(u, r)')
             /\ Count(r, published'[u]) + Cardinality(Unpublished(u, r)') <= Count(r, committed'[u])
  <2>1. /\ stage[t] # "publishing" /\ stage'[t] = "publishing" /\ UNCHANGED <<request, published>>
        /\ \A x \in Txn : x # t => stage'[x] = stage[x]
        /\ committed'[u] = IF Row(t) = u THEN Append(committed[u], request[t]) ELSE committed[u]
    BY <1>6 DEF Commit, TypeOK
  <2>2. t \notin S /\ Unpublished(u, r)' = IF Row(t) = u /\ request[t] = r THEN S \union {t} ELSE S
    BY <2>1 DEF Unpublished, Row
  <2>3. CASE Row(t) = u /\ request[t] = r
    <3>1. /\ IsFiniteSet(S \union {t}) /\ Cardinality(S \union {t}) = Cardinality(S) + 1
      BY <1>1, <2>2, FS_AddElement
    <3>2. Count(r, committed'[u]) = Count(r, committed[u]) + 1
      BY <1>2, <2>1, <2>3, RequestType
    <3> HIDE DEF S
    <3>3. QED
      BY <1>1, <1>3, <2>1, <2>2, <2>3, <3>1, <3>2
  <2>4. CASE ~(Row(t) = u /\ request[t] = r)
    <3>1. Count(r, committed'[u]) = Count(r, committed[u])
      BY <1>2, <2>1, <2>4, RequestType
    <3>2. QED
      BY <1>1, <2>1, <2>2, <2>4, <3>1
  <2>5. QED
    BY <2>3, <2>4
<1>7. ASSUME NEW t \in Txn, Publish(t) \/ PublishLost(t)
      PROVE  /\ IsFiniteSet(Unpublished(u, r)')
             /\ Count(r, published'[u]) + Cardinality(Unpublished(u, r)') <= Count(r, committed'[u])
  <2>1. /\ stage[t] = "publishing" /\ stage'[t] # "publishing" /\ UNCHANGED <<request, committed>>
        /\ \A x \in Txn : x # t => stage'[x] = stage[x]
        /\ published'[u] \in {published[u], IF Row(t) = u THEN Append(published[u], request[t])
                                                          ELSE published[u]}
    BY <1>7 DEF Publish, PublishLost, TypeOK
  <2>2. /\ Row(t) = u /\ request[t] = r => t \in S
        /\ Unpublished(u, r)' = IF Row(t) = u /\ request[t] = r THEN S \ {t} ELSE S
    BY <2>1 DEF Unpublished, Row
  <2>3. CASE Row(t) = u /\ request[t] = r
    <3>1. /\ IsFiniteSet(S \ {t}) /\ Cardinality(S \ {t}) = Cardinality(S) - 1
      BY <1>1, <2>2, <2>3, FS_RemoveElement
    <3>2. Count(r, published'[u]) \in {Count(r, published[u]), Count(r, published[u]) + 1}
      BY <1>2, <2>1, <2>3, RequestType
    <3> HIDE DEF S
    <3>3. QED
      BY <1>1, <1>3, <2>1, <2>2, <2>3, <3>1, <3>2
  <2>4. CASE ~(Row(t) = u /\ request[t] = r)
    <3>1. Count(r, published'[u]) = Count(r, published[u])
      <4>1. CASE published'[u] = published[u]
        BY <4>1
      <4>2. CASE Row(t) = u /\ published'[u] = Append(published[u], request[t])
        <5>1. request[t] \in Request /\ request[t] # r
          BY <2>4, <4>2, <2>1, RequestType
        <5>2. QED
          BY <1>2, <4>2, <5>1
      <4>3. QED
        BY <2>1, <4>1, <4>2
    <3>2. QED
      BY <1>1, <2>1, <2>2, <2>4, <3>1
  <2>5. QED
    BY <2>3, <2>4
<1>8. CASE UNCHANGED vars
  <2>1. UNCHANGED <<published, committed>> /\ Unpublished(u, r)' = S
    BY <1>8 DEF vars, Unpublished, Row
  <2>2. QED
    BY <1>4, <2>1
<1>9. QED
  BY <1>4, <1>5, <1>6, <1>7, <1>8 DEF Next, Step

\* No event is published without its commit, or twice for one commit, whatever the
\* order of commits, publishes, rollbacks and lost sends.
THEOREM EventsAreCommits == Safety => []OnlyCommittedPublished
<1>1. TypeOK /\ EventInv => OnlyCommittedPublished
  <2> SUFFICES ASSUME TypeOK, EventInv, NEW u \in User, NEW r \in Request
               PROVE  Count(r, published[u]) <= Count(r, committed[u])
    BY DEF OnlyCommittedPublished
  <2>1. Count(r, published[u]) \in Nat /\ Count(r, committed[u]) \in Nat
    BY CountAppend DEF TypeOK
  <2>2. Cardinality(Unpublished(u, r)) \in Nat
    BY FS_CardinalityType DEF EventInv
  <2>3. QED
    BY <2>1, <2>2 DEF EventInv
<1>2. QED
  BY <1>1, InitTypeOK, NextTypeOK, InitEventInv, NextEventInv, PTL DEF Safety

-----------------------------------------------------------------------------
(* The refinement of FollowGraph. *)

\* A request that goes on is for two different users.
DifferInv == \A t \in Txn : stage[t] # "idle" => request[t].follower # request[t].followee

\* Nobody has begun at the start.
LEMMA InitDifferInv == Init => DifferInv
BY DEF Init, DifferInv

\* Requests are checked when they begin.
LEMMA NextDifferInv == TypeOK /\ DifferInv /\ [Next]_vars => DifferInv'
<1> SUFFICES ASSUME TypeOK, DifferInv, [Next]_vars PROVE DifferInv'
  OBVIOUS
<1>1. ASSUME NEW t \in Txn, Begin(t) PROVE DifferInv'
  BY <1>1 DEF Begin, Enter, DifferInv, TypeOK
<1>2. ASSUME NEW t \in Txn, Step(t) \/ Rollback(t) \/ PublishLost(t) PROVE DifferInv'
  <2>1. /\ stage[t] # "idle" \/ stage'[t] = "idle"
        /\ \A x \in Txn : x # t => stage'[x] = stage[x]
        /\ UNCHANGED request
    BY <1>2 DEF Step, LockUser, Check, Reject, Commit, Publish, Rollback, PublishLost, Enter, TypeOK
  <2>2. QED
    BY <2>1 DEF DifferInv
<1>3. CASE UNCHANGED vars
  BY <1>3 DEF vars, DifferInv
<1>4. QED
  BY <1>1, <1>2, <1>3 DEF Next

\* Requests whose place between commit and publish does not change owe what they owed.
LEMMA UnsentSame ==
  ASSUME \A t \in Txn : /\ (stage'[t] = "publishing") = (stage[t] = "publishing")
                        /\ stage[t] = "publishing" => request'[t] = request[t]
  PROVE  Unsent' = Unsent
BY DEF Unsent

\* A request owes the event of its own change, and only between commit and publish.
LEMMA UnsentFacts ==
  ASSUME NEW t \in Txn
  PROVE  /\ stage[t] = "publishing" => <<t, request[t]>> \in Unsent
         /\ \A owing \in Unsent : owing[1] = t =>
               stage[t] = "publishing" /\ owing = <<t, request[t]>> /\ owing[2] = request[t]
BY DEF Unsent

\* A commit is a change of the graph.
LEMMA CommitIsChange ==
  ASSUME TypeOK, LockInv, CountInv, DifferInv, NEW t \in Txn, Commit(t)
  PROVE  Promise!Next
<1> DEFINE f == request[t].follower
           u == request[t].followee
<1>1. /\ f \in User /\ u \in User /\ f # u
      /\ request[t].op \in {"follow", "unfollow"}
      /\ Pair(t) = <<f, u>> /\ Row(t) = u
      /\ stage[t] = "writing" /\ stage'[t] = "publishing" /\ UNCHANGED <<request, published>>
      /\ \A x \in Txn : x # t => stage'[x] = stage[x]
  BY RequestType DEF Commit, Enter, DifferInv, Row, Pair, TypeOK
<1>2. /\ request[t] = Promise!Event(request[t].op, f, u)
  BY RequestType DEF Request, Promise!Event
<1>3. Promise!Owes(t, request[t])
  <2>1. \A owing \in Unsent : owing[1] # t
    BY <1>1, UnsentFacts
  <2>2. Unsent' = Unsent \union {<<t, request[t]>>}
    BY <1>1 DEF Unsent
  <2>3. QED
    BY <2>1, <2>2 DEF Promise!Owes
<1>4. Applicable(t) /\ loaded[t] = followerCount[u] /\ followerCount[u] \in Nat
  BY <1>1 DEF LockInv, TypeOK
<1>5. NewState(t).celebrity = (NewState(t).count >= Threshold)
  BY DEF NewState
<1>6. CASE request[t].op = "follow"
  <2>1. <<f, u>> \notin follows /\ follows' = follows \union {<<f, u>>}
    BY <1>1, <1>4, <1>6 DEF Commit, Applicable
  <2>2. NewState(t).count = followerCount[u] + 1
    BY <1>4, <1>6 DEF NewState
  <2>3. Promise!Counted(u, followerCount[u] + 1)
    BY <1>1, <1>4, <1>5, <2>2 DEF Commit, Promise!Counted
  <2>4. Promise!Follow(t, f, u)
    BY <1>1, <1>2, <1>3, <1>6, <2>1, <2>3 DEF Promise!Follow
  <2>5. QED
    BY <1>1, <2>4 DEF Promise!Next
<1>7. CASE request[t].op = "unfollow"
  <2>1. <<f, u>> \in follows /\ follows' = follows \ {<<f, u>>}
    BY <1>1, <1>4, <1>7 DEF Commit, Applicable
  <2>2. followerCount[u] # 0
    <3>1. f \in FollowersOf(u)
      BY <1>1, <2>1 DEF FollowersOf
    <3>2. IsFiniteSet(FollowersOf(u)) /\ followerCount[u] = Cardinality(FollowersOf(u))
      BY <1>1 DEF CountInv, CountMatchesFollowers
    <3>3. QED
      BY <3>1, <3>2, FS_EmptySet
  <2>3. NewState(t).count = followerCount[u] - 1 /\ followerCount[u] - 1 >= 0
    BY <1>4, <1>7, <2>2 DEF NewState
  <2>4. Promise!Counted(u, followerCount[u] - 1)
    BY <1>1, <1>4, <1>5, <2>3 DEF Commit, Promise!Counted
  <2>5. Promise!Unfollow(t, f, u)
    BY <1>1, <1>2, <1>3, <1>7, <2>1, <2>4 DEF Promise!Unfollow
  <2>6. QED
    BY <1>1, <2>5 DEF Promise!Next
<1>8. QED
  BY <1>1, <1>6, <1>7

\* Every step of the service is a step of the graph or leaves it alone.
LEMMA NextGraph ==
  ASSUME TypeOK, LockInv, CountInv, DifferInv, [Next]_vars
  PROVE  [Promise!Next]_(Promise!vars)
<1>1. CASE UNCHANGED vars
  BY <1>1 DEF vars, tables, Unsent, Promise!vars
<1>2. ASSUME NEW t \in Txn, Begin(t) \/ LockUser(t) \/ Check(t) \/ Reject(t) \/ Rollback(t)
      PROVE  UNCHANGED Promise!vars
  <2>1. /\ stage[t] # "publishing" /\ stage'[t] # "publishing"
        /\ \A x \in Txn : x # t => stage'[x] = stage[x] /\ request'[x] = request[x]
        /\ UNCHANGED <<tables, published>>
    BY <1>2 DEF Begin, LockUser, Check, Reject, Rollback, Enter, TypeOK
  <2>2. Unsent' = Unsent
    BY <2>1, UnsentSame
  <2>3. QED
    BY <2>1, <2>2 DEF tables, Promise!vars
<1>3. ASSUME NEW t \in Txn, Commit(t) PROVE Promise!Next
  BY <1>3, CommitIsChange
<1>4. ASSUME NEW t \in Txn, Publish(t) \/ PublishLost(t) PROVE Promise!Next
  <2>1. /\ stage[t] = "publishing" /\ stage'[t] # "publishing" /\ UNCHANGED <<tables, request>>
        /\ \A x \in Txn : x # t => stage'[x] = stage[x]
    BY <1>4 DEF Publish, PublishLost, Enter, TypeOK
  <2>2. Unsent' = {owing \in Unsent : owing[1] # t}
    BY <2>1 DEF Unsent
  <2>3. CASE Publish(t)
    <3>1. published' = [published EXCEPT ![request[t].followee] = Append(@, request[t])]
      BY <2>3 DEF Publish, Row
    <3>2. <<t, request[t]>> \in Unsent
      BY <2>1, UnsentFacts
    <3>3. Promise!Publish(t)
      BY <2>1, <2>2, <3>1, <3>2 DEF tables, Promise!Publish
    <3>4. QED
      BY <3>3 DEF Promise!Next
  <2>4. CASE PublishLost(t)
    <3>1. Promise!Lose(t)
      BY <2>1, <2>2, <2>4 DEF PublishLost, tables, Promise!Lose
    <3>2. QED
      BY <3>1 DEF Promise!Next
  <2>5. QED
    BY <1>4, <2>3, <2>4
<1>5. QED
  BY <1>1, <1>2, <1>3, <1>4 DEF Next, Step

\* The service with its overlapping transactions implements the graph that changes at
\* once: each follow or unfollow is one change of the pair, the count and the flag
\* together, whose event is sent at most once.
THEOREM GraphPromised == Safety => GraphKept
<1>1. Init => Promise!Init
  <2>1. Init => Unsent = {}
    BY DEF Init, Unsent
  <2>2. QED
    BY <2>1 DEF Init, Promise!Init
<1>2. QED
  BY <1>1, InitTypeOK, NextTypeOK, InitLockInv, NextLockInv, InitCountInv, NextCountInv,
     InitDifferInv, NextDifferInv, NextGraph, PTL DEF Safety, GraphKept, Promise!Spec
=============================================================================
