------------------------ MODULE FanoutConsumerProofs ------------------------
(***************************************************************************)
(* Proofs about FanoutConsumer, for any number of workers, partitions,     *)
(* retries and disruptions.                                                *)
(***************************************************************************)
EXTENDS FanoutConsumer, TLAPS

-----------------------------------------------------------------------------
(* Facts about the pieces the actions share. *)

\* The record of a worker that has one in hand is a partition and an offset.
LEMMA HeldType ==
  ASSUME TypeOK, HeldInv, NEW w \in Worker, pc[w] \in Busy
  PROVE  /\ held[w] \in Partition \X Nat
         /\ held[w][1] \in Partition
         /\ held[w][2] \in Nat
         /\ held[w] = <<held[w][1], held[w][2]>>
<1>1. held[w] # NoRecord
  BY DEF HeldInv
<1>2. held[w] \in Partition \X Nat
  BY <1>1 DEF TypeOK
<1>3. QED
  BY <1>2

\* A worker that leaves keeps its three variables in their types.
LEMMA LeaveType ==
  ASSUME TypeOK, NEW w \in Worker, Leave(w)
  PROVE  /\ pc' \in [Worker -> PC]
         /\ held' \in [Worker -> (Partition \X Nat) \union {NoRecord}]
         /\ attempts' \in [Worker -> 0..(MaxRetries + 1)]
<1>1. pc' \in [Worker -> PC]
  BY DEF TypeOK, Leave, PC
<1>2. held' \in [Worker -> (Partition \X Nat) \union {NoRecord}]
  BY DEF TypeOK, Leave
<1>3. attempts' \in [Worker -> 0..(MaxRetries + 1)]
  BY ConstantsAssumption DEF TypeOK, Leave
<1>4. QED
  BY <1>1, <1>2, <1>3

\* The disruption counter stays within its bound.
LEMMA DisruptType ==
  ASSUME TypeOK, Disrupt PROVE disruptions' \in 0..MaxDisruptions
BY ConstantsAssumption DEF TypeOK, Disrupt

\* The number of disruptions stays within its bound.
LEMMA FaultType ==
  ASSUME TypeOK, NEW w \in Worker, Fault(w) PROVE disruptions' \in 0..MaxDisruptions
BY DisruptType DEF Fault, TypeOK

\* A Process call moves the attempts counter and the history variable.
LEMMA AttemptType ==
  ASSUME TypeOK, HeldInv, AttemptsInv, NEW w \in Worker, Attempt(w)
  PROVE  /\ attempts' \in [Worker -> 0..(MaxRetries + 1)]
         /\ latest' \in [Partition -> Nat]
<1> USE ConstantsAssumption
<1>1. attempts[w] \in 0..MaxRetries
  BY DEF TypeOK, AttemptsInv, Attempt
<1>2. attempts[w] + 1 \in 0..(MaxRetries + 1)
  BY <1>1
<1>3. attempts' \in [Worker -> 0..(MaxRetries + 1)]
  BY <1>2 DEF TypeOK, Attempt
<1>4. held[w][2] + 1 \in Nat
  BY HeldType DEF Attempt, Busy
<1>5. latest' \in [Partition -> Nat]
  BY <1>4 DEF TypeOK, Attempt
<1>6. QED
  BY <1>3, <1>5

\* A commit the broker accepts stores an offset.
LEMMA CommitType ==
  ASSUME TypeOK, HeldInv, NEW w \in Worker, pc[w] = "commit", CommitAccepted(w)
  PROVE  committed' \in [Partition -> Nat]
<1>1. held[w][2] + 1 \in Nat
  BY HeldType DEF Busy
<1>2. QED
  BY <1>1 DEF CommitAccepted, OffsetAfter, TypeOK

\* The dead-letter record of a worker about to publish one is well typed.
LEMMA DLQType ==
  ASSUME TypeOK, HeldInv, NEW w \in Worker, pc[w] = "dlq"
  PROVE  DLQRecord(w) \in Partition \X Nat \X Nat
<1>1. attempts[w] \in Nat
  BY ConstantsAssumption DEF TypeOK
<1>2. held[w][1] \in Partition /\ held[w][2] \in Nat
  BY HeldType DEF Busy
<1>3. QED
  BY <1>1, <1>2 DEF DLQRecord

-----------------------------------------------------------------------------
(* Type correctness. *)

\* The initial states have the types.
LEMMA InitTypeOK == Init => TypeOK
BY ConstantsAssumption DEF Init, TypeOK, PC, Kind

\* No step leaves the types.
LEMMA NextTypeOK == TypeOK /\ HeldInv /\ AttemptsInv /\ [Next]_vars => TypeOK'
<1> SUFFICES ASSUME TypeOK, HeldInv, AttemptsInv, [Next]_vars PROVE TypeOK'
  OBVIOUS
<1>1. ASSUME NEW p \in Partition, Publish(p) PROVE TypeOK'
  <2>1. PICK k \in Kind : log' = [log EXCEPT ![p] = Append(@, k)]
    BY <1>1 DEF Publish
  <2>2. Append(log[p], k) \in Seq(Kind)
    BY DEF TypeOK
  <2>3. QED
    BY <1>1, <2>1, <2>2 DEF Publish, TypeOK
<1>2. ASSUME NEW w \in Worker, NEW p \in Partition, Assign(w, p) PROVE TypeOK'
  BY <1>2 DEF Assign, TypeOK
<1>3. ASSUME NEW w \in Worker, NEW p \in Partition, Revoke(w, p) PROVE TypeOK'
  BY <1>3, DisruptType DEF Revoke, TypeOK
<1>4. ASSUME NEW w \in Worker, Poll(w) PROVE TypeOK'
  <2>1. PICK p \in Partition :
          /\ held' = [held EXCEPT ![w] = <<p, position[p]>>]
          /\ position' = [position EXCEPT ![p] = @ + 1]
    BY <1>4 DEF Poll
  <2>2. held' \in [Worker -> (Partition \X Nat) \union {NoRecord}]
    <3>1. <<p, position[p]>> \in Partition \X Nat
      BY DEF TypeOK
    <3>2. QED
      BY <2>1, <3>1 DEF TypeOK
  <2>3. position' \in [Partition -> Nat]
    BY <2>1 DEF TypeOK
  <2>4. pc' \in [Worker -> PC]
    BY <1>4 DEF Poll, TypeOK, PC
  <2>5. attempts' \in [Worker -> 0..(MaxRetries + 1)]
    BY <1>4, ConstantsAssumption DEF Poll, TypeOK
  <2>6. QED
    BY <1>4, <2>2, <2>3, <2>4, <2>5 DEF Poll, TypeOK
<1>5. ASSUME NEW w \in Worker, ProcessSucceeds(w) PROVE TypeOK'
  <2>1. pc' \in [Worker -> PC]
    BY <1>5 DEF ProcessSucceeds, TypeOK, PC
  <2>2. processed' \in SUBSET (Partition \X Nat)
    BY <1>5, HeldType DEF ProcessSucceeds, Attempt, Busy, TypeOK
  <2>3. QED
    BY <1>5, <2>1, <2>2, AttemptType DEF ProcessSucceeds, TypeOK
<1>6. ASSUME NEW w \in Worker, ProcessFails(w) PROVE TypeOK'
  <2>1. pc' \in [Worker -> PC]
    BY <1>6 DEF ProcessFails, TypeOK, PC
  <2>2. QED
    BY <1>6, <2>1, AttemptType DEF ProcessFails, TypeOK
<1>7. ASSUME NEW w \in Worker, BackoffElapses(w) PROVE TypeOK'
  BY <1>7 DEF BackoffElapses, TypeOK, PC
<1>8. ASSUME NEW w \in Worker, DLQPublished(w) PROVE TypeOK'
  <2>1. pc' \in [Worker -> PC]
    BY <1>8 DEF DLQPublished, TypeOK, PC
  <2>2. dlq' \in SUBSET (Partition \X Nat \X Nat)
    BY <1>8, DLQType DEF DLQPublished, TypeOK
  <2>3. QED
    BY <1>8, <2>1, <2>2 DEF DLQPublished, TypeOK
<1>9. ASSUME NEW w \in Worker, Commit(w) PROVE TypeOK'
  <2>1. committed' \in [Partition -> Nat]
    BY <1>9, CommitType DEF Commit
  <2>2. pc' \in [Worker -> PC]
    BY <1>9 DEF Commit, TypeOK, PC
  <2>3. attempts' \in [Worker -> 0..(MaxRetries + 1)]
    BY <1>9, ConstantsAssumption DEF Commit, TypeOK
  <2>4. held' \in [Worker -> (Partition \X Nat) \union {NoRecord}]
    BY <1>9 DEF Commit, TypeOK
  <2>5. QED
    BY <1>9, <2>1, <2>2, <2>3, <2>4 DEF Commit, TypeOK
<1>10. ASSUME NEW w \in Worker, PollFails(w) PROVE TypeOK'
  BY <1>10, LeaveType, FaultType DEF PollFails, TypeOK
<1>11. ASSUME NEW w \in Worker, BackoffCancelled(w) PROVE TypeOK'
  BY <1>11, LeaveType DEF BackoffCancelled, TypeOK
<1>12. ASSUME NEW w \in Worker, DLQFails(w) PROVE TypeOK'
  <2>1. dlq' \in SUBSET (Partition \X Nat \X Nat)
    BY <1>12, DLQType DEF DLQFails, TypeOK
  <2>2. QED
    BY <1>12, <2>1, LeaveType, FaultType DEF DLQFails, TypeOK
<1>13. ASSUME NEW w \in Worker, CommitFails(w) PROVE TypeOK'
  <2>1. committed' \in [Partition -> Nat]
    BY <1>13, CommitType DEF CommitFails, TypeOK
  <2>2. disruptions' \in 0..MaxDisruptions
    BY <1>13, FaultType DEF CommitFails, TypeOK
  <2>3. QED
    BY <1>13, <2>1, <2>2, LeaveType DEF CommitFails, TypeOK
<1>14. ASSUME NEW w \in Worker, Expire(w) PROVE TypeOK'
  BY <1>14 DEF Expire, Expel, TypeOK
<1>15. ASSUME NEW w \in Worker, Evict(w) PROVE TypeOK'
  BY <1>15, DisruptType DEF Evict, Expel, TypeOK
<1>16. ASSUME NEW w \in Worker, Signal(w) PROVE TypeOK'
  BY <1>16, DisruptType DEF Signal, TypeOK
<1>17. ASSUME NEW w \in Worker, Crash(w) PROVE TypeOK'
  BY <1>17, DisruptType, LeaveType DEF Crash, TypeOK
<1>18. ASSUME NEW w \in Worker, Restart(w) PROVE TypeOK'
  BY <1>18 DEF Restart, TypeOK, PC
<1>19. CASE UNCHANGED vars
  BY <1>19 DEF vars, TypeOK
<1>20. QED
  BY <1>1, <1>2, <1>3, <1>4, <1>5, <1>6, <1>7, <1>8, <1>9, <1>10, <1>11, <1>12, <1>13,
     <1>14, <1>15, <1>16, <1>17, <1>18, <1>19 DEF Next, Loop
-----------------------------------------------------------------------------
(* The inductive invariant. *)

\* What Poll hands to a worker is the record its group has to commit next.
LEMMA PollTakesNext ==
  ASSUME TypeOK, HeldInv, OwnerInv, NEW w \in Worker, Poll(w)
  PROVE  \E p \in Partition :
           /\ owner[p] = w
           /\ w \in member
           /\ position[p] = committed[p]
           /\ position[p] < Len(log[p])
           /\ held' = [held EXCEPT ![w] = <<p, position[p]>>]
           /\ position' = [position EXCEPT ![p] = @ + 1]
<1>1. PICK p \in Partition :
        /\ owner[p] = w
        /\ position[p] < Len(log[p])
        /\ held' = [held EXCEPT ![w] = <<p, position[p]>>]
        /\ position' = [position EXCEPT ![p] = @ + 1]
  BY DEF Poll
<1>2. pc[w] = "poll" /\ held[w] = NoRecord
  BY DEF Poll, HeldInv, Busy
<1>3. owner[p] # NoWorker
  BY <1>1, ConstantsAssumption
<1>4. w \in member /\ position[p] = committed[p]
  BY <1>1, <1>2, <1>3 DEF OwnerInv
<1>5. QED
  BY <1>1, <1>4

\* A failed commit either stored the offset or left it alone.
LEMMA CommitFailsOutcome ==
  ASSUME NEW w \in Worker, CommitFails(w)
  PROVE  UNCHANGED committed \/ CommitAccepted(w)
BY DEF CommitFails

\* An accepted commit moves the committed offset of the worker's partition past
\* the worker's record, by one.
LEMMA CommitAdvances ==
  ASSUME TypeOK, HeldInv, CurrentInv, NEW w \in Worker, pc[w] = "commit", CommitAccepted(w)
  PROVE  \E p \in Partition :
           /\ w \in member
           /\ held[w] = <<p, committed[p]>>
           /\ owner[p] = w
           /\ position[p] = committed[p] + 1
           /\ committed' = [committed EXCEPT ![p] = @ + 1]
<1>1. w \in member /\ held[w] # NoRecord
  BY DEF CommitAccepted, HeldInv, Busy
<1>2. /\ held[w][1] \in Partition
      /\ held[w] = <<held[w][1], held[w][2]>>
  BY HeldType DEF Busy
<1>3. /\ owner[held[w][1]] = w
      /\ held[w][2] = committed[held[w][1]]
      /\ position[held[w][1]] = held[w][2] + 1
  BY <1>1 DEF CurrentInv
<1>4. committed' = [committed EXCEPT ![held[w][1]] = @ + 1]
  BY <1>3 DEF CommitAccepted, OffsetAfter
<1>5. QED
  BY <1>1, <1>2, <1>3, <1>4

\* Committed offsets never go back, whether a commit was stored or not.
LEMMA CommittedGrows ==
  ASSUME TypeOK, HeldInv, CurrentInv, NEW w \in Worker, pc[w] = "commit",
         UNCHANGED committed \/ CommitAccepted(w)
  PROVE  \A q \in Partition :
           committed'[q] \in Nat /\ committed[q] \in Nat /\ committed'[q] >= committed[q]
<1>1. CASE UNCHANGED committed
  BY <1>1 DEF TypeOK
<1>2. CASE CommitAccepted(w)
  <2>1. PICK p \in Partition : committed' = [committed EXCEPT ![p] = @ + 1]
    BY <1>2, CommitAdvances
  <2>2. QED
    BY <2>1 DEF TypeOK
<1>3. QED
  BY <1>1, <1>2

\* What is settled stays settled.
LEMMA SettledGrows ==
  ASSUME processed \subseteq processed', dlq \subseteq dlq'
  PROVE  Settled \subseteq Settled'
BY DEF Settled

\* No step leaves a record in hand that the log does not hold.
LEMMA NextHeldInv ==
  ASSUME TypeOK, HeldInv, CurrentInv, OwnerInv, SettledInv, AttemptsInv, [Next]_vars
  PROVE  HeldInv'
<1>1. ASSUME NEW p \in Partition, Publish(p) PROVE HeldInv'
  BY <1>1, HeldType DEF Publish, TypeOK, HeldInv, CurrentInv, OwnerInv, Busy, Settled
<1>2. ASSUME NEW w \in Worker, NEW p \in Partition, Assign(w, p) PROVE HeldInv'
  BY <1>2, HeldType DEF Assign, TypeOK, HeldInv, CurrentInv, OwnerInv, Busy, Settled
<1>3. ASSUME NEW w \in Worker, NEW p \in Partition, Revoke(w, p) PROVE HeldInv'
  BY <1>3, HeldType DEF Revoke, Disrupt, TypeOK, HeldInv, CurrentInv, OwnerInv, Busy, Settled
<1>4. ASSUME NEW w \in Worker, Poll(w) PROVE HeldInv'
  <2>1. PICK p \in Partition :
          /\ position[p] = committed[p]
          /\ position[p] < Len(log[p])
          /\ held' = [held EXCEPT ![w] = <<p, position[p]>>]
    BY <1>4, PollTakesNext
  <2>2. held'[w] = <<p, committed[p]>> /\ held'[w] # NoRecord
    BY <2>1, ConstantsAssumption DEF TypeOK
  <2>3. /\ UNCHANGED <<log, committed, processed, dlq>>
        /\ pc' = [pc EXCEPT ![w] = "process"]
    BY <1>4 DEF Poll
  <2>4. /\ held'[w][2] < Len(log'[held'[w][1]])
        /\ held'[w][2] <= committed'[held'[w][1]]
    BY <2>1, <2>2, <2>3 DEF TypeOK
  <2>5. \A v \in Worker \ {w} : held'[v] = held[v] /\ pc'[v] = pc[v]
    BY <2>1, <2>3 DEF TypeOK
  <2>6. Settled' = Settled
    BY <2>3 DEF Settled
  <2>7. pc'[w] = "process"
    BY <2>3 DEF TypeOK
  <2>8. QED
    BY <2>2, <2>3, <2>4, <2>5, <2>6, <2>7 DEF HeldInv, Busy
<1>5. ASSUME NEW w \in Worker, ProcessSucceeds(w) PROVE HeldInv'
  BY <1>5, HeldType DEF ProcessSucceeds, Attempt, TypeOK, HeldInv, CurrentInv, OwnerInv, Busy, Settled
<1>6. ASSUME NEW w \in Worker, ProcessFails(w) PROVE HeldInv'
  BY <1>6, HeldType DEF ProcessFails, Attempt, GivesUp, TypeOK, HeldInv, CurrentInv, OwnerInv, Busy, Settled
<1>7. ASSUME NEW w \in Worker, BackoffElapses(w) PROVE HeldInv'
  BY <1>7, HeldType DEF BackoffElapses, TypeOK, HeldInv, CurrentInv, OwnerInv, Busy, Settled
<1>8. ASSUME NEW w \in Worker, DLQPublished(w) PROVE HeldInv'
  <2>1. DLQRecord(w) \in dlq' /\ held'[w] = <<DLQRecord(w)[1], DLQRecord(w)[2]>>
    BY <1>8, HeldType DEF DLQPublished, DLQRecord, Busy
  <2>2. held'[w] \in Settled'
    BY <2>1 DEF Settled
  <2>3. Settled \subseteq Settled'
    BY <1>8, SettledGrows DEF DLQPublished
  <2>4. QED
    BY <1>8, <2>2, <2>3 DEF DLQPublished, TypeOK, HeldInv, Busy
<1>9. ASSUME NEW w \in Worker, Commit(w) PROVE HeldInv'
  BY <1>9, HeldType DEF Commit, CommitAccepted, OffsetAfter, TypeOK, HeldInv, CurrentInv, OwnerInv, Busy, Settled
<1>10. ASSUME NEW w \in Worker, PollFails(w) PROVE HeldInv'
  BY <1>10, HeldType DEF PollFails, Leave, TypeOK, HeldInv, CurrentInv, OwnerInv, Busy, Settled
<1>11. ASSUME NEW w \in Worker, BackoffCancelled(w) PROVE HeldInv'
  BY <1>11, HeldType DEF BackoffCancelled, Leave, TypeOK, HeldInv, CurrentInv, OwnerInv, Busy, Settled
<1>12. ASSUME NEW w \in Worker, DLQFails(w) PROVE HeldInv'
  <2>1. Settled \subseteq Settled'
    BY <1>12, SettledGrows DEF DLQFails
  <2>2. QED
    BY <1>12, <2>1 DEF DLQFails, Leave, TypeOK, HeldInv, Busy
<1>13. ASSUME NEW w \in Worker, CommitFails(w) PROVE HeldInv'
  <2>1. \A q \in Partition :
          committed'[q] \in Nat /\ committed[q] \in Nat /\ committed'[q] >= committed[q]
    BY <1>13, CommitFailsOutcome, CommittedGrows DEF CommitFails
  <2>2. Settled' = Settled
    BY <1>13 DEF CommitFails, Settled
  <2>3. pc'[w] = "exited" /\ held'[w] = NoRecord
    BY <1>13 DEF CommitFails, Leave, TypeOK
  <2>4. ASSUME NEW v \in Worker \ {w}, held[v] # NoRecord
        PROVE  held[v][2] <= committed'[held[v][1]]
    <3>1. held[v] \in Partition \X Nat
      BY <2>4 DEF TypeOK
    <3>2. held[v][1] \in Partition /\ held[v][2] \in Nat
      BY <3>1
    <3>3. held[v][2] <= committed[held[v][1]]
      BY <2>4 DEF HeldInv
    <3>4. QED
      BY <2>1, <3>2, <3>3
  <2>5. \A v \in Worker \ {w} : held'[v] = held[v] /\ pc'[v] = pc[v]
    BY <1>13 DEF CommitFails, Leave, TypeOK
  <2>6. log' = log
    BY <1>13 DEF CommitFails
  <2>7. QED
    BY <2>2, <2>3, <2>4, <2>5, <2>6 DEF HeldInv, Busy
<1>14. ASSUME NEW w \in Worker, Expire(w) PROVE HeldInv'
  BY <1>14, HeldType DEF Expire, Expel, TypeOK, HeldInv, CurrentInv, OwnerInv, Busy, Settled
<1>15. ASSUME NEW w \in Worker, Evict(w) PROVE HeldInv'
  BY <1>15, HeldType DEF Evict, Expel, TypeOK, HeldInv, CurrentInv, OwnerInv, Busy, Settled
<1>16. ASSUME NEW w \in Worker, Signal(w) PROVE HeldInv'
  BY <1>16, HeldType DEF Signal, TypeOK, HeldInv, CurrentInv, OwnerInv, Busy, Settled
<1>17. ASSUME NEW w \in Worker, Crash(w) PROVE HeldInv'
  BY <1>17, HeldType DEF Crash, Leave, TypeOK, HeldInv, CurrentInv, OwnerInv, Busy, Settled
<1>18. ASSUME NEW w \in Worker, Restart(w) PROVE HeldInv'
  BY <1>18, HeldType DEF Restart, TypeOK, HeldInv, CurrentInv, OwnerInv, Busy, Settled
<1>19. CASE UNCHANGED vars
  BY <1>19 DEF vars, TypeOK, HeldInv, CurrentInv, OwnerInv, Busy, Settled
<1>20. QED
  BY <1>1, <1>2, <1>3, <1>4, <1>5, <1>6, <1>7, <1>8, <1>9, <1>10, <1>11, <1>12, <1>13, <1>14, <1>15, <1>16, <1>17, <1>18, <1>19 DEF Next, Loop

\* A member with a record in hand stays at the committed offset of its partition.
LEMMA NextCurrentInv ==
  ASSUME TypeOK, HeldInv, CurrentInv, OwnerInv, SettledInv, AttemptsInv, [Next]_vars
  PROVE  CurrentInv'
<1>1. ASSUME NEW p \in Partition, Publish(p) PROVE CurrentInv'
  BY <1>1, HeldType DEF Publish, TypeOK, HeldInv, CurrentInv, OwnerInv, Busy
<1>2. ASSUME NEW w \in Worker, NEW p \in Partition, Assign(w, p) PROVE CurrentInv'
  <2>1. ASSUME NEW v \in member, held[v] # NoRecord PROVE held[v][1] # p
    BY <1>2, <2>1, ConstantsAssumption DEF Assign, CurrentInv, TypeOK
  <2>2. QED
    BY <1>2, <2>1 DEF Assign, CurrentInv, TypeOK
<1>3. ASSUME NEW w \in Worker, NEW p \in Partition, Revoke(w, p) PROVE CurrentInv'
  <2>1. held[w] = NoRecord
    BY <1>3 DEF Revoke, HeldInv, Busy
  <2>2. ASSUME NEW v \in member, held[v] # NoRecord PROVE held[v][1] # p
    BY <1>3, <2>1, <2>2 DEF Revoke, CurrentInv
  <2>3. QED
    BY <1>3, <2>2 DEF Revoke, CurrentInv, TypeOK
<1>4. ASSUME NEW w \in Worker, Poll(w) PROVE CurrentInv'
  <2>1. PICK p \in Partition :
          /\ owner[p] = w
          /\ position[p] = committed[p]
          /\ held' = [held EXCEPT ![w] = <<p, position[p]>>]
          /\ position' = [position EXCEPT ![p] = @ + 1]
    BY <1>4, PollTakesNext
  <2>2. UNCHANGED <<owner, committed, member>>
    BY <1>4 DEF Poll
  <2>3. ASSUME NEW v \in member, v # w, held[v] # NoRecord
        PROVE  /\ owner[held[v][1]] = v
               /\ held[v][2] = committed[held[v][1]]
               /\ position'[held[v][1]] = held[v][2] + 1
    <3>1. held[v][1] # p
      BY <2>1, <2>3 DEF CurrentInv
    <3>2. held[v][1] \in Partition
      BY <2>3 DEF TypeOK
    <3>3. QED
      BY <2>1, <2>3, <3>1, <3>2 DEF CurrentInv, TypeOK
  <2>4. \A v \in member \ {w} : held'[v] = held[v]
    BY <2>1 DEF TypeOK
  <2>5. held'[w] = <<p, committed[p]>> /\ position'[p] = committed[p] + 1
    BY <2>1 DEF TypeOK
  <2>6. QED
    BY <2>1, <2>2, <2>3, <2>4, <2>5 DEF CurrentInv
<1>5. ASSUME NEW w \in Worker, ProcessSucceeds(w) PROVE CurrentInv'
  BY <1>5, HeldType DEF ProcessSucceeds, Attempt, TypeOK, HeldInv, CurrentInv, OwnerInv, Busy
<1>6. ASSUME NEW w \in Worker, ProcessFails(w) PROVE CurrentInv'
  BY <1>6, HeldType DEF ProcessFails, Attempt, GivesUp, TypeOK, HeldInv, CurrentInv, OwnerInv, Busy
<1>7. ASSUME NEW w \in Worker, BackoffElapses(w) PROVE CurrentInv'
  BY <1>7, HeldType DEF BackoffElapses, TypeOK, HeldInv, CurrentInv, OwnerInv, Busy
<1>8. ASSUME NEW w \in Worker, DLQPublished(w) PROVE CurrentInv'
  BY <1>8, HeldType DEF DLQPublished, DLQRecord, TypeOK, HeldInv, CurrentInv, OwnerInv, Busy
<1>9. ASSUME NEW w \in Worker, Commit(w) PROVE CurrentInv'
  <2>1. PICK p \in Partition :
          /\ owner[p] = w
          /\ committed' = [committed EXCEPT ![p] = @ + 1]
    BY <1>9, CommitAdvances DEF Commit
  <2>2. held' = [held EXCEPT ![w] = NoRecord] /\ UNCHANGED <<owner, member, position>>
    BY <1>9 DEF Commit
  <2>3. ASSUME NEW v \in member, v # w, held[v] # NoRecord
        PROVE  committed'[held[v][1]] = committed[held[v][1]]
    <3>1. held[v][1] # p
      BY <2>1, <2>3 DEF CurrentInv
    <3>2. held[v][1] \in Partition
      BY <2>3 DEF TypeOK
    <3>3. QED
      BY <2>1, <3>1, <3>2 DEF TypeOK
  <2>4. held'[w] = NoRecord /\ \A v \in member \ {w} : held'[v] = held[v]
    BY <2>2 DEF TypeOK
  <2>5. QED
    BY <2>2, <2>3, <2>4 DEF CurrentInv
<1>10. ASSUME NEW w \in Worker, PollFails(w) PROVE CurrentInv'
  BY <1>10, HeldType DEF PollFails, Leave, TypeOK, HeldInv, CurrentInv, OwnerInv, Busy
<1>11. ASSUME NEW w \in Worker, BackoffCancelled(w) PROVE CurrentInv'
  BY <1>11, HeldType DEF BackoffCancelled, Leave, TypeOK, HeldInv, CurrentInv, OwnerInv, Busy
<1>12. ASSUME NEW w \in Worker, DLQFails(w) PROVE CurrentInv'
  BY <1>12, HeldType DEF DLQFails, DLQRecord, Leave, TypeOK, HeldInv, CurrentInv, OwnerInv, Busy
<1>13. ASSUME NEW w \in Worker, CommitFails(w) PROVE CurrentInv'
  <2>1. CASE UNCHANGED committed
    BY <1>13, <2>1 DEF CommitFails, Leave, CurrentInv, TypeOK
  <2>2. CASE CommitAccepted(w)
    <3>1. PICK p \in Partition :
            /\ owner[p] = w
            /\ committed' = [committed EXCEPT ![p] = @ + 1]
      BY <1>13, <2>2, CommitAdvances DEF CommitFails
    <3>2. held' = [held EXCEPT ![w] = NoRecord] /\ UNCHANGED <<owner, member, position>>
      BY <1>13 DEF CommitFails, Leave
    <3>3. ASSUME NEW v \in member, v # w, held[v] # NoRecord
          PROVE  committed'[held[v][1]] = committed[held[v][1]]
      <4>1. held[v][1] # p
        BY <3>1, <3>3 DEF CurrentInv
      <4>2. held[v][1] \in Partition
        BY <3>3 DEF TypeOK
      <4>3. QED
        BY <3>1, <4>1, <4>2 DEF TypeOK
    <3>4. held'[w] = NoRecord /\ \A v \in member \ {w} : held'[v] = held[v]
      BY <3>2 DEF TypeOK
    <3>5. QED
      BY <3>2, <3>3, <3>4 DEF CurrentInv
  <2>3. QED
    BY <1>13, <2>1, <2>2, CommitFailsOutcome
<1>14. ASSUME NEW w \in Worker, Expire(w) PROVE CurrentInv'
  BY <1>14, HeldType DEF Expire, Expel, TypeOK, HeldInv, CurrentInv, OwnerInv, Busy
<1>15. ASSUME NEW w \in Worker, Evict(w) PROVE CurrentInv'
  BY <1>15, HeldType DEF Evict, Expel, TypeOK, HeldInv, CurrentInv, OwnerInv, Busy
<1>16. ASSUME NEW w \in Worker, Signal(w) PROVE CurrentInv'
  BY <1>16, HeldType DEF Signal, TypeOK, HeldInv, CurrentInv, OwnerInv, Busy
<1>17. ASSUME NEW w \in Worker, Crash(w) PROVE CurrentInv'
  BY <1>17, HeldType DEF Crash, Leave, TypeOK, HeldInv, CurrentInv, OwnerInv, Busy
<1>18. ASSUME NEW w \in Worker, Restart(w) PROVE CurrentInv'
  BY <1>18, HeldType DEF Restart, TypeOK, HeldInv, CurrentInv, OwnerInv, Busy
<1>19. CASE UNCHANGED vars
  BY <1>19 DEF vars, TypeOK, HeldInv, CurrentInv, OwnerInv, Busy
<1>20. QED
  BY <1>1, <1>2, <1>3, <1>4, <1>5, <1>6, <1>7, <1>8, <1>9, <1>10, <1>11, <1>12, <1>13, <1>14, <1>15, <1>16, <1>17, <1>18, <1>19 DEF Next, Loop

\* An owner's position stays at, or one record ahead of, the committed offset.
LEMMA NextOwnerInv ==
  ASSUME TypeOK, HeldInv, CurrentInv, OwnerInv, SettledInv, AttemptsInv, [Next]_vars
  PROVE  OwnerInv'
<1>1. ASSUME NEW p \in Partition, Publish(p) PROVE OwnerInv'
  BY <1>1, HeldType DEF Publish, TypeOK, HeldInv, CurrentInv, OwnerInv, Busy
<1>2. ASSUME NEW w \in Worker, NEW p \in Partition, Assign(w, p) PROVE OwnerInv'
  BY <1>2, HeldType DEF Assign, TypeOK, HeldInv, CurrentInv, OwnerInv, Busy
<1>3. ASSUME NEW w \in Worker, NEW p \in Partition, Revoke(w, p) PROVE OwnerInv'
  BY <1>3, HeldType DEF Revoke, Disrupt, TypeOK, HeldInv, CurrentInv, OwnerInv, Busy
<1>4. ASSUME NEW w \in Worker, Poll(w) PROVE OwnerInv'
  <2>1. PICK p \in Partition :
          /\ owner[p] = w
          /\ held' = [held EXCEPT ![w] = <<p, position[p]>>]
          /\ position' = [position EXCEPT ![p] = @ + 1]
    BY <1>4, PollTakesNext
  <2>2. pc[w] = "poll" /\ held[w] = NoRecord
    BY <1>4 DEF Poll, HeldInv, Busy
  <2>3. UNCHANGED <<owner, member, committed>> /\ pc' = [pc EXCEPT ![w] = "process"]
    BY <1>4 DEF Poll
  <2>4. held'[w] # NoRecord /\ held'[w][1] = p
    <3>1. held'[w] = <<p, position[p]>>
      BY <2>1 DEF TypeOK
    <3>2. <<p, position[p]>> \in Partition \X Nat
      BY DEF TypeOK
    <3>3. QED
      BY <3>1, <3>2, ConstantsAssumption
  <2>5. \A q \in Partition \ {p} : position'[q] = position[q]
    BY <2>1 DEF TypeOK
  <2>6. \A v \in Worker \ {w} : held'[v] = held[v] /\ pc'[v] = pc[v]
    BY <2>1, <2>3 DEF TypeOK
  <2>7. ASSUME NEW q \in Partition, q # p, owner[q] # NoWorker
        PROVE  \/ pc'[owner[q]] = "exited"
               \/ held'[owner[q]] # NoRecord /\ held'[owner[q]][1] = q
               \/ position'[q] = committed[q]
    <3>1. CASE owner[q] = w
      BY <2>2, <2>5, <2>7, <3>1 DEF OwnerInv
    <3>2. CASE owner[q] # w
      BY <2>5, <2>6, <2>7, <3>2 DEF OwnerInv, TypeOK
    <3>3. QED
      BY <3>1, <3>2
  <2>8. QED
    BY <2>1, <2>3, <2>4, <2>7 DEF OwnerInv
<1>5. ASSUME NEW w \in Worker, ProcessSucceeds(w) PROVE OwnerInv'
  BY <1>5, HeldType DEF ProcessSucceeds, Attempt, TypeOK, HeldInv, CurrentInv, OwnerInv, Busy
<1>6. ASSUME NEW w \in Worker, ProcessFails(w) PROVE OwnerInv'
  BY <1>6, HeldType DEF ProcessFails, Attempt, GivesUp, TypeOK, HeldInv, CurrentInv, OwnerInv, Busy
<1>7. ASSUME NEW w \in Worker, BackoffElapses(w) PROVE OwnerInv'
  BY <1>7, HeldType DEF BackoffElapses, TypeOK, HeldInv, CurrentInv, OwnerInv, Busy
<1>8. ASSUME NEW w \in Worker, DLQPublished(w) PROVE OwnerInv'
  BY <1>8, HeldType DEF DLQPublished, DLQRecord, TypeOK, HeldInv, CurrentInv, OwnerInv, Busy
<1>9. ASSUME NEW w \in Worker, Commit(w) PROVE OwnerInv'
  BY <1>9, HeldType DEF Commit, CommitAccepted, OffsetAfter, TypeOK, HeldInv, CurrentInv, OwnerInv, Busy
<1>10. ASSUME NEW w \in Worker, PollFails(w) PROVE OwnerInv'
  BY <1>10, HeldType DEF PollFails, Leave, TypeOK, HeldInv, CurrentInv, OwnerInv, Busy
<1>11. ASSUME NEW w \in Worker, BackoffCancelled(w) PROVE OwnerInv'
  BY <1>11, HeldType DEF BackoffCancelled, Leave, TypeOK, HeldInv, CurrentInv, OwnerInv, Busy
<1>12. ASSUME NEW w \in Worker, DLQFails(w) PROVE OwnerInv'
  BY <1>12, HeldType DEF DLQFails, DLQRecord, Leave, TypeOK, HeldInv, CurrentInv, OwnerInv, Busy
<1>13. ASSUME NEW w \in Worker, CommitFails(w) PROVE OwnerInv'
  <2>1. pc' = [pc EXCEPT ![w] = "exited"] /\ held' = [held EXCEPT ![w] = NoRecord]
    BY <1>13 DEF CommitFails, Leave
  <2>2. UNCHANGED <<owner, member, position>>
    BY <1>13 DEF CommitFails
  <2>3. \A q \in Partition : owner[q] # w => committed'[q] = committed[q]
    BY <1>13, CommitFailsOutcome, CommitAdvances DEF CommitFails, TypeOK
  <2>4. QED
    BY <2>1, <2>2, <2>3 DEF OwnerInv, TypeOK
<1>14. ASSUME NEW w \in Worker, Expire(w) PROVE OwnerInv'
  BY <1>14, HeldType DEF Expire, Expel, TypeOK, HeldInv, CurrentInv, OwnerInv, Busy
<1>15. ASSUME NEW w \in Worker, Evict(w) PROVE OwnerInv'
  BY <1>15, HeldType DEF Evict, Expel, TypeOK, HeldInv, CurrentInv, OwnerInv, Busy
<1>16. ASSUME NEW w \in Worker, Signal(w) PROVE OwnerInv'
  BY <1>16, HeldType DEF Signal, TypeOK, HeldInv, CurrentInv, OwnerInv, Busy
<1>17. ASSUME NEW w \in Worker, Crash(w) PROVE OwnerInv'
  BY <1>17, HeldType DEF Crash, Leave, TypeOK, HeldInv, CurrentInv, OwnerInv, Busy
<1>18. ASSUME NEW w \in Worker, Restart(w) PROVE OwnerInv'
  BY <1>18, HeldType DEF Restart, TypeOK, HeldInv, CurrentInv, OwnerInv, Busy
<1>19. CASE UNCHANGED vars
  BY <1>19 DEF vars, TypeOK, HeldInv, CurrentInv, OwnerInv, Busy
<1>20. QED
  BY <1>1, <1>2, <1>3, <1>4, <1>5, <1>6, <1>7, <1>8, <1>9, <1>10, <1>11, <1>12, <1>13, <1>14, <1>15, <1>16, <1>17, <1>18, <1>19 DEF Next, Loop

\* No step settles a record past the one to commit next.
LEMMA NextSettledInv ==
  ASSUME TypeOK, HeldInv, CurrentInv, OwnerInv, SettledInv, AttemptsInv, [Next]_vars
  PROVE  SettledInv'
<1>1. ASSUME NEW p \in Partition, Publish(p) PROVE SettledInv'
  <2>1. \A q \in Partition : log[q] \in Seq(Kind) /\ Len(log'[q]) >= Len(log[q])
                                /\ Len(log[q]) \in Nat /\ Len(log'[q]) \in Nat
    BY <1>1 DEF Publish, TypeOK
  <2>2. Settled' = Settled /\ committed' = committed
    BY <1>1 DEF Publish, Settled
  <2>3. Settled \subseteq Partition \X Nat
    BY DEF Settled, TypeOK
  <2>4. QED
    BY <2>1, <2>2, <2>3 DEF SettledInv
<1>2. ASSUME NEW w \in Worker, NEW p \in Partition, Assign(w, p) PROVE SettledInv'
  BY <1>2, HeldType DEF Assign, TypeOK, HeldInv, CurrentInv, SettledInv, Busy, Settled
<1>3. ASSUME NEW w \in Worker, NEW p \in Partition, Revoke(w, p) PROVE SettledInv'
  BY <1>3, HeldType DEF Revoke, Disrupt, TypeOK, HeldInv, CurrentInv, SettledInv, Busy, Settled
<1>4. ASSUME NEW w \in Worker, Poll(w) PROVE SettledInv'
  BY <1>4, HeldType DEF Poll, TypeOK, HeldInv, CurrentInv, SettledInv, Busy, Settled
<1>5. ASSUME NEW w \in Worker, ProcessSucceeds(w) PROVE SettledInv'
  BY <1>5, HeldType DEF ProcessSucceeds, Attempt, TypeOK, HeldInv, CurrentInv, SettledInv, Busy, Settled
<1>6. ASSUME NEW w \in Worker, ProcessFails(w) PROVE SettledInv'
  BY <1>6, HeldType DEF ProcessFails, Attempt, GivesUp, TypeOK, HeldInv, CurrentInv, SettledInv, Busy, Settled
<1>7. ASSUME NEW w \in Worker, BackoffElapses(w) PROVE SettledInv'
  BY <1>7, HeldType DEF BackoffElapses, TypeOK, HeldInv, CurrentInv, SettledInv, Busy, Settled
<1>8. ASSUME NEW w \in Worker, DLQPublished(w) PROVE SettledInv'
  BY <1>8, HeldType DEF DLQPublished, DLQRecord, TypeOK, HeldInv, CurrentInv, SettledInv, Busy, Settled
<1>9. ASSUME NEW w \in Worker, Commit(w) PROVE SettledInv'
  BY <1>9, HeldType DEF Commit, CommitAccepted, OffsetAfter, TypeOK, HeldInv, CurrentInv, SettledInv, Busy, Settled
<1>10. ASSUME NEW w \in Worker, PollFails(w) PROVE SettledInv'
  BY <1>10, HeldType DEF PollFails, Leave, TypeOK, HeldInv, CurrentInv, SettledInv, Busy, Settled
<1>11. ASSUME NEW w \in Worker, BackoffCancelled(w) PROVE SettledInv'
  BY <1>11, HeldType DEF BackoffCancelled, Leave, TypeOK, HeldInv, CurrentInv, SettledInv, Busy, Settled
<1>12. ASSUME NEW w \in Worker, DLQFails(w) PROVE SettledInv'
  BY <1>12, HeldType DEF DLQFails, DLQRecord, Leave, TypeOK, HeldInv, CurrentInv, SettledInv, Busy, Settled
<1>13. ASSUME NEW w \in Worker, CommitFails(w) PROVE SettledInv'
  <2>1. \A q \in Partition :
          committed'[q] \in Nat /\ committed[q] \in Nat /\ committed'[q] >= committed[q]
    BY <1>13, CommitFailsOutcome, CommittedGrows DEF CommitFails
  <2>2. Settled' = Settled /\ log' = log
    BY <1>13 DEF CommitFails, Settled
  <2>3. Settled \subseteq Partition \X Nat
    BY DEF Settled, TypeOK
  <2>4. QED
    BY <2>1, <2>2, <2>3 DEF SettledInv
<1>14. ASSUME NEW w \in Worker, Expire(w) PROVE SettledInv'
  BY <1>14, HeldType DEF Expire, Expel, TypeOK, HeldInv, CurrentInv, SettledInv, Busy, Settled
<1>15. ASSUME NEW w \in Worker, Evict(w) PROVE SettledInv'
  BY <1>15, HeldType DEF Evict, Expel, TypeOK, HeldInv, CurrentInv, SettledInv, Busy, Settled
<1>16. ASSUME NEW w \in Worker, Signal(w) PROVE SettledInv'
  BY <1>16, HeldType DEF Signal, TypeOK, HeldInv, CurrentInv, SettledInv, Busy, Settled
<1>17. ASSUME NEW w \in Worker, Crash(w) PROVE SettledInv'
  BY <1>17, HeldType DEF Crash, Leave, TypeOK, HeldInv, CurrentInv, SettledInv, Busy, Settled
<1>18. ASSUME NEW w \in Worker, Restart(w) PROVE SettledInv'
  BY <1>18, HeldType DEF Restart, TypeOK, HeldInv, CurrentInv, SettledInv, Busy, Settled
<1>19. CASE UNCHANGED vars
  BY <1>19 DEF vars, TypeOK, HeldInv, CurrentInv, SettledInv, Busy, Settled
<1>20. QED
  BY <1>1, <1>2, <1>3, <1>4, <1>5, <1>6, <1>7, <1>8, <1>9, <1>10, <1>11, <1>12, <1>13, <1>14, <1>15, <1>16, <1>17, <1>18, <1>19 DEF Next, Loop

\* The attempt counter stays where Handle's loop keeps it.
LEMMA NextAttemptsInv ==
  ASSUME TypeOK, HeldInv, CurrentInv, OwnerInv, SettledInv, AttemptsInv, [Next]_vars
  PROVE  AttemptsInv'
<1>1. ASSUME NEW p \in Partition, Publish(p) PROVE AttemptsInv'
  BY <1>1, HeldType DEF Publish, TypeOK, HeldInv, AttemptsInv, Busy, KindOf, GivesUp
<1>2. ASSUME NEW w \in Worker, NEW p \in Partition, Assign(w, p) PROVE AttemptsInv'
  BY <1>2, HeldType DEF Assign, TypeOK, HeldInv, AttemptsInv, Busy, KindOf, GivesUp
<1>3. ASSUME NEW w \in Worker, NEW p \in Partition, Revoke(w, p) PROVE AttemptsInv'
  BY <1>3, HeldType DEF Revoke, Disrupt, TypeOK, HeldInv, AttemptsInv, Busy, KindOf, GivesUp
<1>4. ASSUME NEW w \in Worker, Poll(w) PROVE AttemptsInv'
  <2>1. attempts'[w] = 0 /\ pc'[w] = "process"
    BY <1>4 DEF Poll, TypeOK
  <2>2. \A v \in Worker \ {w} :
          held'[v] = held[v] /\ pc'[v] = pc[v] /\ attempts'[v] = attempts[v]
    BY <1>4 DEF Poll, TypeOK
  <2>3. log' = log
    BY <1>4 DEF Poll
  <2>4. QED
    BY <2>1, <2>2, <2>3, ConstantsAssumption DEF AttemptsInv, KindOf
<1>5. ASSUME NEW w \in Worker, ProcessSucceeds(w) PROVE AttemptsInv'
  BY <1>5, HeldType DEF ProcessSucceeds, Attempt, TypeOK, HeldInv, AttemptsInv, Busy, KindOf, GivesUp
<1>6. ASSUME NEW w \in Worker, ProcessFails(w) PROVE AttemptsInv'
  <2>1. attempts[w] \in Nat /\ attempts'[w] = attempts[w] + 1
    BY <1>6, ConstantsAssumption DEF ProcessFails, Attempt, TypeOK
  <2>2. attempts[w] <= (IF KindOf(held[w]) = "malformed" THEN 0 ELSE MaxRetries)
    BY <1>6 DEF ProcessFails, Attempt, AttemptsInv
  <2>3. pc'[w] = IF KindOf(held[w]) = "malformed" \/ attempts[w] + 1 > MaxRetries
                 THEN "dlq" ELSE "backoff"
    BY <1>6 DEF ProcessFails, Attempt, GivesUp, TypeOK
  <2>4. /\ pc'[w] \in {"process", "backoff"} =>
             attempts'[w] <= (IF KindOf(held[w]) = "malformed" THEN 0 ELSE MaxRetries)
        /\ pc'[w] = "dlq" =>
             attempts'[w] = (IF KindOf(held[w]) = "malformed" THEN 1 ELSE MaxRetries + 1)
    BY <2>1, <2>2, <2>3, ConstantsAssumption
  <2>5. UNCHANGED <<log, held>>
    BY <1>6 DEF ProcessFails
  <2>6. \A v \in Worker \ {w} : pc'[v] = pc[v] /\ attempts'[v] = attempts[v]
    BY <1>6 DEF ProcessFails, Attempt, TypeOK
  <2>7. QED
    BY <2>4, <2>5, <2>6 DEF AttemptsInv, KindOf
<1>7. ASSUME NEW w \in Worker, BackoffElapses(w) PROVE AttemptsInv'
  BY <1>7, HeldType DEF BackoffElapses, TypeOK, HeldInv, AttemptsInv, Busy, KindOf, GivesUp
<1>8. ASSUME NEW w \in Worker, DLQPublished(w) PROVE AttemptsInv'
  BY <1>8, HeldType DEF DLQPublished, DLQRecord, TypeOK, HeldInv, AttemptsInv, Busy, KindOf, GivesUp
<1>9. ASSUME NEW w \in Worker, Commit(w) PROVE AttemptsInv'
  BY <1>9, HeldType DEF Commit, CommitAccepted, OffsetAfter, TypeOK, HeldInv, AttemptsInv, Busy, KindOf, GivesUp
<1>10. ASSUME NEW w \in Worker, PollFails(w) PROVE AttemptsInv'
  BY <1>10, HeldType DEF PollFails, Leave, TypeOK, HeldInv, AttemptsInv, Busy, KindOf, GivesUp
<1>11. ASSUME NEW w \in Worker, BackoffCancelled(w) PROVE AttemptsInv'
  BY <1>11, HeldType DEF BackoffCancelled, Leave, TypeOK, HeldInv, AttemptsInv, Busy, KindOf, GivesUp
<1>12. ASSUME NEW w \in Worker, DLQFails(w) PROVE AttemptsInv'
  BY <1>12, HeldType DEF DLQFails, DLQRecord, Leave, TypeOK, HeldInv, AttemptsInv, Busy, KindOf, GivesUp
<1>13. ASSUME NEW w \in Worker, CommitFails(w) PROVE AttemptsInv'
  BY <1>13, HeldType DEF CommitFails, CommitAccepted, OffsetAfter, Leave, TypeOK, HeldInv, AttemptsInv, Busy, KindOf, GivesUp
<1>14. ASSUME NEW w \in Worker, Expire(w) PROVE AttemptsInv'
  BY <1>14, HeldType DEF Expire, Expel, TypeOK, HeldInv, AttemptsInv, Busy, KindOf, GivesUp
<1>15. ASSUME NEW w \in Worker, Evict(w) PROVE AttemptsInv'
  BY <1>15, HeldType DEF Evict, Expel, TypeOK, HeldInv, AttemptsInv, Busy, KindOf, GivesUp
<1>16. ASSUME NEW w \in Worker, Signal(w) PROVE AttemptsInv'
  BY <1>16, HeldType DEF Signal, TypeOK, HeldInv, AttemptsInv, Busy, KindOf, GivesUp
<1>17. ASSUME NEW w \in Worker, Crash(w) PROVE AttemptsInv'
  BY <1>17, HeldType DEF Crash, Leave, TypeOK, HeldInv, AttemptsInv, Busy, KindOf, GivesUp
<1>18. ASSUME NEW w \in Worker, Restart(w) PROVE AttemptsInv'
  BY <1>18, HeldType DEF Restart, TypeOK, HeldInv, AttemptsInv, Busy, KindOf, GivesUp
<1>19. CASE UNCHANGED vars
  BY <1>19 DEF vars, TypeOK, HeldInv, AttemptsInv, Busy, KindOf, GivesUp
<1>20. QED
  BY <1>1, <1>2, <1>3, <1>4, <1>5, <1>6, <1>7, <1>8, <1>9, <1>10, <1>11, <1>12, <1>13, <1>14, <1>15, <1>16, <1>17, <1>18, <1>19 DEF Next, Loop
-----------------------------------------------------------------------------
(* The safety properties. *)

\* No step unsettles a record; a step that moves a committed offset is an accepted
\* commit, and touches nothing else the properties look at.
LEMMA StepEffects ==
  ASSUME [Next]_vars
  PROVE  /\ Settled \subseteq Settled'
         /\ \/ UNCHANGED committed
            \/ \E w \in Worker : /\ pc[w] = "commit"
                                  /\ CommitAccepted(w)
                                  /\ UNCHANGED <<log, processed, dlq>>
<1>1. processed \subseteq processed' /\ dlq \subseteq dlq'
  BY DEF Next, Loop, vars, Publish, Assign, Revoke, Poll, ProcessSucceeds, ProcessFails,
         BackoffElapses, DLQPublished, Commit, PollFails, BackoffCancelled, DLQFails,
         CommitFails, Expire, Evict, Expel, Signal, Crash, Restart
<1>2. \/ UNCHANGED committed
      \/ \E w \in Worker : /\ pc[w] = "commit"
                            /\ CommitAccepted(w)
                            /\ UNCHANGED <<log, processed, dlq>>
  BY DEF Next, Loop, vars, Publish, Assign, Revoke, Poll, ProcessSucceeds, ProcessFails,
         BackoffElapses, DLQPublished, Commit, PollFails, BackoffCancelled, DLQFails,
         CommitFails, Expire, Evict, Expel, Signal, Crash, Restart
<1>3. QED
  BY <1>1, <1>2, SettledGrows

\* No step commits past an unsettled record (Runner.Run commits after Handle).
LEMMA NextCommittedAreSettled ==
  ASSUME TypeOK, HeldInv, CurrentInv, CommittedAreSettled, [Next]_vars
  PROVE  CommittedAreSettled'
<1>1. Settled \subseteq Settled'
  BY StepEffects
<1>2. CASE UNCHANGED committed
  BY <1>1, <1>2 DEF CommittedAreSettled
<1>3. ASSUME NEW w \in Worker, pc[w] = "commit", CommitAccepted(w)
      PROVE  CommittedAreSettled'
  <2>1. PICK p \in Partition : /\ held[w] = <<p, committed[p]>>
                               /\ committed' = [committed EXCEPT ![p] = @ + 1]
    BY <1>3, CommitAdvances
  <2>2. <<p, committed[p]>> \in Settled
    BY <1>3, <2>1 DEF HeldInv
  <2>3. ASSUME NEW q \in Partition, NEW o \in 0..(committed'[q] - 1)
        PROVE  <<q, o>> \in Settled
    <3>1. CASE q = p /\ o = committed[p]
      BY <2>2, <3>1
    <3>2. CASE ~(q = p /\ o = committed[p])
      <4>1. o \in 0..(committed[q] - 1)
        BY <2>1, <3>2 DEF TypeOK
      <4>2. QED
        BY <4>1 DEF CommittedAreSettled
    <3>3. QED
      BY <3>1, <3>2
  <2>4. QED
    BY <1>1, <2>3 DEF CommittedAreSettled
<1>4. QED
  BY <1>2, <1>3, StepEffects

\* No step parks a well-formed record before its retries ran out.
LEMMA NextDLQOnlyAfterRetries ==
  ASSUME TypeOK, HeldInv, SettledInv, AttemptsInv, DLQOnlyAfterRetries, [Next]_vars
  PROVE  DLQOnlyAfterRetries'
<1>1. ASSUME NEW d \in dlq PROVE d[1] \in Partition /\ d[2] \in Nat /\ d[2] < Len(log[d[1]])
  <2>1. d[1] \in Partition /\ d[2] \in Nat
    BY DEF TypeOK
  <2>2. <<d[1], d[2]>> \in Settled
    BY DEF Settled
  <2>3. QED
    BY <2>1, <2>2 DEF SettledInv
<1>2. CASE UNCHANGED <<log, dlq>>
  BY <1>2 DEF DLQOnlyAfterRetries, KindOf
<1>3. ASSUME NEW p \in Partition, Publish(p) PROVE DLQOnlyAfterRetries'
  <2>1. PICK k \in Kind : log' = [log EXCEPT ![p] = Append(@, k)]
    BY <1>3 DEF Publish
  <2>2. dlq' = dlq
    BY <1>3 DEF Publish
  <2>3. ASSUME NEW d \in dlq PROVE KindOf(d)' = KindOf(d)
    <3>1. log[d[1]] \in Seq(Kind) /\ d[2] + 1 \in 1..Len(log[d[1]])
      BY <1>1 DEF TypeOK
    <3>2. log'[d[1]] \in {log[d[1]], Append(log[d[1]], k)}
      BY <1>1, <2>1 DEF TypeOK
    <3>3. QED
      BY <3>1, <3>2 DEF KindOf
  <2>4. QED
    BY <2>2, <2>3 DEF DLQOnlyAfterRetries
<1>4. ASSUME NEW w \in Worker, pc[w] = "dlq", UNCHANGED log,
             dlq' \in {dlq, dlq \union {DLQRecord(w)}}
      PROVE  DLQOnlyAfterRetries'
  <2>1. KindOf(DLQRecord(w)) = KindOf(held[w]) /\ DLQRecord(w)[3] = attempts[w]
    BY DEF KindOf, DLQRecord
  <2>2. attempts[w] = IF KindOf(held[w]) = "malformed" THEN 1 ELSE MaxRetries + 1
    BY <1>4 DEF AttemptsInv
  <2>3. \A d \in dlq' : KindOf(d)' = KindOf(d)
    BY <1>4 DEF KindOf
  <2>4. QED
    BY <1>4, <2>1, <2>2, <2>3 DEF DLQOnlyAfterRetries
<1>5. \/ UNCHANGED <<log, dlq>>
      \/ \E p \in Partition : Publish(p)
      \/ \E w \in Worker : /\ pc[w] = "dlq"
                            /\ UNCHANGED log
                            /\ dlq' \in {dlq, dlq \union {DLQRecord(w)}}
  BY DEF Next, Loop, vars, Assign, Revoke, Poll, ProcessSucceeds, ProcessFails,
         BackoffElapses, DLQPublished, Commit, PollFails, BackoffCancelled, DLQFails,
         CommitFails, Expire, Evict, Expel, Signal, Crash, Restart
<1>6. QED
  BY <1>2, <1>3, <1>4, <1>5

IInv == /\ TypeOK
        /\ ConsumerInv
        /\ CommittedAreSettled
        /\ DLQOnlyAfterRetries

\* The inductive invariant holds at the start.
LEMMA InitIInv == Init => IInv
<1> SUFFICES ASSUME Init PROVE IInv
  OBVIOUS
<1>1. TypeOK
  BY InitTypeOK
<1>2. Settled = {}
  BY DEF Init, Settled
<1>3. ConsumerInv
  BY <1>2 DEF Init, ConsumerInv, HeldInv, CurrentInv, OwnerInv, SettledInv, AttemptsInv, Busy
<1>4. CommittedAreSettled /\ DLQOnlyAfterRetries
  BY DEF Init, CommittedAreSettled, DLQOnlyAfterRetries
<1>5. QED
  BY <1>1, <1>3, <1>4 DEF IInv

\* Every step keeps the inductive invariant.
LEMMA NextIInv == IInv /\ [Next]_vars => IInv'
BY NextTypeOK, NextHeldInv, NextCurrentInv, NextOwnerInv, NextSettledInv, NextAttemptsInv,
   NextCommittedAreSettled, NextDLQOnlyAfterRetries
DEF IInv, ConsumerInv

\* The inductive invariant of the consumer loop and its group holds throughout.
THEOREM Invariance == Safety => []IInv
BY InitIInv, NextIInv, PTL DEF Safety

\* Every variable keeps its type.
THEOREM TypeCorrect == Safety => []TypeOK
BY Invariance, PTL DEF IInv

\* The group never commits past a record that was neither processed nor parked.
THEOREM NoRecordSkipped == Safety => []CommittedAreSettled
BY Invariance, PTL DEF IInv

\* The group, its coordinator and its clients agree on the record that comes next.
THEOREM GroupAgrees == Safety => []ConsumerInv
BY Invariance, PTL DEF IInv

\* The dead-letter topic holds no record with retries left.
THEOREM RetriesBeforeDLQ == Safety => []DLQOnlyAfterRetries
BY Invariance, PTL DEF IInv

\* Exclusive handling follows from what members and owners agree on.
LEMMA IInvOneHandler == IInv => OneHandlerPerPartition
<1> SUFFICES ASSUME TypeOK, CurrentInv, NEW v \in member, NEW w \in member,
                    v # w, held[v] # NoRecord, held[w] # NoRecord
             PROVE  held[v][1] # held[w][1]
  BY DEF IInv, ConsumerInv, OneHandlerPerPartition
<1>1. owner[held[v][1]] = v /\ owner[held[w][1]] = w
  BY DEF CurrentInv
<1>2. QED
  BY <1>1

\* No two members of the group handle records of one partition at a time.
THEOREM ExclusiveHandling == Safety => []OneHandlerPerPartition
BY Invariance, IInvOneHandler, PTL

-----------------------------------------------------------------------------
(* The order of the effects. *)

\* No record past the next one to commit has been attempted.
LatestInv == \A p \in Partition : latest[p] <= committed[p] + 1

\* Nothing is attempted at the start.
LEMMA InitLatestInv == Init => LatestInv
BY DEF Init, LatestInv

\* An attempt is at a record in hand and sets latest to its place.
LEMMA AttemptSetsLatest ==
  ASSUME TypeOK, HeldInv, NEW w \in Worker, Attempt(w)
  PROVE  /\ held[w] \in Partition \X Nat
         /\ held[w][2] <= committed[held[w][1]]
         /\ latest' = [latest EXCEPT ![held[w][1]] = held[w][2] + 1]
<1>1. pc[w] = "process" /\ pc[w] \in Busy
  BY DEF Attempt, Busy
<1>2. held[w] # NoRecord
  BY <1>1 DEF HeldInv
<1>3. held[w] \in Partition \X Nat
  BY <1>1, HeldType
<1>4. QED
  BY <1>2, <1>3 DEF HeldInv, Attempt

\* Every step but an attempt leaves latest as it is, and none takes a commit back.
LEMMA LatestSteps ==
  ASSUME TypeOK, HeldInv, CurrentInv, [Next]_vars
  PROVE  \/ UNCHANGED <<latest, committed>>
         \/ \E w \in Worker : Attempt(w) /\ UNCHANGED committed
         \/ /\ UNCHANGED latest
            /\ \A q \in Partition :
                 committed'[q] \in Nat /\ committed[q] \in Nat /\ committed'[q] >= committed[q]
<1>1. ASSUME NEW w \in Worker, Commit(w) \/ CommitFails(w)
      PROVE  /\ UNCHANGED latest
             /\ \A q \in Partition :
                  committed'[q] \in Nat /\ committed[q] \in Nat /\ committed'[q] >= committed[q]
  <2>1. pc[w] = "commit" /\ UNCHANGED latest
    BY <1>1 DEF Commit, CommitFails
  <2>2. UNCHANGED committed \/ CommitAccepted(w)
    BY <1>1 DEF Commit, CommitFails
  <2>3. QED
    BY <2>1, <2>2, CommittedGrows
<1>2. ASSUME NEW w \in Worker, ProcessSucceeds(w) \/ ProcessFails(w)
      PROVE  Attempt(w) /\ UNCHANGED committed
  BY <1>2 DEF ProcessSucceeds, ProcessFails
<1>3. \/ UNCHANGED <<latest, committed>>
      \/ \E w \in Worker : Commit(w) \/ CommitFails(w)
      \/ \E w \in Worker : ProcessSucceeds(w) \/ ProcessFails(w)
  BY DEF Next, Loop, vars, Publish, Assign, Revoke, Poll, BackoffElapses, DLQPublished,
         PollFails, BackoffCancelled, DLQFails, Expire, Evict, Expel, Signal, Crash, Restart
<1>4. QED
  BY <1>1, <1>2, <1>3

\* No step attempts a record past the next one to commit.
LEMMA NextLatestInv ==
  ASSUME TypeOK, HeldInv, CurrentInv, LatestInv, [Next]_vars
  PROVE  LatestInv'
<1>1. CASE UNCHANGED <<latest, committed>>
  BY <1>1 DEF LatestInv
<1>2. ASSUME NEW w \in Worker, Attempt(w), UNCHANGED committed
      PROVE  LatestInv'
  <2>1. /\ held[w] \in Partition \X Nat
        /\ held[w][2] <= committed[held[w][1]]
        /\ latest' = [latest EXCEPT ![held[w][1]] = held[w][2] + 1]
    BY <1>2, AttemptSetsLatest
  <2>2. ASSUME NEW p \in Partition PROVE latest'[p] <= committed[p] + 1
    <3>1. latest[p] \in Nat /\ committed[p] \in Nat /\ latest \in [Partition -> Nat]
      BY DEF TypeOK
    <3>2. CASE p = held[w][1]
      <4>1. latest'[p] = held[w][2] + 1
        BY <2>1, <3>1, <3>2
      <4>2. QED
        BY <2>1, <3>1, <3>2, <4>1
    <3>3. CASE p # held[w][1]
      BY <2>1, <3>1, <3>3 DEF LatestInv
    <3>4. QED
      BY <3>2, <3>3
  <2>3. QED
    BY <1>2, <2>2 DEF LatestInv
<1>3. CASE /\ UNCHANGED latest
           /\ \A q \in Partition :
                committed'[q] \in Nat /\ committed[q] \in Nat /\ committed'[q] >= committed[q]
  BY <1>3 DEF LatestInv, TypeOK
<1>4. QED
  BY <1>1, <1>2, <1>3, LatestSteps

\* An attempt by a member is at the next record to commit, hence at none earlier
\* than the last one attempted.
LEMMA MemberStep ==
  ASSUME TypeOK, HeldInv, CurrentInv, LatestInv, [Next]_vars,
         NEW p \in Partition, latest'[p] < latest[p]
  PROVE  \E w \in Worker \ member : pc[w] = "process" /\ held[w][1] = p
<1>0. latest \in [Partition -> Nat] /\ committed \in [Partition -> Nat]
  BY DEF TypeOK
<1>1. latest[p] \in Nat /\ ~(latest[p] < latest[p])
  BY <1>0
<1>2. PICK w \in Worker : Attempt(w)
  BY <1>1, LatestSteps
<1>3. /\ held[w] \in Partition \X Nat
      /\ latest' = [latest EXCEPT ![held[w][1]] = held[w][2] + 1]
  BY <1>2, AttemptSetsLatest
<1>4. held[w][1] = p
  BY <1>0, <1>1, <1>3
<1>5. latest'[p] = held[w][2] + 1
  BY <1>0, <1>3, <1>4
<1>6. held[w] # NoRecord /\ pc[w] = "process"
  BY <1>2 DEF Attempt, HeldInv, Busy
<1>7. ASSUME w \in member PROVE FALSE
  <2>1. held[w][2] = committed[p]
    BY <1>4, <1>6, <1>7 DEF CurrentInv
  <2>2. QED
    BY <1>0, <1>5, <2>1 DEF LatestInv
<1>8. QED
  BY <1>4, <1>6, <1>7

\* Whatever rebalances, crashes and expulsions happen, only a worker outside the
\* group attempts a record after a later one.
THEOREM OrderedEffects == Safety => MembersInOrder
<1>1. IInv => TypeOK /\ HeldInv /\ CurrentInv
  BY DEF IInv, ConsumerInv
<1>2. IInv /\ LatestInv /\ [Next]_vars => LatestInv'
  BY <1>1, NextLatestInv
<1>3. IInv /\ LatestInv /\ [Next]_vars =>
        [\A p \in Partition :
           latest'[p] < latest[p] =>
             \E w \in Worker \ member : pc[w] = "process" /\ held[w][1] = p]_vars
  BY <1>1, MemberStep
<1>4. QED
  BY <1>2, <1>3, InitLatestInv, Invariance, PTL DEF Safety, MembersInOrder

-----------------------------------------------------------------------------
(* The loop implements AtLeastOnce. *)

\* The initial states are initial states of AtLeastOnce.
LEMMA InitPromise == Init => Promise!Init
BY DEF Init, Promise!Init, Settled

\* Settling the record in hand is a step of the promise, or no step at all when
\* it was settled before.
LEMMA SettleStep ==
  ASSUME TypeOK, HeldInv, CommittedAreSettled, NEW w \in Worker, pc[w] \in Busy,
         Settled' = Settled \union {held[w]}, UNCHANGED <<log, committed>>
  PROVE  [Promise!Next]_(Promise!vars)
<1>1. PICK p \in Partition, o \in Nat : held[w] = <<p, o>>
  BY HeldType
<1>2. o < Len(log[p]) /\ o <= committed[p]
  BY <1>1 DEF HeldInv, Busy
<1>3. CASE o = committed[p]
  BY <1>1, <1>2, <1>3 DEF Promise!Next, Promise!Settle
<1>4. CASE o # committed[p]
  <2>1. o \in 0..(committed[p] - 1)
    BY <1>2, <1>4 DEF TypeOK
  <2>2. held[w] \in Settled
    BY <1>1, <2>1 DEF CommittedAreSettled
  <2>3. QED
    BY <2>2 DEF Promise!vars
<1>5. QED
  BY <1>3, <1>4

\* An accepted commit acknowledges the next record of its partition.
LEMMA CommitStep ==
  ASSUME TypeOK, HeldInv, CurrentInv, NEW w \in Worker, pc[w] = "commit", CommitAccepted(w),
         UNCHANGED <<log, processed, dlq>>
  PROVE  [Promise!Next]_(Promise!vars)
<1>1. PICK p \in Partition : /\ held[w] = <<p, committed[p]>>
                             /\ committed' = [committed EXCEPT ![p] = @ + 1]
  BY CommitAdvances
<1>2. <<p, committed[p]>> \in Settled
  BY <1>1 DEF HeldInv
<1>3. UNCHANGED <<log, Settled>>
  BY DEF Settled
<1>4. QED
  BY <1>1, <1>2, <1>3 DEF Promise!Next, Promise!Acknowledge

\* Every step is a step of AtLeastOnce or a stutter.
LEMMA NextPromise == IInv /\ [Next]_vars => [Promise!Next]_(Promise!vars)
<1> SUFFICES ASSUME IInv, [Next]_vars PROVE [Promise!Next]_(Promise!vars)
  OBVIOUS
<1>1. TypeOK /\ HeldInv /\ CurrentInv /\ CommittedAreSettled
  BY DEF IInv, ConsumerInv
<1>2. ASSUME NEW p \in Partition, Publish(p) PROVE [Promise!Next]_(Promise!vars)
  <2>1. UNCHANGED <<Settled, committed>>
    BY <1>2 DEF Publish, Settled
  <2>2. QED
    BY <1>2, <2>1 DEF Publish, Promise!Next, Promise!Publish
<1>3. ASSUME NEW w \in Worker, ProcessSucceeds(w) PROVE [Promise!Next]_(Promise!vars)
  <2>1. pc[w] \in Busy /\ UNCHANGED <<log, committed>>
    BY <1>3 DEF ProcessSucceeds, Attempt, Busy
  <2>2. Settled' = Settled \union {held[w]}
    BY <1>3 DEF ProcessSucceeds, Settled
  <2>3. QED
    BY <1>1, <2>1, <2>2, SettleStep
<1>4. ASSUME NEW w \in Worker, pc[w] = "dlq", UNCHANGED <<log, committed, processed>>,
             dlq' = dlq \union {DLQRecord(w)}
      PROVE  [Promise!Next]_(Promise!vars)
  <2>1. held[w] = <<DLQRecord(w)[1], DLQRecord(w)[2]>>
    BY <1>1, <1>4, HeldType DEF DLQRecord, Busy
  <2>2. Settled' = Settled \union {held[w]}
    BY <1>4, <2>1 DEF Settled
  <2>3. QED
    BY <1>1, <1>4, <2>2, SettleStep DEF Busy
<1>5. ASSUME NEW w \in Worker, pc[w] = "commit", CommitAccepted(w),
             UNCHANGED <<log, processed, dlq>>
      PROVE  [Promise!Next]_(Promise!vars)
  BY <1>1, <1>5, CommitStep
<1>6. CASE UNCHANGED <<log, committed, processed, dlq>>
  BY <1>6 DEF Promise!vars, Settled
<1>7. \/ \E p \in Partition : Publish(p)
      \/ \E w \in Worker : ProcessSucceeds(w)
      \/ \E w \in Worker : /\ pc[w] = "dlq"
                            /\ UNCHANGED <<log, committed, processed>>
                            /\ dlq' = dlq \union {DLQRecord(w)}
      \/ \E w \in Worker : /\ pc[w] = "commit"
                            /\ CommitAccepted(w)
                            /\ UNCHANGED <<log, processed, dlq>>
      \/ UNCHANGED <<log, committed, processed, dlq>>
  BY DEF Next, Loop, vars, Assign, Revoke, Poll, ProcessFails, Attempt, BackoffElapses,
         DLQPublished, Commit, PollFails, BackoffCancelled, DLQFails, CommitFails, Expire,
         Evict, Expel, Signal, Crash, Restart
<1>8. QED
  BY <1>2, <1>3, <1>4, <1>5, <1>6, <1>7

\* Whatever the workers, the coordinator and the broker do, each partition's records
\* settle in turn, one at a time, and are committed only after that.
THEOREM Refinement == Safety => PromiseKept
BY InitPromise, NextPromise, Invariance, PTL DEF Safety, PromiseKept, Promise!Spec
=============================================================================
