--------------------------- MODULE FanoutConsumer ---------------------------
(***************************************************************************)
(* The Kafka loop of the fanout worker                                     *)
(* (services/fanout-worker/internal/consumer/consumer.go) as run by        *)
(* several worker processes of one consumer group (cmd/worker/main.go).    *)
(*                                                                         *)
(* One worker is the loop of Runner.Run with RecordHandler.Handle inlined: *)
(* poll one record, process it with bounded retries, park it in the        *)
(* dead-letter topic if that fails, commit its offset, allow a rebalance.  *)
(* What Process does to Redis is module HybridFanout's subject: here an    *)
(* attempt succeeds or fails.                                              *)
(*                                                                         *)
(* The broker side (logs, group membership, assignment, the committed      *)
(* offsets) and the franz-go client are external, modelled from the        *)
(* options main.go passes: DisableAutoCommit, BlockRebalanceOnPoll and     *)
(* ConsumeResetOffset(AtStart).                                            *)
(***************************************************************************)
EXTENDS Naturals, Sequences, FiniteSets

CONSTANTS
    Worker,         \* worker processes of the group
    Partition,      \* partitions of post-events and follow-events
    NoWorker,       \* the owner of an unassigned partition
    NoRecord,       \* what an idle worker holds
    MaxRetries,     \* FANOUT_MAX_RETRIES
    MaxRecords,     \* bound: records published per partition
    MaxDisruptions, \* bound: crashes, signals, broker errors, rebalances
    Evictions       \* whether the broker may expel a live worker that holds a record

ASSUME ConstantsAssumption ==
    /\ NoWorker \notin Worker
    /\ NoRecord \notin Partition \X Nat
    /\ MaxRetries \in Nat
    /\ MaxRecords \in Nat
    /\ MaxDisruptions \in Nat
    /\ Evictions \in BOOLEAN

VARIABLES
    log,         \* per partition, the records published: "valid" or "malformed"
    committed,   \* per partition, the group's committed offset
    owner,       \* per partition, the worker the coordinator assigned it to
    member,      \* workers the coordinator counts in the current generation
    position,    \* per partition, the fetch position of its owner's client
    pc,          \* where each worker is in Runner.Run
    held,        \* <<partition, offset>> of the record each worker handles
    attempts,    \* the attempts counter of Handle
    stopping,    \* workers whose context is cancelled (SIGINT, SIGTERM)
    processed,   \* records some Process call has returned nil for
    dlq,         \* <<partition, offset, x-failure-attempts>> of the DLQ records
    latest,      \* history: per partition, 1 + offset of the last Process call
    disruptions  \* bound counter

vars == <<log, committed, owner, member, position, pc, held, attempts, stopping,
          processed, dlq, latest, disruptions>>

Kind == {"valid", "malformed"}

PC == {"poll", "process", "backoff", "dlq", "commit", "exited"}

\* Where a worker has a record in hand, so rebalances are blocked.
Busy == {"process", "backoff", "dlq", "commit"}

TypeOK ==
    /\ log \in [Partition -> Seq(Kind)]
    /\ committed \in [Partition -> Nat]
    /\ owner \in [Partition -> Worker \union {NoWorker}]
    /\ member \in SUBSET Worker
    /\ position \in [Partition -> Nat]
    /\ pc \in [Worker -> PC]
    /\ held \in [Worker -> (Partition \X Nat) \union {NoRecord}]
    /\ attempts \in [Worker -> 0..(MaxRetries + 1)]
    /\ stopping \in SUBSET Worker
    /\ processed \in SUBSET (Partition \X Nat)
    /\ dlq \in SUBSET (Partition \X Nat \X Nat)
    /\ latest \in [Partition -> Nat]
    /\ disruptions \in 0..MaxDisruptions

Init ==
    /\ log = [p \in Partition |-> <<>>]
    /\ committed = [p \in Partition |-> 0]
    /\ owner = [p \in Partition |-> NoWorker]
    /\ member = Worker
    /\ position = [p \in Partition |-> 0]
    /\ pc = [w \in Worker |-> "poll"]
    /\ held = [w \in Worker |-> NoRecord]
    /\ attempts = [w \in Worker |-> 0]
    /\ stopping = {}
    /\ processed = {}
    /\ dlq = {}
    /\ latest = [p \in Partition |-> 0]
    /\ disruptions = 0

\* A record is settled once processed or durably in the DLQ.
Settled == processed \union {<<d[1], d[2]>> : d \in dlq}

KindOf(r) == log[r[1]][r[2] + 1]

Disrupt == /\ disruptions < MaxDisruptions
           /\ disruptions' = disruptions + 1

-----------------------------------------------------------------------------
(* The broker and the producers. *)

\* post-service or social-graph-service appends an event, or someone a record
\* that does not parse.
Publish(p) ==
    /\ Len(log[p]) < MaxRecords
    /\ \E k \in Kind : log' = [log EXCEPT ![p] = Append(@, k)]
    /\ UNCHANGED <<committed, owner, member, position, pc, held, attempts, stopping,
                   processed, dlq, latest, disruptions>>

\* The coordinator assigns a free partition; the client starts to fetch at the
\* committed offset (at the start when there is none).  A worker with a record
\* in hand takes part in no rebalance (BlockRebalanceOnPoll).
Assign(w, p) ==
    /\ owner[p] = NoWorker
    /\ w \in member
    /\ pc[w] = "poll"
    /\ owner' = [owner EXCEPT ![p] = w]
    /\ position' = [position EXCEPT ![p] = committed[p]]
    /\ UNCHANGED <<log, committed, member, pc, held, attempts, stopping, processed,
                   dlq, latest, disruptions>>

\* MUTANT: rebalances not blocked while a record is in hand.
RevokeAnyTime(w, p) ==
    /\ Disrupt
    /\ owner[p] = w
    /\ owner' = [owner EXCEPT ![p] = NoWorker]
    /\ UNCHANGED <<log, committed, member, position, pc, held, attempts, stopping,
                   processed, dlq, latest>>

\* A rebalance takes a partition from a worker between two records.
Revoke(w, p) ==
    /\ Disrupt
    /\ owner[p] = w
    /\ pc[w] = "poll"
    /\ owner' = [owner EXCEPT ![p] = NoWorker]
    /\ UNCHANGED <<log, committed, member, position, pc, held, attempts, stopping,
                   processed, dlq, latest>>

\* What the coordinator does when it drops w from the group.
Expel(w) ==
    /\ w \in member
    /\ member' = member \ {w}
    /\ owner' = [p \in Partition |-> IF owner[p] = w THEN NoWorker ELSE owner[p]]
    /\ UNCHANGED <<log, committed, position, pc, held, attempts, stopping, processed,
                   dlq, latest>>

\* The session of a worker that has exited runs out (or it left the group).
Expire(w) ==
    /\ pc[w] = "exited"
    /\ Expel(w)
    /\ UNCHANGED disruptions

\* A worker that keeps a rebalance waiting past the rebalance timeout, or that
\* the broker cannot reach, is expelled with its record still in hand.
Evict(w) ==
    /\ Evictions
    /\ pc[w] \in Busy
    /\ Disrupt
    /\ Expel(w)

-----------------------------------------------------------------------------
(* Runner.Run and RecordHandler.Handle. *)

\* The process ends: Run returned, or it was killed.  It forgets its record.
Leave(w) ==
    /\ pc' = [pc EXCEPT ![w] = "exited"]
    /\ held' = [held EXCEPT ![w] = NoRecord]
    /\ attempts' = [attempts EXCEPT ![w] = 0]

\* An error the caller sees, for which w's cancelled context or a fault of the
\* environment is the cause.
Fault(w) == \/ w \in stopping /\ UNCHANGED disruptions
            \/ Disrupt

\* Poll returns the next record of a partition w owns.
Poll(w) ==
    /\ pc[w] = "poll"
    /\ \E p \in Partition :
         /\ owner[p] = w
         /\ position[p] < Len(log[p])
         /\ held' = [held EXCEPT ![w] = <<p, position[p]>>]
         /\ position' = [position EXCEPT ![p] = @ + 1]
    /\ pc' = [pc EXCEPT ![w] = "process"]
    /\ attempts' = [attempts EXCEPT ![w] = 0]
    /\ UNCHANGED <<log, committed, owner, member, stopping, processed, dlq, latest,
                   disruptions>>

\* Poll returns an error, or the context's cancellation: Run returns.
PollFails(w) ==
    /\ pc[w] = "poll"
    /\ Fault(w)
    /\ Leave(w)
    /\ UNCHANGED <<log, committed, owner, member, position, stopping, processed, dlq,
                   latest>>

\* Every Process call on a record, whether or not it succeeds, may touch Redis.
Attempt(w) ==
    /\ pc[w] = "process"
    /\ attempts' = [attempts EXCEPT ![w] = @ + 1]
    /\ latest' = [latest EXCEPT ![held[w][1]] = held[w][2] + 1]

ProcessSucceeds(w) ==
    /\ Attempt(w)
    /\ KindOf(held[w]) = "valid"
    /\ processed' = processed \union {held[w]}
    /\ pc' = [pc EXCEPT ![w] = "commit"]
    /\ UNCHANGED <<log, committed, owner, member, position, held, stopping, dlq,
                   disruptions>>

\* MUTANTS: one retry too many; permanent errors retried.
GivesUpLate(kind, n) == kind = "malformed" \/ n > MaxRetries + 1
GivesUpOnCountOnly(kind, n) == n > MaxRetries

\* Handle's loop condition: no retry of a permanent error, nor after the last.
GivesUp(kind, n) == kind = "malformed" \/ n > MaxRetries

\* MUTANT: a record that used up its retries is committed without a DLQ copy.
ProcessFailsDropping(w) ==
    /\ Attempt(w)
    /\ pc' = [pc EXCEPT ![w] = IF GivesUp(KindOf(held[w]), attempts[w] + 1)
                               THEN "commit" ELSE "backoff"]
    /\ UNCHANGED <<log, committed, owner, member, position, held, stopping, processed,
                   dlq, disruptions>>

\* A malformed payload fails for good (ErrPermanent); a valid one may fail at
\* any attempt because Postgres or Redis does.
ProcessFails(w) ==
    /\ Attempt(w)
    /\ pc' = [pc EXCEPT ![w] = IF GivesUp(KindOf(held[w]), attempts[w] + 1)
                               THEN "dlq" ELSE "backoff"]
    /\ UNCHANGED <<log, committed, owner, member, position, held, stopping, processed,
                   dlq, disruptions>>

BackoffElapses(w) ==
    /\ pc[w] = "backoff"
    /\ pc' = [pc EXCEPT ![w] = "process"]
    /\ UNCHANGED <<log, committed, owner, member, position, held, attempts, stopping,
                   processed, dlq, latest, disruptions>>

\* sleep returns the context's error and Handle returns it: nothing is committed.
BackoffCancelled(w) ==
    /\ pc[w] = "backoff"
    /\ w \in stopping
    /\ Leave(w)
    /\ UNCHANGED <<log, committed, owner, member, position, stopping, processed, dlq,
                   latest, disruptions>>

DLQRecord(w) == <<held[w][1], held[w][2], attempts[w]>>

\* ProduceSync acknowledged the dead-letter record.
DLQPublished(w) ==
    /\ pc[w] = "dlq"
    /\ dlq' = dlq \union {DLQRecord(w)}
    /\ pc' = [pc EXCEPT ![w] = "commit"]
    /\ UNCHANGED <<log, committed, owner, member, position, held, attempts, stopping,
                   processed, latest, disruptions>>

\* MUTANT: a failed DLQ publish is logged and the record committed.
DLQFailureIgnored(w) ==
    /\ pc[w] = "dlq"
    /\ Fault(w)
    /\ dlq' \in {dlq, dlq \union {DLQRecord(w)}}
    /\ pc' = [pc EXCEPT ![w] = "commit"]
    /\ UNCHANGED <<log, committed, owner, member, position, held, attempts, stopping,
                   processed, latest>>

\* PublishDLQ failed, the record appended or not: Handle returns the error.
DLQFails(w) ==
    /\ pc[w] = "dlq"
    /\ Fault(w)
    /\ dlq' \in {dlq, dlq \union {DLQRecord(w)}}
    /\ Leave(w)
    /\ UNCHANGED <<log, committed, owner, member, position, stopping, processed, latest>>

\* MUTANT: the commit names the record's own offset.
OffsetOf(r) == r[2]

\* The offset the commit of record r writes.
OffsetAfter(r) == r[2] + 1

\* MUTANT: commits of former members go through.
CommitUnfenced(w) == committed' = [committed EXCEPT ![held[w][1]] = OffsetAfter(held[w])]

\* The broker accepts commits of members of the current generation only.
CommitAccepted(w) ==
    /\ w \in member
    /\ committed' = [committed EXCEPT ![held[w][1]] = OffsetAfter(held[w])]

\* Commit returns nil; Run allows a rebalance and polls again.
Commit(w) ==
    /\ pc[w] = "commit"
    /\ CommitAccepted(w)
    /\ pc' = [pc EXCEPT ![w] = "poll"]
    /\ held' = [held EXCEPT ![w] = NoRecord]
    /\ attempts' = [attempts EXCEPT ![w] = 0]
    /\ UNCHANGED <<log, owner, member, position, stopping, processed, dlq, latest,
                   disruptions>>

\* Commit returns an error and Run returns it: the broker refused a former
\* member, or the request or its answer was lost.
CommitFails(w) ==
    /\ pc[w] = "commit"
    /\ \/ w \notin member /\ UNCHANGED <<committed, disruptions>>
       \/ Fault(w) /\ UNCHANGED committed
       \/ Fault(w) /\ CommitAccepted(w)
    /\ Leave(w)
    /\ UNCHANGED <<log, owner, member, position, stopping, processed, dlq, latest>>

-----------------------------------------------------------------------------
(* The process around the loop. *)

\* SIGINT or SIGTERM cancels the context Run and Process work under.
Signal(w) ==
    /\ pc[w] # "exited"
    /\ w \notin stopping
    /\ Disrupt
    /\ stopping' = stopping \union {w}
    /\ UNCHANGED <<log, committed, owner, member, position, pc, held, attempts,
                   processed, dlq, latest>>

\* The process is killed at any point.
Crash(w) ==
    /\ pc[w] # "exited"
    /\ Disrupt
    /\ Leave(w)
    /\ UNCHANGED <<log, committed, owner, member, position, stopping, processed, dlq,
                   latest>>

\* The deployment restarts it (restart: unless-stopped) and it joins the group
\* again, as a new member.
Restart(w) ==
    /\ pc[w] = "exited"
    /\ w \notin member
    /\ pc' = [pc EXCEPT ![w] = "poll"]
    /\ member' = member \union {w}
    /\ stopping' = stopping \ {w}
    /\ UNCHANGED <<log, committed, owner, position, held, attempts, processed, dlq,
                   latest, disruptions>>

-----------------------------------------------------------------------------
\* The steps of Run and Handle that no fault of the environment is behind.
Loop(w) ==
    \/ Poll(w)
    \/ ProcessSucceeds(w) \/ ProcessFails(w)
    \/ BackoffElapses(w)
    \/ DLQPublished(w)
    \/ Commit(w)

Next ==
    \/ \E p \in Partition : Publish(p)
    \/ \E w \in Worker, p \in Partition : Assign(w, p) \/ Revoke(w, p)
    \/ \E w \in Worker :
         \/ Loop(w)
         \/ PollFails(w) \/ BackoffCancelled(w) \/ DLQFails(w) \/ CommitFails(w)
         \/ Expire(w) \/ Evict(w)
         \/ Signal(w) \/ Crash(w) \/ Restart(w)

Safety == Init /\ [][Next]_vars

\* A running worker keeps executing its loop, one it cannot finish included (the
\* commit a former member is refused); sessions of dead workers run out; the
\* deployment restarts them; the coordinator hands out free partitions.
\* Faults stop after MaxDisruptions of them.
Fairness ==
    /\ \A w \in Worker : /\ WF_vars(Loop(w) \/ CommitFails(w))
                         /\ WF_vars(Expire(w))
                         /\ WF_vars(Restart(w))
    /\ \A p \in Partition : WF_vars(\E w \in Worker : Assign(w, p))

Spec == Safety /\ Fairness

-----------------------------------------------------------------------------
(* The inductive invariant behind the safety properties. *)

\* Workers with a record in hand are where Handle or Commit runs; the record is
\* a published one, not past the committed offset, and settled before a commit.
HeldInv ==
    \A w \in Worker :
        /\ pc[w] \in Busy <=> held[w] # NoRecord
        /\ held[w] # NoRecord => /\ held[w][2] < Len(log[held[w][1]])
                                 /\ held[w][2] <= committed[held[w][1]]
        /\ pc[w] = "commit" => held[w] \in Settled

\* A member's record is the next uncommitted one of a partition it owns.
CurrentInv ==
    \A w \in member :
        held[w] # NoRecord => /\ owner[held[w][1]] = w
                              /\ held[w][2] = committed[held[w][1]]
                              /\ position[held[w][1]] = held[w][2] + 1

\* A running owner with no record of the partition in hand fetches next exactly
\* the record the group has to commit next.
OwnerInv ==
    \A p \in Partition :
        owner[p] # NoWorker =>
            /\ owner[p] \in member
            /\ \/ pc[owner[p]] = "exited"
               \/ held[owner[p]] # NoRecord /\ held[owner[p]][1] = p
               \/ position[p] = committed[p]

\* Nothing is settled past the record to commit next.
SettledInv ==
    \A r \in Settled : r[2] <= committed[r[1]] /\ r[2] < Len(log[r[1]])

\* Where a record in hand stands in Handle's loop.
AttemptsInv ==
    \A w \in Worker :
        /\ pc[w] \in {"process", "backoff"} =>
              attempts[w] <= (IF KindOf(held[w]) = "malformed" THEN 0 ELSE MaxRetries)
        /\ pc[w] = "dlq" =>
              attempts[w] = (IF KindOf(held[w]) = "malformed" THEN 1 ELSE MaxRetries + 1)

-----------------------------------------------------------------------------
(* Properties. *)

\* A committed offset covers only records that were processed or durably put in
\* the dead-letter topic: no crash, rebalance, retry or lost answer makes the
\* group skip a record (the comments at consumer.go:37-38 and :119-120).
CommittedAreSettled ==
    \A p \in Partition : \A o \in 0..(committed[p] - 1) : <<p, o>> \in Settled

\* The dead-letter topic holds a well-formed record only after all of its
\* MaxRetries + 1 attempts, and a malformed one after exactly one
\* (x-failure-attempts, consumer.go:48).
DLQOnlyAfterRetries ==
    \A d \in dlq : d[3] = IF KindOf(d) = "malformed" THEN 1 ELSE MaxRetries + 1

\* Two workers the coordinator counts in the group never have records of the
\* same partition in hand, whatever rebalances happened in between
\* (BlockRebalanceOnPoll with AllowRebalance after the commit only).
OneHandlerPerPartition ==
    \A v, w \in member :
        (v # w /\ held[v] # NoRecord /\ held[w] # NoRecord) => held[v][1] # held[w][1]

\* The inductive invariant as a whole: whatever the interleaving of polls,
\* rebalances, evictions and lost commit answers, a member's record, its client's
\* fetch position and the group's committed offset never disagree.
ConsumerInv == HeldInv /\ CurrentInv /\ OwnerInv /\ SettledInv /\ AttemptsInv

\* Effects of a partition's records reach Redis in offset order: once a record
\* has been attempted no earlier one is (IMPLEMENTATION_PLAN.md, section 5.3:
\* all events of one author are processed in order).
EffectsInOrder == [][\A p \in Partition : latest'[p] >= latest[p]]_vars

\* Only a worker that was expelled with its record in hand can bring an effect out
\* of order: one that the coordinator counts in the group, whatever it retries and
\* whatever rebalances and expulsions went before, never attempts a record after a
\* later one of its partition was attempted (consumer.go:103-126).
MembersInOrder ==
    [][\A p \in Partition :
        latest'[p] < latest[p] =>
            \E w \in Worker \ member : pc[w] = "process" /\ held[w][1] = p]_vars

\* Every record published is eventually committed, hence eventually processed or
\* parked: no poison record or crash blocks a partition for ever.
EveryRecordCommitted ==
    \A p \in Partition : \A o \in 0..(MaxRecords - 1) :
        (Len(log[p]) > o) ~> (committed[p] > o)

\* The loop implements the promise: what is settled is the union of what was
\* processed and what was parked.
Promise == INSTANCE AtLeastOnce WITH settled <- Settled

\* Every step of the group settles or acknowledges the next record of a
\* partition, or changes neither.
PromiseKept == Promise!Spec
=============================================================================
