---------------------------- MODULE AtLeastOnce ----------------------------
(***************************************************************************)
(* What the fanout worker's consumer loop promises to the rest of the      *)
(* system, with the workers, the retries and the rebalances left out: each *)
(* partition is a log; its next uncommitted record is settled (processed,  *)
(* or parked in the dead-letter topic) any number of times, and is         *)
(* committed only after that.  Records never settle out of turn, and the   *)
(* committed offset only ever moves past a settled record.                 *)
(***************************************************************************)
EXTENDS Naturals, Sequences

CONSTANTS Partition, Kind

VARIABLES log, settled, committed

vars == <<log, settled, committed>>

Init == /\ log = [p \in Partition |-> <<>>]
        /\ settled = {}
        /\ committed = [p \in Partition |-> 0]

Publish(p) ==
    /\ \E k \in Kind : log' = [log EXCEPT ![p] = Append(@, k)]
    /\ UNCHANGED <<settled, committed>>

Settle(p) ==
    /\ committed[p] < Len(log[p])
    /\ settled' = settled \union {<<p, committed[p]>>}
    /\ UNCHANGED <<log, committed>>

Acknowledge(p) ==
    /\ <<p, committed[p]>> \in settled
    /\ committed' = [committed EXCEPT ![p] = @ + 1]
    /\ UNCHANGED <<log, settled>>

Next == \E p \in Partition : Publish(p) \/ Settle(p) \/ Acknowledge(p)

Spec == Init /\ [][Next]_vars
============================================================================
