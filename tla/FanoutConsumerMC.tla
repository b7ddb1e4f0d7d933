-------------------------- MODULE FanoutConsumerMC --------------------------
(* Model definitions for FanoutConsumer: workers and partitions are           *)
(* interchangeable, for the runs that check safety only.                      *)
EXTENDS FanoutConsumer, TLC

Symmetry == Permutations(Worker) \union Permutations(Partition)
=============================================================================
