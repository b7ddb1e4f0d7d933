---------------------------- MODULE HybridFanoutMC ----------------------------
(* Model definitions for HybridFanout: users are interchangeable.              *)
EXTENDS HybridFanout

Symmetry == Permutations(User)
===============================================================================
