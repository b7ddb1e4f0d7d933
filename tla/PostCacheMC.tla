----------------------------- MODULE PostCacheMC -----------------------------
(* Model definitions for PostCache: posts and requests are interchangeable.    *)
EXTENDS PostCache, TLC

Symmetry == Permutations(Post) \union Permutations(Request)
=============================================================================
