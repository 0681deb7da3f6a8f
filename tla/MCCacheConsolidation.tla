------------------------ MODULE MCCacheConsolidation ------------------------
(* What entries say is interchangeable. *)
EXTENDS CacheConsolidation, TLC

CONSTANTS a, b, c

MCContents == {a, b, c}
Symmetry == Permutations(MCContents)
=============================================================================
