----------------------------- MODULE MCCacheFile -----------------------------
(* The processes are interchangeable. *)
EXTENDS CacheFile, TLC

CONSTANTS p1, p2

MCProcesses == {p1, p2}
Symmetry == Permutations(MCProcesses)
=============================================================================
