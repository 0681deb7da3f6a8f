---------------------------- MODULE MCFolderIndex ----------------------------
(* Instances of FolderIndex.                                                *)
EXTENDS FolderIndex, TLC

CONSTANTS p1, p2
MCProcs == {p1, p2}
Symmetry == Permutations(MCProcs)

(* Two processes on one file, or one and fewer edits on two files: the second
   file appears when at most one process is at work, and keeps it so.       *)
TwoOfOne ==
  \/ newest[2] = 0
  \/ newest[1] + newest[2] <= 3 /\ \E p \in Procs : proc[p] = IdleProcess
=============================================================================
