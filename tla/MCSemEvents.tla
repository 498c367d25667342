---------------------------- MODULE MCSemEvents ----------------------------
(* SemEvents with semaphores and processes as symmetric model values: the  *)
(* specification and its invariants compare them for equality only.        *)
EXTENDS SemEvents

Symmetry == Permutations(Sems) \cup Permutations(Pids)
=============================================================================
