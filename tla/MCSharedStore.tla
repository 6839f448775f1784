--------------------------- MODULE MCSharedStore ---------------------------
(* With three processes one can finish before the other two overlap, or    *)
(* two overlap with a third in turn.  Nothing tells the processes apart.   *)
EXTENDS SharedStore, TLC

ProcSymmetry == Permutations(Procs)
=============================================================================
