------------------------------- MODULE MCFiles -------------------------------
(* Bounded instances of OperationFiles: runs that follow one another, and a  *)
(* clock with fewer times than there are runs, so that folder names collide. *)
EXTENDS OperationFiles, TLC

Symmetry == Permutations(Runs) \cup Permutations(Stamps)
=============================================================================
