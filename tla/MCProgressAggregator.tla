------------------------ MODULE MCProgressAggregator ------------------------
(* A commission of two tasks, each executed at most twice, with two           *)
(* submissions in total.                                                      *)
EXTENDS ProgressAggregator, TLC

CONSTANTS t1, t2

TaskSymmetry == Permutations(Task)
=============================================================================
