-------------------------- MODULE MCDependencyGraph --------------------------
(* Instances of DependencyOrder for TLC.                                      *)
EXTENDS DependencyOrder, TLC

CONSTANTS t1, t2, t3

TaskSymmetry == Permutations(Task)
=============================================================================
