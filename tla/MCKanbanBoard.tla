--------------------------- MODULE MCKanbanBoard ---------------------------
(* Three clients and four operations, three of them at the same time.         *)
EXTENDS KanbanBoard, TLC

CONSTANTS c1, c2, c3

ClientSymmetry == Permutations(Client)
=============================================================================
