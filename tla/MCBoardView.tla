---------------------------- MODULE MCBoardView ----------------------------
(* A view that subscribes to two types of event and is connected at most      *)
(* twice. The bus has three subscriptions left beside those of the daemon, so *)
(* that the second stream may be refused halfway.                             *)
EXTENDS BoardView

TaskEvents == {"task.created", "task.moved"}

TaskPattern == <<"task.created", "task.moved">>
=============================================================================
