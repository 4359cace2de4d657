---------------------------- MODULE TaskLifecycle ----------------------------
(* What the scheduler promises its clients about one another's tasks, without *)
(* queues, agents or goroutines: a task waits, runs once its dependencies     *)
(* have succeeded, and ends in success or failure, for good. A failed run may *)
(* also leave the task waiting for another try. The process may die and       *)
(* forget everything.                                                         *)
CONSTANTS Task, Deps

VARIABLE phase   \* phase[t]: where task t is

Phase == {"new", "waiting", "running", "succeeded", "failed"}

Init == phase = [t \in Task |-> "new"]

Submit(t) ==
  /\ phase[t] = "new"
  /\ phase' = [phase EXCEPT ![t] = "waiting"]

Run(t) ==
  /\ phase[t] = "waiting"
  /\ \A d \in Deps[t] : phase[d] = "succeeded"
  /\ phase' = [phase EXCEPT ![t] = "running"]

Finish(t) ==
  /\ phase[t] = "running"
  /\ \E end \in {"succeeded", "failed", "waiting"} :
       phase' = [phase EXCEPT ![t] = end]

Forget == phase' = [t \in Task |-> "new"]

Next ==
  \/ \E t \in Task : Submit(t) \/ Run(t) \/ Finish(t)
  \/ Forget

Spec == Init /\ [][Next]_phase
=============================================================================
