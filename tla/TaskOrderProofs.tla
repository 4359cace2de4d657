--------------------------- MODULE TaskOrderProofs ---------------------------
(* What the task scheduler guarantees of the order of things: a task starts   *)
(* after its dependencies, a completed task stays completed, what was         *)
(* reported of a task stays true of it, a task that failed or was assigned is *)
(* not dropped, and no executor runs after Stop; and that so every task has   *)
(* the life TaskLifecycle gives it.                                           *)
EXTENDS TaskSchedulerProofs

-------------------------------------------------------------------------------
(* Stop *)

\* Once Stop has returned nil no executor runs, although an untracked
\* scheduleNext may still start an attempt: the context such an attempt derives
\* its own from is done.
THEOREM QuietAfterStop == Spec => []NothingExecutesAfterStop
<1>1. Init => NothingExecutesAfterStop
  BY DEF Init, NothingExecutesAfterStop
<1>2. TypeOK /\ NothingExecutesAfterStop /\ [Next]_vars
        => NothingExecutesAfterStop'
  <2> SUFFICES ASSUME TypeOK, NothingExecutesAfterStop, [Next]_vars,
                      life' = "returned",
                      NEW t \in Task, NEW n \in Attempt, pc'[t][n] = "exec"
               PROVE  FALSE
    BY DEF NothingExecutesAfterStop
  <2>1. CASE life = "returned"
    <3>1. pc[t][n] # "exec" /\ ~CtxAlive
      BY <2>1 DEF NothingExecutesAfterStop, CtxAlive
    <3>2. ~StopTasks /\ ~Crash
      BY <2>1 DEF StopTasks, Crash
    <3>3. ~StartTaskExecution(n) \/ t # sched.task
      BY DEF StartTaskExecution, MoveTo, TypeOK
    <3>4. ~ContextExpires(t, n)
      BY DEF ContextExpires, MoveTo, TypeOK
    <3>5. ~Execution(t, n)
      <4>1. SUFFICES ASSUME Execution(t, n)
                     PROVE  FALSE
        OBVIOUS
      <4>2. CASE ExecuteTask(t, n)
        <5>1. MoveTo(t, n, "leaked")
          BY <3>1, <4>2 DEF ExecuteTask, ContextDone
        <5>2. QED BY <5>1 DEF MoveTo, TypeOK
      <4>3. CASE ~ExecuteTask(t, n)
        <5>1. \/ \E to \in PC \ {"exec"} : MoveTo(t, n, to)
              \/ \E outcome \in Outcomes : ExecuteReturns(t, n, outcome)
          BY <4>1, <4>3 DEF PC, Execution, MarkComplete, HandleTaskSuccess,
             HandleFailedTask, Requeue, MarkFailed, BlockTask, ReleaseFailed,
             SendResult, DeleteRunning, ReleaseDeferred
        <5>2. \A outcome : ~ExecuteReturns(t, n, outcome)
          BY <3>1 DEF ExecuteReturns
        <5>3. QED BY <5>1, <5>2 DEF MoveTo, TypeOK
      <4>4. QED BY <4>2, <4>3
    <3>6. QED BY <3>1, <3>2, <3>3, <3>4, <3>5, PcChanges
  <2>2. CASE life # "returned"
    <3>1. StopReturns
      <4>1. CASE UNCHANGED vars
        BY <4>1, <2>2 DEF vars
      <4>2. CASE Client
        BY <4>2, <2>2 DEF Client, SubmitTask, ResubmitDeadLetterTask,
           ResubmitRefused, RegisterAgent, UnregisterAgent, ReadResult,
           KanbanUnassign
      <4>3. CASE Scheduling
        BY <4>3, <2>2 DEF Scheduling, ScheduleNext, ScheduleNothing,
           RequestTaskAssignment, RequestFails, ScheduleDone, AssignTask,
           AssignConflict, AssignFault, StartTaskExecution, ExecutorMissing
      <4>4. ASSUME NEW u \in Task, NEW m \in Attempt,
                   Execution(u, m) \/ ContextExpires(u, m)
            PROVE  FALSE
        BY <4>4, <2>2 DEF Execution, ContextExpires, ExecuteTask,
           ExecuteReturns, MarkComplete, HandleTaskSuccess, HandleFailedTask,
           Requeue, MarkFailed, BlockTask, ReleaseFailed, SendResult,
           DeleteRunning, ReleaseDeferred
      <4>5. CASE Lifecycle
        BY <4>5, <2>2 DEF Lifecycle, Start, StopTasks, StopCancel,
           StopTimesOut, Crash
      <4>6. QED BY <4>1, <4>2, <4>3, <4>4, <4>5 DEF Next
    <3>2. pc[t][n] \notin Live /\ pc' = pc
      BY <3>1 DEF StopReturns, WgDone
    <3>3. QED BY <3>2 DEF Live, PC
  <2>3. QED BY <2>1, <2>2
<1>3. QED
  BY <1>1, <1>2, TypeCorrect, PTL DEF Spec

-------------------------------------------------------------------------------
(* A completed task *)

\* Where an attempt is that has nothing left to decide.
Late == {"completed", "block", "failed", "release_failed", "send", "delete",
         "release", "gone"}

\* From there it only goes on to its cleanup.
LEMMA LateSteps ==
  ASSUME TypeOK, [Next]_vars, ~Crash, NEW t \in Task, NEW n \in Attempt,
         pc[t][n] \in Late, pc'[t][n] # pc[t][n]
  PROVE  \/ pc'[t][n] \in {"send", "delete", "release", "gone"}
         \/ pc[t][n] = "block" /\ pc'[t][n] = "failed"
         \/ pc[t][n] = "failed" /\ pc'[t][n] = "release_failed"
<1>1. ~(StartTaskExecution(n) /\ t = sched.task)
  BY DEF StartTaskExecution, Late
<1>2. ~StopTasks /\ ~ContextExpires(t, n)
  BY DEF StopTasks, ContextExpires, Late
<1>3. Execution(t, n)
  BY <1>1, <1>2, PcChanges
<1>4. \/ \E to \in {"send", "delete", "release", "gone"} : MoveTo(t, n, to)
      \/ pc[t][n] = "block" /\ MoveTo(t, n, "failed")
      \/ pc[t][n] = "failed" /\ MoveTo(t, n, "release_failed")
  BY <1>3 DEF Late, Execution, ExecuteTask, ExecuteReturns, MarkComplete,
     HandleTaskSuccess, HandleFailedTask, Requeue, MarkFailed, BlockTask,
     ReleaseFailed, SendResult, DeleteRunning, ReleaseDeferred
<1>5. QED BY <1>4 DEF MoveTo, TypeOK

\* Where an attempt at a task can be once the task is completed.
Over == {"completed", "send", "delete", "release", "gone"}

\* While nobody clears an assignee, the only attempt at a completed task is
\* past the point where it could report a failure. CompletedForGood is an
\* action property: this is the invariant it rests on.
Finished ==
  used["unassign"] = 0 =>
    \A t \in Task : depStatus[t] = "completed" => pc[t][1] \in Over

\* A step after which a task is no longer completed ends the process.
LEMMA CompletedStays ==
  ASSUME TypeOK, ExecutedAtMostOnce, Finished, [Next]_vars,
         used["unassign"] = 0,
         NEW t \in Task, depStatus[t] = "completed"
  PROVE  depStatus'[t] = "completed" \/ Crash
<1>1. ASSUME NEW n \in Attempt, MarkFailed(t, n)
      PROVE  FALSE
  <2>1. pc[t][n] = "block"
    BY <1>1 DEF MarkFailed
  <2>2. n = 1
    BY <2>1, OnlyAttempt
  <2>3. QED BY <2>1, <2>2 DEF Finished, Over
<1>2. ASSUME NEW n \in Attempt, MarkComplete(t, n)
      PROVE  depStatus'[t] = "completed"
  BY <1>2 DEF MarkComplete, TypeOK
<1>3. QED BY <1>1, <1>2, DepStatusChanges

\* The invariant behind CompletedForGood.
LEMMA FinishedHolds == Spec => []Finished
<1>1. Init => Finished
  BY DEF Init, Finished
<1>2. TypeOK /\ ExecutedAtMostOnce /\ Finished /\ [Next]_vars => Finished'
  <2> SUFFICES ASSUME TypeOK, ExecutedAtMostOnce, Finished, [Next]_vars,
                      used'["unassign"] = 0,
                      NEW t \in Task, depStatus'[t] = "completed"
               PROVE  pc'[t][1] \in Over
    BY DEF Finished
  <2>1. used["unassign"] = 0 /\ 1 \in Attempt
    BY NoneCleared, BoundsAssumption DEF Attempt
  <2>2. ~Crash
    BY DEF Crash
  <2>3. CASE depStatus[t] = "completed"
    <3>1. pc[t][1] \in Over
      BY <2>1, <2>3 DEF Finished
    <3>2. pc[t][1] \in Late /\ pc[t][1] \notin {"block", "failed"}
      BY <3>1 DEF Over, Late
    <3>3. QED BY <2>1, <2>2, <3>1, <3>2, LateSteps DEF Over
  <2>4. CASE depStatus[t] # "completed"
    <3>1. PICK n \in Attempt : MarkComplete(t, n) \/ MarkFailed(t, n)
      BY <2>2, <2>4, DepStatusChanges
    <3>2. MarkComplete(t, n)
      BY <3>1 DEF MarkFailed, TypeOK
    <3>3. n = 1
      BY <2>1, <3>2, OnlyAttempt DEF MarkComplete
    <3>4. QED BY <3>2, <3>3 DEF MarkComplete, MoveTo, TypeOK, Over
  <2>5. QED BY <2>3, <2>4
<1>3. QED
  BY <1>1, <1>2, TypeCorrect, AtMostOnce, PTL DEF Spec

\* While nobody clears an assignee, no late failure, retry or resubmission takes
\* back a completion before the process ends.
THEOREM CompletionIsFinal == Spec => CompletedForGood
<1>1. TypeOK /\ ExecutedAtMostOnce /\ Finished /\ [Next]_vars
        => [\A t \in Task :
              used["unassign"] = 0 /\ depStatus[t] = "completed" =>
                depStatus'[t] = "completed" \/ life' = "created"]_vars
  BY CompletedStays DEF Crash
<1>2. QED
  BY <1>1, TypeCorrect, AtMostOnce, FinishedHolds, PTL
     DEF Spec, CompletedForGood

-------------------------------------------------------------------------------
(* A started task *)

\* Only tasks AddTask has put into the dependency graph are queued, worked on,
\* chosen or dead. AreSatisfied says yes of any other.
Known ==
  /\ queue \subseteq nodes
  /\ dlq \in Seq(nodes)
  /\ \A t \in Task, n \in Attempt : pc[t][n] \in Live => t \in nodes
  /\ sched.todo \subseteq nodes
  /\ sched.at \in {"assign", "start"} => sched.task \in nodes

\* The end of the process keeps no task.
LEMMA CrashForgets ==
  ASSUME TypeOK, Crash
  PROVE  Known'
<1>1. queue' = {} /\ dlq' = <<>> /\ sched' = SchedIdle
  BY DEF Crash
<1>2. \A t \in Task, n \in Attempt : pc'[t][n] \notin Live
  BY DEF Crash, Live, PC
<1>3. QED BY <1>1, <1>2 DEF Known, SchedIdle

\* A sequence over a set is one over a larger set.
LEMMA SeqOfMore ==
  ASSUME NEW S, NEW T, S \subseteq T, NEW s \in Seq(S)
  PROVE  s \in Seq(T)
<1>1. s \in [1 .. Len(s) -> T] /\ Len(s) \in Nat
  OBVIOUS
<1>2. QED BY <1>1, SeqDef

\* The clients bring in no unknown task.
LEMMA ClientKeepsKnown ==
  ASSUME TypeOK, Known, Client
  PROVE  Known'
<1>1. nodes \subseteq nodes' /\ pc' = pc /\ sched' = sched
  BY DEF Client, SubmitTask, ResubmitDeadLetterTask, ResubmitRefused,
     RegisterAgent, UnregisterAgent, ReadResult, KanbanUnassign
<1>2. queue' \subseteq nodes' /\ dlq' \in Seq(nodes')
  <2>1. ASSUME NEW t \in Task, SubmitTask(t)
        PROVE  queue' \subseteq nodes' /\ dlq' \in Seq(nodes')
    BY <1>1, <2>1, SeqOfMore DEF SubmitTask, Known
  <2>2. ASSUME NEW i \in DOMAIN dlq, ResubmitDeadLetterTask(i)
        PROVE  queue' \subseteq nodes' /\ dlq' \in Seq(nodes')
    <3>1. dlq[i] \in nodes /\ RemovedAt(i) \in Seq(nodes)
      BY <2>2, RemovedAtType DEF Known
    <3>2. QED BY <2>2, <3>1 DEF ResubmitDeadLetterTask, Known
  <2>5. ASSUME NEW i \in DOMAIN dlq, ResubmitRefused(i)
        PROVE  queue' \subseteq nodes' /\ dlq' \in Seq(nodes')
    <3>1. RemovedAt(i) \in Seq(nodes)
      BY <2>5, RemovedAtType DEF Known
    <3>2. QED BY <2>5, <3>1 DEF ResubmitRefused, Known
  <2>3. CASE UNCHANGED <<queue, nodes, dlq>>
    BY <2>3 DEF Known
  <2>4. QED BY <2>1, <2>2, <2>3, <2>5 DEF Client, RegisterAgent,
               UnregisterAgent, ReadResult, KanbanUnassign
<1>3. QED BY <1>1, <1>2 DEF Known

\* scheduleNext chooses from the queue and starts what it has chosen.
LEMMA SchedulingKeepsKnown ==
  ASSUME TypeOK, Known, Scheduling
  PROVE  Known'
<1>1. nodes' = nodes /\ dlq' = dlq /\ queue' \subseteq queue
  BY DEF Scheduling, ScheduleNext, ScheduleNothing, RequestTaskAssignment,
     RequestFails, ScheduleDone, AssignTask, AssignConflict, AssignFault,
     StartTaskExecution, ExecutorMissing
<1>2. \A t \in Task, n \in Attempt : pc'[t][n] \in Live => t \in nodes
  <2>1. ASSUME NEW m \in Attempt, StartTaskExecution(m),
               NEW t \in Task, NEW n \in Attempt, pc'[t][n] \in Live
        PROVE  t \in nodes
    <3>1. CASE t = sched.task
      BY <2>1, <3>1 DEF StartTaskExecution, Known
    <3>2. CASE t # sched.task
      <4>1. pc'[t] = pc[t]
        BY <2>1, <3>2 DEF StartTaskExecution, MoveTo, TypeOK
      <4>2. QED BY <2>1, <4>1 DEF Known
    <3>3. QED BY <3>1, <3>2
  <2>2. CASE pc' = pc
    BY <2>2 DEF Known
  <2>3. QED BY <2>1, <2>2 DEF Scheduling, ScheduleNext, ScheduleNothing,
               RequestTaskAssignment, RequestFails, ScheduleDone, AssignTask,
               AssignConflict, AssignFault, ExecutorMissing
<1>3. /\ sched'.todo \subseteq nodes
      /\ sched'.at \in {"assign", "start"} => sched'.task \in nodes
  <2>1. ASSUME NEW tracked \in BOOLEAN, ScheduleNext(tracked)
        PROVE  sched'.todo \subseteq nodes /\ sched'.at = "next"
    BY <2>1 DEF ScheduleNext, SchedIdle, ReadyTasks, Known
  <2>2. ASSUME NEW t \in Task, RequestTaskAssignment(t)
        PROVE  sched'.todo \subseteq nodes /\ sched'.task \in nodes
    BY <2>2 DEF RequestTaskAssignment, IsNext, Known, TypeOK, SchedState
  <2>3. ASSUME NEW t \in Task, RequestFails(t)
        PROVE  sched'.todo \subseteq nodes /\ sched'.at = "next"
    BY <2>3 DEF RequestFails, IsNext, Known, TypeOK, SchedState
  <2>4. CASE AssignTask
    BY <2>4 DEF AssignTask, Known, TypeOK, SchedState
  <2>5. CASE Continue
    BY <2>5 DEF Continue, Known, TypeOK, SchedState
  <2>6. CASE sched' = SchedIdle
    BY <2>6 DEF SchedIdle
  <2>7. CASE sched' = sched
    BY <2>7 DEF Known
  <2>8. QED BY <2>1, <2>2, <2>3, <2>4, <2>5, <2>6, <2>7 DEF Scheduling,
               ScheduleNothing, ScheduleDone, AssignConflict, AssignFault,
               StartTaskExecution, ExecutorMissing
<1>4. QED BY <1>1, <1>2, <1>3 DEF Known

\* An attempt puts only its own task back or into the dead letter queue.
LEMMA AttemptKeepsKnown ==
  ASSUME TypeOK, Known, NEW t \in Task, NEW n \in Attempt,
         Execution(t, n) \/ ContextExpires(t, n)
  PROVE  Known'
<1>1. t \in nodes /\ nodes' = nodes /\ sched' = sched
  BY DEF Known, Live, PC, Execution, ContextExpires, ExecuteTask,
     ExecuteReturns, MarkComplete, HandleTaskSuccess, HandleFailedTask,
     Requeue, MarkFailed, BlockTask, ReleaseFailed, SendResult, DeleteRunning,
     ReleaseDeferred
<1>2. queue' \subseteq queue \cup {t}
  BY DEF Execution, ContextExpires, ExecuteTask, ExecuteReturns, MarkComplete,
     HandleTaskSuccess, HandleFailedTask, Requeue, MarkFailed, BlockTask,
     ReleaseFailed, SendResult, DeleteRunning, ReleaseDeferred
<1>3. dlq' = dlq \/ dlq' = Append(dlq, t)
  BY DEF Execution, ContextExpires, ExecuteTask, ExecuteReturns, MarkComplete,
     HandleTaskSuccess, HandleFailedTask, Requeue, MarkFailed, BlockTask,
     ReleaseFailed, SendResult, DeleteRunning, ReleaseDeferred
<1>4. \A u \in Task, m \in Attempt : pc'[u][m] \in Live => u \in nodes
  <2>1. \E to : MoveTo(t, n, to)
    BY DEF Execution, ContextExpires, ExecuteTask, ExecuteReturns,
       MarkComplete, HandleTaskSuccess, HandleFailedTask, Requeue, MarkFailed,
       BlockTask, ReleaseFailed, SendResult, DeleteRunning, ReleaseDeferred
  <2>2. \A u \in Task : u # t => pc'[u] = pc[u]
    BY <2>1 DEF MoveTo, TypeOK
  <2>3. QED BY <1>1, <2>2 DEF Known
<1>5. dlq' \in Seq(nodes)
  BY <1>1, <1>3, AppendProperties DEF Known
<1>6. QED BY <1>1, <1>2, <1>4, <1>5 DEF Known

\* Stop cancels attempts; it brings none back.
LEMMA LifecycleKeepsKnown ==
  ASSUME TypeOK, Known, Lifecycle
  PROVE  Known'
<1>1. CASE Crash
  BY <1>1, CrashForgets
<1>2. CASE ~Crash
  <2>1. UNCHANGED <<queue, nodes, dlq, sched>>
    BY <1>2 DEF Lifecycle, Start, StopTasks, StopCancel, StopReturns,
       StopTimesOut
  <2>2. ASSUME NEW t \in Task, NEW n \in Attempt, pc'[t][n] \in Live
        PROVE  pc[t][n] \in Live
    <3>1. pc'[t][n] = pc[t][n] \/ pc[t][n] = "spawned"
      BY <1>2 DEF Lifecycle, Start, StopTasks, StopCancel, StopReturns,
         StopTimesOut
    <3>2. QED BY <2>2, <3>1 DEF Live, PC
  <2>3. QED BY <2>1, <2>2 DEF Known
<1>3. QED BY <1>1, <1>2

\* The scheduler never works on a task that is not in the dependency graph.
LEMMA KnownHolds == Spec => []Known
<1>1. Init => Known
  BY DEF Init, Known, SchedIdle, Live, PC
<1>2. TypeOK /\ Known /\ [Next]_vars => Known'
  <2>1. TypeOK /\ Known /\ UNCHANGED vars => Known'
    BY DEF Known, vars
  <2>2. QED BY <2>1, ClientKeepsKnown, SchedulingKeepsKnown,
               AttemptKeepsKnown, LifecycleKeepsKnown DEF Next
<1>3. QED
  BY <1>1, <1>2, TypeCorrect, PTL DEF Spec

\* The tasks scheduleNext still means to start.
Chosen(t) ==
  \/ t \in sched.todo
  \/ sched.at \in {"assign", "start"} /\ t = sched.task

\* What was checked when the ready list was made still holds when a task of it
\* is started, calls to the manager and the board later.
Ready ==
  used["unassign"] = 0 =>
    \A t \in Task : Chosen(t) => \A d \in Deps[t] : depStatus[d] = "completed"

\* A step chooses nothing but what AreSatisfied says yes of.
LEMMA NewlyChosen ==
  ASSUME TypeOK, Known, [Next]_vars, NEW t \in Task, Chosen(t)', ~Chosen(t)
  PROVE  /\ \A d \in Deps[t] : depStatus[d] = "completed"
         /\ UNCHANGED depStatus
<1>1. CASE UNCHANGED vars
  BY <1>1 DEF vars, Chosen
<1>2. CASE Client
  BY <1>2 DEF Chosen, Client, SubmitTask, ResubmitDeadLetterTask,
     ResubmitRefused, RegisterAgent, UnregisterAgent, ReadResult, KanbanUnassign
<1>3. CASE Scheduling
  <2>1. ASSUME NEW tracked \in BOOLEAN, ScheduleNext(tracked)
        PROVE  /\ \A d \in Deps[t] : depStatus[d] = "completed"
               /\ UNCHANGED depStatus
    <3>1. sched'.at = "next" /\ sched'.todo = ReadyTasks
      BY <2>1 DEF ScheduleNext, SchedIdle
    <3>2. t \in queue /\ AreSatisfied(t)
      BY <3>1 DEF Chosen, ReadyTasks
    <3>3. t \in nodes
      BY <3>2 DEF Known
    <3>4. QED BY <2>1, <3>2, <3>3 DEF AreSatisfied, ScheduleNext
  <2>2. ASSUME NEW u \in Task, RequestTaskAssignment(u)
        PROVE  FALSE
    BY <2>2 DEF RequestTaskAssignment, IsNext, Chosen, TypeOK, SchedState
  <2>3. ASSUME NEW u \in Task, RequestFails(u)
        PROVE  FALSE
    BY <2>3 DEF RequestFails, IsNext, Chosen, TypeOK, SchedState
  <2>4. CASE AssignTask
    BY <2>4 DEF AssignTask, Chosen, TypeOK, SchedState
  <2>5. CASE Continue
    BY <2>5 DEF Continue, Chosen, TypeOK, SchedState
  <2>6. CASE sched' = SchedIdle
    BY <2>6 DEF SchedIdle, Chosen
  <2>7. CASE sched' = sched
    BY <2>7 DEF Chosen
  <2>8. QED BY <1>3, <2>1, <2>2, <2>3, <2>4, <2>5, <2>6, <2>7
     DEF Scheduling, ScheduleNothing, ScheduleDone, AssignConflict,
     AssignFault, StartTaskExecution, ExecutorMissing
<1>4. ASSUME NEW u \in Task, NEW m \in Attempt,
             Execution(u, m) \/ ContextExpires(u, m)
      PROVE  FALSE
  <2>1. sched' = sched
    BY <1>4 DEF Execution, ContextExpires, ExecuteTask, ExecuteReturns,
       MarkComplete, HandleTaskSuccess, HandleFailedTask, Requeue, MarkFailed,
       BlockTask, ReleaseFailed, SendResult, DeleteRunning, ReleaseDeferred
  <2>2. QED BY <2>1 DEF Chosen
<1>5. CASE Lifecycle
  <2>1. sched' = sched \/ sched' = SchedIdle
    BY <1>5 DEF Lifecycle, Start, StopTasks, StopCancel, StopReturns,
       StopTimesOut, Crash
  <2>2. QED BY <2>1 DEF Chosen, SchedIdle
<1>6. QED BY <1>1, <1>2, <1>3, <1>4, <1>5 DEF Next

\* The invariant behind StartsAfterDependencies: no completion the choice of a
\* task rests on is taken back, because CompletedStays.
LEMMA ReadyHolds == Spec => []Ready
<1>1. Init => Ready
  BY DEF Init, Ready, Chosen, SchedIdle
<1>2. TypeOK /\ ExecutedAtMostOnce /\ Finished /\ Known /\ Ready /\ [Next]_vars
        => Ready'
  <2> SUFFICES ASSUME TypeOK, ExecutedAtMostOnce, Finished, Known, Ready,
                      [Next]_vars, used'["unassign"] = 0,
                      NEW t \in Task, Chosen(t)', NEW d \in Deps[t]
               PROVE  depStatus'[d] = "completed"
    BY DEF Ready
  <2>1. used["unassign"] = 0 /\ d \in Task
    BY NoneCleared, Constants
  <2>2. ~Crash
    BY DEF Crash, Chosen, SchedIdle
  <2>3. CASE Chosen(t)
    <3>1. depStatus[d] = "completed"
      BY <2>1, <2>3 DEF Ready
    <3>2. QED BY <2>1, <2>2, <3>1, CompletedStays
  <2>4. CASE ~Chosen(t)
    BY <2>4, NewlyChosen
  <2>5. QED BY <2>3, <2>4
<1>3. QED
  BY <1>1, <1>2, TypeCorrect, AtMostOnce, FinishedHolds, KnownHolds, PTL
     DEF Spec

\* While nobody clears an assignee, a task enters runningTasks only when every
\* dependency of it has completed.
THEOREM DependenciesFirst == Spec => StartsAfterDependencies
<1>1. TypeOK /\ Ready /\ [Next]_vars
        => [\A t \in Task :
              used["unassign"] = 0 /\ running'[t] # running[t] /\ running'[t] # 0
                => \A d \in Deps[t] : depStatus[d] = "completed"]_vars
  <2> SUFFICES ASSUME TypeOK, Ready, [Next]_vars, used["unassign"] = 0,
                      NEW t \in Task,
                      running'[t] # running[t], running'[t] # 0
               PROVE  \A d \in Deps[t] : depStatus[d] = "completed"
    OBVIOUS
  <2>1. ~Crash /\ \A n \in Attempt : ~DeleteRunning(t, n)
    BY DEF Crash, DeleteRunning, TypeOK
  <2>2. Chosen(t)
    BY <2>1, RunningChanges DEF Chosen
  <2>3. QED BY <2>2 DEF Ready
<1>2. QED
  BY <1>1, TypeCorrect, ReadyHolds, PTL DEF Spec, StartsAfterDependencies
-------------------------------------------------------------------------------
(* What was reported of a task *)

\* Where an attempt is that has failed for good: all but the first of the places
\* are after the graph has been told.
Dying == {"block", "failed", "release_failed", "send", "delete", "release",
          "gone"}

\* While nobody clears an assignee, a failed task has an attempt that told the
\* graph so, and an attempt about to tell the board has told the graph the same.
Reported ==
  used["unassign"] = 0 =>
    \A t \in Task :
      /\ depStatus[t] = "failed" => pc[t][1] \in Dying \ {"block"}
      /\ pc[t][1] = "completed" => depStatus[t] = "completed"
      /\ pc[t][1] = "failed" => depStatus[t] = "failed"

\* No attempt completes a task that failed: it would have to be a second one.
LEMMA FailedStays ==
  ASSUME TypeOK, ExecutedAtMostOnce, Reported, [Next]_vars,
         used["unassign"] = 0,
         NEW t \in Task, depStatus[t] = "failed"
  PROVE  depStatus'[t] = "failed" \/ Crash
<1>1. ASSUME NEW n \in Attempt, MarkComplete(t, n)
      PROVE  FALSE
  <2>1. pc[t][n] = "succeeded"
    BY <1>1 DEF MarkComplete
  <2>2. n = 1
    BY <2>1, OnlyAttempt
  <2>3. QED BY <2>1, <2>2 DEF Reported, Dying
<1>2. ASSUME NEW n \in Attempt, MarkFailed(t, n)
      PROVE  depStatus'[t] = "failed"
  BY <1>2 DEF MarkFailed, TypeOK
<1>3. QED BY <1>1, <1>2, DepStatusChanges

\* The invariant behind what the board and the dead letter queue say.
LEMMA ReportedHolds == Spec => []Reported
<1>1. Init => Reported
  BY BoundsAssumption DEF Init, Reported, Attempt
<1>2. TypeOK /\ ExecutedAtMostOnce /\ Finished /\ Reported /\ [Next]_vars
        => Reported'
  <2> SUFFICES ASSUME TypeOK, ExecutedAtMostOnce, Finished, Reported,
                      [Next]_vars, used'["unassign"] = 0, NEW t \in Task
               PROVE  /\ depStatus'[t] = "failed" => pc'[t][1] \in Dying \ {"block"}
                      /\ pc'[t][1] = "completed" => depStatus'[t] = "completed"
                      /\ pc'[t][1] = "failed" => depStatus'[t] = "failed"
    BY DEF Reported
  <2>1. used["unassign"] = 0 /\ 1 \in Attempt
    BY NoneCleared, BoundsAssumption DEF Attempt
  <2>2. CASE Crash
    BY <2>1, <2>2 DEF Crash
  <2>3. ASSUME ~Crash, depStatus'[t] = "failed"
        PROVE  pc'[t][1] \in Dying \ {"block"}
    <3>1. CASE depStatus[t] = "failed"
      <4>1. pc[t][1] \in Dying \ {"block"}
        BY <2>1, <3>1 DEF Reported
      <4>2. pc[t][1] \in Late /\ pc[t][1] # "block"
        BY <4>1 DEF Late, Dying
      <4>3. QED BY <2>1, <2>3, <4>1, <4>2, LateSteps DEF Dying
    <3>2. CASE depStatus[t] # "failed"
      <4>1. PICK n \in Attempt : MarkComplete(t, n) \/ MarkFailed(t, n)
        BY <2>3, <3>2, DepStatusChanges
      <4>2. MarkFailed(t, n)
        BY <2>3, <4>1 DEF MarkComplete, TypeOK
      <4>3. n = 1
        BY <2>1, <4>2, OnlyAttempt DEF MarkFailed
      <4>4. QED BY <4>2, <4>3 DEF MarkFailed, MoveTo, TypeOK, Dying
    <3>3. QED BY <3>1, <3>2
  <2>4. ASSUME ~Crash, pc'[t][1] = "completed"
        PROVE  depStatus'[t] = "completed"
    <3>1. CASE pc[t][1] = "completed"
      <4>1. depStatus[t] = "completed"
        BY <2>1, <3>1 DEF Reported
      <4>2. QED BY <2>1, <2>4, <4>1, CompletedStays
    <3>2. CASE pc[t][1] # "completed"
      <4>1. ~(StartTaskExecution(1) /\ t = sched.task)
        BY <2>1, <2>4 DEF StartTaskExecution, MoveTo, TypeOK
      <4>2. ~StopTasks
        BY <2>1, <2>4, <3>2 DEF StopTasks
      <4>3. ~ContextExpires(t, 1)
        BY <2>1, <2>4 DEF ContextExpires, MoveTo, TypeOK
      <4>4. Execution(t, 1)
        BY <2>1, <2>4, <3>2, <4>1, <4>2, <4>3, PcChanges
      <4>5. \A to : MoveTo(t, 1, to) => to = "completed"
        BY <2>1, <2>4 DEF MoveTo, TypeOK
      <4>6. MarkComplete(t, 1)
        BY <4>4, <4>5, Constants DEF Execution, ExecuteTask, ExecuteReturns,
           HandleTaskSuccess, HandleFailedTask, Requeue, MarkFailed, BlockTask,
           ReleaseFailed, SendResult, DeleteRunning, ReleaseDeferred
      <4>7. QED BY <4>6 DEF MarkComplete, TypeOK
    <3>3. QED BY <3>1, <3>2
  <2>5. ASSUME ~Crash, pc'[t][1] = "failed"
        PROVE  depStatus'[t] = "failed"
    <3>1. CASE pc[t][1] = "failed"
      <4>1. depStatus[t] = "failed"
        BY <2>1, <3>1 DEF Reported
      <4>2. QED BY <2>1, <2>5, <4>1, FailedStays
    <3>2. CASE pc[t][1] # "failed"
      <4>1. ~(StartTaskExecution(1) /\ t = sched.task)
        BY <2>1, <2>5 DEF StartTaskExecution, MoveTo, TypeOK
      <4>2. ~StopTasks
        BY <2>1, <2>5, <3>2 DEF StopTasks
      <4>3. ~ContextExpires(t, 1)
        BY <2>1, <2>5 DEF ContextExpires, MoveTo, TypeOK
      <4>4. Execution(t, 1)
        BY <2>1, <2>5, <3>2, <4>1, <4>2, <4>3, PcChanges
      <4>5. \A to : MoveTo(t, 1, to) => to = "failed"
        BY <2>1, <2>5 DEF MoveTo, TypeOK
      <4>6. MarkFailed(t, 1)
        BY <4>4, <4>5, Constants DEF Execution, ExecuteTask, ExecuteReturns,
           MarkComplete, HandleTaskSuccess, HandleFailedTask, Requeue,
           BlockTask, ReleaseFailed, SendResult, DeleteRunning, ReleaseDeferred
      <4>7. QED BY <4>6 DEF MarkFailed, TypeOK
    <3>3. QED BY <3>1, <3>2
  <2>6. QED BY <2>2, <2>3, <2>4, <2>5
<1>3. QED
  BY <1>1, <1>2, TypeCorrect, AtMostOnce, FinishedHolds, PTL DEF Spec

\* Until a crash empties the graph, and while nobody clears an assignee, the
\* board's "done" and "blocked" are what the graph knows, whatever updates of the
\* board fail and however late the others come.
THEOREM BoardIsRight == Spec => []BoardAgrees
<1>1. Init => BoardAgrees
  BY DEF Init, BoardAgrees
<1>2. TypeOK /\ ExecutedAtMostOnce /\ Finished /\ Reported /\ BoardAgrees
        /\ [Next]_vars => BoardAgrees'
  <2> SUFFICES ASSUME TypeOK, ExecutedAtMostOnce, Finished, Reported,
                      BoardAgrees, [Next]_vars,
                      used'["crash"] + used'["unassign"] = 0, NEW t \in Task
               PROVE  /\ kanban'[t].status = "done" => depStatus'[t] = "completed"
                      /\ kanban'[t].status = "blocked" => depStatus'[t] = "failed"
    BY DEF BoardAgrees
  <2>1. {"crash", "unassign"} \subseteq EnvironmentStep
    BY DEF EnvironmentStep
  <2>2. /\ used["crash"] = 0 /\ used["unassign"] = 0
        /\ used'["crash"] = 0
    BY <2>1, UsedGrows
  <2>3. ~Crash
    <3>1. SUFFICES ASSUME Spend("crash") PROVE FALSE
      BY DEF Crash
    <3>2. QED BY <2>1, <2>2, <3>1, SpendType DEF TypeOK
  <2>4. ASSUME kanban'[t].status = "done"
        PROVE  depStatus'[t] = "completed"
    <3>1. CASE kanban'[t].status = kanban[t].status
      <4>1. depStatus[t] = "completed"
        BY <2>2, <2>4, <3>1 DEF BoardAgrees
      <4>2. QED BY <2>2, <2>3, <4>1, CompletedStays
    <3>2. CASE kanban'[t].status # kanban[t].status
      <4>1. PICK n \in Attempt : HandleTaskSuccess(t, n)
        BY <2>4, <3>2, BoardChanges
      <4>2. pc[t][n] = "completed" /\ depStatus' = depStatus
        BY <4>1 DEF HandleTaskSuccess
      <4>3. n = 1
        BY <2>2, <4>2, OnlyAttempt
      <4>4. QED BY <2>2, <4>2, <4>3 DEF Reported
    <3>3. QED BY <3>1, <3>2
  <2>5. ASSUME kanban'[t].status = "blocked"
        PROVE  depStatus'[t] = "failed"
    <3>1. CASE kanban'[t].status = kanban[t].status
      <4>1. depStatus[t] = "failed"
        BY <2>2, <2>5, <3>1 DEF BoardAgrees
      <4>2. QED BY <2>2, <2>3, <4>1, FailedStays
    <3>2. CASE kanban'[t].status # kanban[t].status
      <4>1. PICK n \in Attempt : BlockTask(t, n)
        BY <2>5, <3>2, BoardChanges
      <4>2. pc[t][n] = "failed" /\ depStatus' = depStatus
        BY <4>1 DEF BlockTask
      <4>3. n = 1
        BY <2>2, <4>2, OnlyAttempt
      <4>4. QED BY <2>2, <4>2, <4>3 DEF Reported
    <3>3. QED BY <3>1, <3>2
  <2>6. QED BY <2>4, <2>5
<1>3. QED
  BY <1>1, <1>2, TypeCorrect, AtMostOnce, FinishedHolds, ReportedHolds, PTL
     DEF Spec

\* The tasks that have failed for good.
Dead == {t \in Task : depStatus[t] # "completed" /\ pc[t][1] \in Dying}

\* While nobody clears an assignee, those are the ones in the dead letter queue.
DeadAreDying == used["unassign"] = 0 => dlq \in Seq(Dead)

\* They remain so while the process lives.
LEMMA DeadStay ==
  ASSUME TypeOK, ExecutedAtMostOnce, [Next]_vars, ~Crash,
         used["unassign"] = 0
  PROVE  Dead \subseteq Dead'
<1> SUFFICES ASSUME NEW t \in Task,
                    depStatus[t] # "completed", pc[t][1] \in Dying
             PROVE  depStatus'[t] # "completed" /\ pc'[t][1] \in Dying
  BY DEF Dead
<1>1. pc'[t][1] \in Dying
  <2>1. 1 \in Attempt /\ pc[t][1] \in Late
    BY BoundsAssumption DEF Attempt, Late, Dying
  <2>2. QED BY <2>1, LateSteps DEF Dying
<1>2. ASSUME NEW n \in Attempt, MarkComplete(t, n)
      PROVE  FALSE
  <2>1. pc[t][n] = "succeeded"
    BY <1>2 DEF MarkComplete
  <2>2. n = 1
    BY <2>1, OnlyAttempt
  <2>3. QED BY <2>1, <2>2 DEF Dying
<1>3. \A n \in Attempt : MarkFailed(t, n) => depStatus'[t] = "failed"
  BY DEF MarkFailed, TypeOK
<1>4. QED BY <1>1, <1>2, <1>3, DepStatusChanges

\* The invariant behind DeadLettersDidNotComplete.
LEMMA DeadAreDyingHolds == Spec => []DeadAreDying
<1>1. Init => DeadAreDying
  BY DEF Init, DeadAreDying
<1>2. TypeOK /\ ExecutedAtMostOnce /\ Finished /\ DeadAreDying /\ [Next]_vars
        => DeadAreDying'
  <2> SUFFICES ASSUME TypeOK, ExecutedAtMostOnce, Finished, DeadAreDying,
                      [Next]_vars, used'["unassign"] = 0
               PROVE  dlq' \in Seq(Dead')
    BY DEF DeadAreDying
  <2>1. used["unassign"] = 0 /\ dlq \in Seq(Dead)
    BY NoneCleared DEF DeadAreDying
  <2>2. CASE Crash
    BY <2>2 DEF Crash
  <2>3. CASE ~Crash
    <3>1. Dead \subseteq Dead'
      BY <2>1, <2>3, DeadStay
    <3> HIDE DEF Dead
    <3>2. CASE dlq' = dlq
      BY <2>1, <3>1, <3>2, SeqOfMore
    <3>3. ASSUME NEW i \in DOMAIN dlq,
                 ResubmitDeadLetterTask(i) \/ ResubmitRefused(i)
          PROVE  dlq' \in Seq(Dead')
      <4>1. dlq' \in Seq(Dead)
        BY <2>1, <3>3, RemovedAtType DEF ResubmitDeadLetterTask, ResubmitRefused
      <4>2. QED BY <3>1, <4>1, SeqOfMore
    <3>4. ASSUME NEW t \in Task, NEW n \in Attempt, HandleFailedTask(t, n),
                 dlq' = Append(dlq, t), MoveTo(t, n, "block")
          PROVE  dlq' \in Seq(Dead')
      <4>1. pc[t][n] \in {"retryable", "fatal"} /\ depStatus' = depStatus
        BY <3>4 DEF HandleFailedTask
      <4>2. n = 1
        BY <2>1, <4>1, OnlyAttempt
      <4>3. depStatus[t] # "completed"
        BY <2>1, <4>1, <4>2 DEF Finished, Over
      <4>4. pc'[t][1] = "block"
        BY <3>4, <4>2 DEF MoveTo, TypeOK
      <4>5. t \in Dead'
        BY <4>1, <4>3, <4>4 DEF Dead, Dying
      <4>6. dlq \in Seq(Dead')
        BY <2>1, <3>1, SeqOfMore
      <4>7. QED BY <3>4, <4>5, <4>6, AppendProperties
    <3>5. QED BY <2>3, <3>2, <3>3, <3>4, DeadLettersChange
  <2>4. QED BY <2>2, <2>3
<1>3. QED
  BY <1>1, <1>2, TypeCorrect, AtMostOnce, FinishedHolds, PTL DEF Spec

\* While nobody clears an assignee, no task in the dead letter queue has
\* completed, however long it stays there and whatever is resubmitted from it.
THEOREM DeadLettersFailed == Spec => []DeadLettersDidNotComplete
<1>1. TypeOK /\ DeadAreDying => DeadLettersDidNotComplete
  <2> SUFFICES ASSUME DeadAreDying, used["unassign"] = 0, NEW i \in DOMAIN dlq
               PROVE  depStatus[dlq[i]] # "completed"
    BY DEF DeadLettersDidNotComplete
  <2>1. dlq[i] \in Dead
    <3> HIDE DEF Dead
    <3>1. dlq \in Seq(Dead)
      BY DEF DeadAreDying
    <3>2. QED BY <3>1
  <2>2. QED BY <2>1 DEF Dead
<1>2. QED
  BY <1>1, TypeCorrect, DeadAreDyingHolds, PTL

-------------------------------------------------------------------------------
(* Failed tasks *)

\* Tasks that fail, or have failed, and are in neither queue.
Missing ==
  {t \in Task : /\ depStatus[t] = "failed" \/ pc[t][1] = "block"
                /\ t \notin queue
                /\ \A i \in DOMAIN dlq : dlq[i] # t}

\* What FailedTasksKept says of the failed tasks holds of those on their way there
\* as well: one that HandleFailedTask has given up is in the dead letter queue.
MissingAreRefused ==
  used["unassign"] = 0 /\ MaxTaskRetries <= 1 =>
    IsFiniteSet(Missing) /\ Cardinality(Missing) <= used["refuse"]

\* A failed task leaves the dead letter queue only for the queue, or to be refused;
\* it leaves the queue only with the process, for it cannot be started again.
LEMMA NewlyMissing ==
  ASSUME TypeOK, TypeOK', ExecutedAtMostOnce, ExecutedAtMostOnce', Reported,
         [Next]_vars, ~Crash, used'["unassign"] = 0, MaxTaskRetries <= 1,
         NEW t \in Task, t \in Missing', t \notin Missing
  PROVE  \E i \in DOMAIN dlq : ResubmitRefused(i) /\ dlq[i] = t
<1>1. used["unassign"] = 0 /\ 1 \in Attempt
  BY NoneCleared, BoundsAssumption DEF Attempt
<1>2. /\ depStatus'[t] = "failed" \/ pc'[t][1] = "block"
      /\ t \notin queue'
      /\ \A i \in DOMAIN dlq' : dlq'[i] # t
  BY DEF Missing
<1>3. CASE ~(depStatus[t] = "failed" \/ pc[t][1] = "block")
  <2>1. CASE pc'[t][1] = "block"
    <3>1. ~(StartTaskExecution(1) /\ t = sched.task)
      BY <1>1, <2>1 DEF StartTaskExecution, MoveTo, TypeOK
    <3>2. ~StopTasks
      BY <1>1, <1>3, <2>1 DEF StopTasks
    <3>3. ~ContextExpires(t, 1)
      BY <1>1, <2>1 DEF ContextExpires, MoveTo, TypeOK
    <3>4. Execution(t, 1)
      BY <1>1, <1>3, <2>1, <3>1, <3>2, <3>3, PcChanges
    <3>5. \A to : MoveTo(t, 1, to) => to = "block"
      BY <1>1, <2>1 DEF MoveTo, TypeOK
    <3>6. HandleFailedTask(t, 1)
      BY <3>4, <3>5, Constants DEF Execution, ExecuteTask, ExecuteReturns,
         MarkComplete, HandleTaskSuccess, Requeue, MarkFailed, BlockTask,
         ReleaseFailed, SendResult, DeleteRunning, ReleaseDeferred
    <3>7. dlq' = Append(dlq, t) /\ dlq \in Seq(Task)
      BY <3>6, Constants DEF HandleFailedTask, NoRetryLeft, TypeOK
    <3>8. Len(dlq) + 1 \in DOMAIN dlq' /\ dlq'[Len(dlq) + 1] = t
      BY <3>7, AppendProperties
    <3>9. QED BY <1>2, <3>8
  <2>2. CASE depStatus'[t] = "failed"
    <3>1. PICK n \in Attempt : MarkComplete(t, n) \/ MarkFailed(t, n)
      BY <1>3, <2>2, DepStatusChanges
    <3>2. MarkFailed(t, n)
      BY <2>2, <3>1 DEF MarkComplete, TypeOK
    <3>3. n = 1
      BY <1>1, <3>2, OnlyAttempt DEF MarkFailed
    <3>4. QED BY <1>3, <3>2, <3>3 DEF MarkFailed
  <2>3. QED BY <1>2, <2>1, <2>2
<1>4. CASE depStatus[t] = "failed" \/ pc[t][1] = "block"
  <2>1. CASE t \in queue
    <3>1. PICK n \in Attempt : StartTaskExecution(n) /\ t = sched.task
      BY <1>2, <2>1, QueueShrinks
    <3>2. pc[t][n] = "unused" /\ pc'[t][n] = "spawned"
      BY <3>1 DEF StartTaskExecution, MoveTo, TypeOK
    <3>3. n = 1
      BY <3>2 DEF ExecutedAtMostOnce, Attempt
    <3>4. QED BY <1>1, <1>4, <3>2, <3>3 DEF Reported, Dying
  <2>2. CASE t \notin queue
    <3>1. PICK j \in DOMAIN dlq : dlq[j] = t
      BY <1>4, <2>2 DEF Missing
    <3>2. dlq' # dlq
      BY <1>2, <3>1
    <3>3. ASSUME NEW u \in Task, dlq' = Append(dlq, u)
          PROVE  FALSE
      <4>1. dlq \in Seq(Task)
        BY DEF TypeOK
      <4>2. j \in DOMAIN dlq' /\ dlq'[j] = dlq[j]
        BY <3>1, <3>3, <4>1, AppendProperties
      <4>3. QED BY <1>2, <3>1, <4>2
    <3>4. PICK i \in DOMAIN dlq : ResubmitDeadLetterTask(i) \/ ResubmitRefused(i)
      BY <3>2, <3>3, DeadLettersChange
    <3>5. dlq' = RemovedAt(i) /\ dlq \in Seq(Task)
      BY <3>4 DEF ResubmitDeadLetterTask, ResubmitRefused, TypeOK
    <3>6. i = j
      BY <1>2, <3>1, <3>5, RemovedAtType
    <3>7. ~ResubmitDeadLetterTask(i)
      BY <1>2, <3>1, <3>6 DEF ResubmitDeadLetterTask
    <3>8. QED BY <3>1, <3>4, <3>6, <3>7
  <2>3. QED BY <2>1, <2>2
<1>5. QED BY <1>3, <1>4

\* The invariant behind FailedTasksKept.
LEMMA MissingAreRefusedHolds == Spec => []MissingAreRefused
<1>1. Init => MissingAreRefused
  <2> SUFFICES ASSUME Init
               PROVE  IsFiniteSet(Missing) /\ Cardinality(Missing) <= used["refuse"]
    BY DEF MissingAreRefused
  <2>1. Missing = {} /\ used["refuse"] = 0
    BY BoundsAssumption DEF Init, Missing, Attempt, EnvironmentStep
  <2>2. QED BY <2>1, FS_EmptySet
<1>2. TypeOK /\ TypeOK' /\ ExecutedAtMostOnce /\ ExecutedAtMostOnce' /\ Reported
        /\ MissingAreRefused /\ [Next]_vars => MissingAreRefused'
  <2> SUFFICES ASSUME TypeOK, TypeOK', ExecutedAtMostOnce, ExecutedAtMostOnce',
                      Reported, MissingAreRefused, [Next]_vars,
                      used'["unassign"] = 0, MaxTaskRetries <= 1
               PROVE  /\ IsFiniteSet(Missing')
                      /\ Cardinality(Missing') <= used'["refuse"]
    BY DEF MissingAreRefused
  <2>1. IsFiniteSet(Missing) /\ Cardinality(Missing) <= used["refuse"]
    BY NoneCleared DEF MissingAreRefused
  <2>2. /\ used["refuse"] \in Nat /\ used'["refuse"] \in Nat
        /\ used["refuse"] <= used'["refuse"]
    BY UsedGrows DEF EnvironmentStep
  <2>3. Cardinality(Missing) \in Nat
    BY <2>1, FS_CardinalityType
  <2>4. CASE Crash
    <3>1. Missing' = {}
      BY <2>4, BoundsAssumption DEF Crash, Missing, Attempt
    <3>2. QED BY <2>2, <3>1, FS_EmptySet
  <2>5. ASSUME ~Crash, NEW i \in DOMAIN dlq, ResubmitRefused(i)
        PROVE  /\ IsFiniteSet(Missing')
               /\ Cardinality(Missing') <= used'["refuse"]
    <3> DEFINE More == Missing \cup {dlq[i]}
    <3>1. Missing' \subseteq More
      <4> SUFFICES ASSUME NEW t \in Missing', t # dlq[i]
                   PROVE  t \in Missing
        OBVIOUS
      <4>1. dlq' = RemovedAt(i) /\ dlq \in Seq(Task)
        BY <2>5 DEF ResubmitRefused, TypeOK
      <4>2. ASSUME NEW j \in DOMAIN dlq, dlq[j] = t PROVE FALSE
        <5>1. PICK k \in DOMAIN RemovedAt(i) : RemovedAt(i)[k] = dlq[j]
          BY <4>1, <4>2, RemovedAtType
        <5>2. QED BY <4>1, <4>2, <5>1 DEF Missing
      <4>3. QED BY <2>5, <4>2 DEF ResubmitRefused, Missing
    <3> HIDE DEF Missing
    <3>2. /\ IsFiniteSet(More) /\ Cardinality(More) \in Nat
          /\ Cardinality(More) <= Cardinality(Missing) + 1
      <4>1. /\ IsFiniteSet(More)
            /\ \/ Cardinality(More) = Cardinality(Missing)
               \/ Cardinality(More) = Cardinality(Missing) + 1
        BY <2>1, FS_AddElement
      <4>2. QED BY <2>3, <4>1
    <3> HIDE DEF More
    <3>3. /\ IsFiniteSet(Missing') /\ Cardinality(Missing') \in Nat
          /\ Cardinality(Missing') <= Cardinality(More)
      BY <3>1, <3>2, FS_Subset, FS_CardinalityType
    <3>4. used'["refuse"] = used["refuse"] + 1
      BY <2>5, SpendType DEF ResubmitRefused, TypeOK, EnvironmentStep
    <3>5. QED BY <2>1, <2>2, <2>3, <3>2, <3>3, <3>4
  <2>6. CASE ~Crash /\ ~\E i \in DOMAIN dlq : ResubmitRefused(i)
    <3>1. Missing' \subseteq Missing
      <4>1. SUFFICES ASSUME NEW t \in Missing', t \notin Missing
                     PROVE  FALSE
        OBVIOUS
      <4>2. t \in Task
        BY DEF Missing
      <4>3. QED BY <2>6, <4>1, <4>2, NewlyMissing
    <3>2. /\ IsFiniteSet(Missing') /\ Cardinality(Missing') \in Nat
          /\ Cardinality(Missing') <= Cardinality(Missing)
      BY <2>1, <3>1, FS_Subset, FS_CardinalityType
    <3>3. QED BY <2>1, <2>2, <2>3, <3>2
  <2>7. QED BY <2>4, <2>5, <2>6
<1>3. QED
  BY <1>1, <1>2, TypeCorrect, AtMostOnce, ReportedHolds, PTL DEF Spec

\* No order of retry, cleanup, resubmission, faults, Stop and second attempt drops
\* a task. While nobody clears an assignee and at most one retry is configured,
\* the failed tasks in neither queue are at most the refused resubmissions.
THEOREM NoneLost == Spec => []NoTaskLost
<1>1. TypeOK /\ MissingAreRefused => FailedTasksKept
  <2> SUFFICES ASSUME TypeOK, MissingAreRefused, used["unassign"] = 0,
                      MaxTaskRetries <= 1
               PROVE  Cardinality(Dropped) <= used["refuse"]
    BY DEF FailedTasksKept
  <2>1. Dropped \subseteq Missing
    BY DEF Dropped, Missing, TypeOK
  <2>2. IsFiniteSet(Missing) /\ Cardinality(Missing) <= used["refuse"]
    BY DEF MissingAreRefused
  <2>3. /\ Cardinality(Dropped) <= Cardinality(Missing)
        /\ Cardinality(Dropped) \in Nat /\ Cardinality(Missing) \in Nat
        /\ used["refuse"] \in Nat
    BY <2>1, <2>2, FS_Subset, FS_CardinalityType DEF TypeOK, EnvironmentStep
  <2>4. QED BY <2>2, <2>3
<1>2. QED
  BY <1>1, TypeCorrect, TasksKeptHolds, MissingAreRefusedHolds, PTL
     DEF NoTaskLost

-------------------------------------------------------------------------------
(* Assigned tasks *)

\* The agent that is being given a task has left the pool: GetAgentExecutor will
\* not find it.
AgentGone ==
  IF sched.at \in {"assign", "start"} /\ ~agents[sched.agent].present THEN 1 ELSE 0

\* AssignedTasksRun, with the task that is about to be stranded.
StrandedByLoss ==
  /\ IsFiniteSet(Stranded)
  /\ Cardinality(Stranded) + AgentGone <= used["unregister"] + used["crash"]

\* An agent enters and leaves the pool only by the clients' calls, or with the
\* process.
LEMMA PresentChanges ==
  ASSUME TypeOK, [Next]_vars, ~Crash, NEW a \in Agent,
         agents'[a].present # agents[a].present
  PROVE  RegisterAgent(a) \/ UnregisterAgent(a)
<1>1. CASE UNCHANGED vars
  BY <1>1 DEF vars
<1>2. CASE Client
  BY <1>2 DEF Client, SubmitTask, ResubmitDeadLetterTask, ResubmitRefused,
     RegisterAgent, UnregisterAgent, ReadResult, KanbanUnassign, TypeOK
<1>3. CASE Scheduling
  <2>1. \E b, t : agents' = agents \/ agents' = MarkBusy(b, t)
    BY <1>3 DEF Scheduling, ScheduleNext, ScheduleNothing,
       RequestTaskAssignment, RequestFails, ScheduleDone, AssignTask,
       AssignConflict, AssignFault, StartTaskExecution, ExecutorMissing
  <2>2. ASSUME NEW b, NEW t
        PROVE  MarkBusy(b, t)[a].present = agents[a].present
    BY DEF MarkBusy, TypeOK, AgentInfo
  <2>3. QED BY <2>1, <2>2
<1>4. ASSUME NEW u \in Task, NEW n \in Attempt,
             Execution(u, n) \/ ContextExpires(u, n)
      PROVE  FALSE
  <2>1. \E b : \E ok \in BOOLEAN : agents' = agents \/ agents' = Release(b, ok)
    BY <1>4 DEF Execution, ContextExpires, ExecuteTask, ExecuteReturns,
       MarkComplete, HandleTaskSuccess, HandleFailedTask, Requeue, MarkFailed,
       BlockTask, ReleaseFailed, SendResult, DeleteRunning, ReleaseDeferred
  <2>2. ASSUME NEW b, NEW ok \in BOOLEAN
        PROVE  Release(b, ok)[a].present = agents[a].present
    BY DEF Release, TypeOK, AgentInfo
  <2>3. QED BY <2>1, <2>2
<1>5. CASE Lifecycle
  BY <1>5 DEF Lifecycle, Start, StopTasks, StopCancel, StopReturns,
     StopTimesOut
<1>6. QED BY <1>1, <1>2, <1>3, <1>4, <1>5 DEF Next

\* A task is given to an agent of the pool, and then to no other.
LEMMA ChosenAgentChanges ==
  ASSUME TypeOK, [Next]_vars, sched'.at \in {"assign", "start"}
  PROVE  \/ sched'.agent \in AvailableAgents /\ agents' = agents
         \/ /\ sched.at \in {"assign", "start"}
            /\ sched'.agent = sched.agent /\ sched'.task = sched.task
<1>1. CASE UNCHANGED vars
  BY <1>1 DEF vars
<1>2. CASE Client
  BY <1>2 DEF Client, SubmitTask, ResubmitDeadLetterTask, ResubmitRefused,
     RegisterAgent, UnregisterAgent, ReadResult, KanbanUnassign
<1>3. CASE Scheduling
  <2>1. ASSUME NEW t \in Task, RequestTaskAssignment(t)
        PROVE  sched'.agent \in AvailableAgents /\ agents' = agents
    BY <2>1 DEF RequestTaskAssignment, TypeOK, SchedState
  <2>2. ASSUME NEW t \in Task, RequestFails(t)
        PROVE  FALSE
    BY <2>2 DEF RequestFails, IsNext, TypeOK, SchedState
  <2>3. CASE AssignTask
    BY <2>3 DEF AssignTask, TypeOK, SchedState
  <2>4. ASSUME NEW tracked \in BOOLEAN, ScheduleNext(tracked)
        PROVE  FALSE
    BY <2>4 DEF ScheduleNext, SchedIdle
  <2>5. ~Continue
    BY DEF Continue, TypeOK, SchedState
  <2>6. sched' # SchedIdle
    BY DEF SchedIdle
  <2>7. CASE sched' = sched
    BY <2>7
  <2>8. QED BY <1>3, <2>1, <2>2, <2>3, <2>4, <2>5, <2>6, <2>7
     DEF Scheduling, ScheduleNothing, ScheduleDone, AssignConflict,
     AssignFault, StartTaskExecution, ExecutorMissing
<1>4. ASSUME NEW u \in Task, NEW n \in Attempt,
             Execution(u, n) \/ ContextExpires(u, n)
      PROVE  sched' = sched
  BY <1>4 DEF Execution, ContextExpires, ExecuteTask, ExecuteReturns,
     MarkComplete, HandleTaskSuccess, HandleFailedTask, Requeue, MarkFailed,
     BlockTask, ReleaseFailed, SendResult, DeleteRunning, ReleaseDeferred
<1>5. CASE Lifecycle
  BY <1>5 DEF Lifecycle, Start, StopTasks, StopCancel, StopReturns,
     StopTimesOut, Crash, SchedIdle
<1>6. QED BY <1>1, <1>2, <1>3, <1>4, <1>5 DEF Next

\* A task is stranded where GetAgentExecutor fails.
LEMMA NewlyStranded ==
  ASSUME TypeOK, [Next]_vars, ~Crash, NEW t \in Stranded', t \notin Stranded
  PROVE  ExecutorMissing /\ t = sched.task
<1>1. /\ t \in Task /\ kanban'[t].assignee # NoAgent
      /\ \A n \in Attempt : pc'[t][n] = "unused"
      /\ sched'.at = "start" => sched'.task # t
  BY DEF Stranded
<1>2. \A n \in Attempt : pc[t][n] = "unused"
  <2>1. SUFFICES ASSUME NEW n \in Attempt, pc[t][n] # "unused"
                 PROVE  FALSE
    OBVIOUS
  <2>2. pc'[t][n] # pc[t][n]
    BY <1>1, <2>1
  <2>3. Execution(t, n) \/ ContextExpires(t, n) \/ StopTasks
        \/ (StartTaskExecution(n) /\ t = sched.task)
    BY <1>1, <2>2, PcChanges
  <2>4. ~MoveTo(t, n, "spawned") /\ ~StopTasks
    BY <1>1, <2>1 DEF MoveTo, TypeOK, StopTasks
  <2>5. \A to \in PC \ {"unused"} : ~MoveTo(t, n, to)
    BY <1>1 DEF MoveTo, TypeOK
  <2>6. QED BY <2>3, <2>4, <2>5, Constants DEF PC, StartTaskExecution,
       Execution, ContextExpires, ExecuteTask, ExecuteReturns, MarkComplete,
       HandleTaskSuccess, HandleFailedTask, Requeue, MarkFailed, BlockTask,
       ReleaseFailed, SendResult, DeleteRunning, ReleaseDeferred
<1>3. CASE kanban[t].assignee = NoAgent
  <2>1. AssignTask
    <3>1. CASE UNCHANGED vars
      BY <1>1, <1>3, <3>1 DEF vars
    <3>2. CASE Client
      BY <1>1, <1>3, <3>2 DEF Client, SubmitTask, ResubmitDeadLetterTask,
         ResubmitRefused, RegisterAgent, UnregisterAgent, ReadResult,
         KanbanUnassign, TypeOK, KanbanTask
    <3>3. CASE Scheduling
      BY <1>1, <1>3, <3>3 DEF Scheduling, ScheduleNext, ScheduleNothing,
         RequestTaskAssignment, RequestFails, ScheduleDone, AssignConflict,
         AssignFault, StartTaskExecution, ExecutorMissing
    <3>4. ASSUME NEW u \in Task, NEW n \in Attempt,
                 Execution(u, n) \/ ContextExpires(u, n)
          PROVE  FALSE
      <4>1. kanban' = kanban \/ \E status \in {"done", "blocked"} :
                                   UpdateKanban(u, status)
        BY <3>4 DEF Execution, ContextExpires, ExecuteTask, ExecuteReturns,
           MarkComplete, HandleTaskSuccess, HandleFailedTask, Requeue,
           MarkFailed, BlockTask, ReleaseFailed, SendResult, DeleteRunning,
           ReleaseDeferred
      <4>2. kanban'[t].assignee = kanban[t].assignee
        BY <1>1, <4>1, UpdateKanbanType DEF TypeOK
      <4>3. QED BY <1>1, <1>3, <4>2
    <3>5. CASE Lifecycle
      BY <1>1, <1>3, <3>5 DEF Lifecycle, Start, StopTasks, StopCancel,
         StopReturns, StopTimesOut, Crash
    <3>6. QED BY <3>1, <3>2, <3>3, <3>4, <3>5 DEF Next
  <2>2. /\ sched'.at = "start" /\ sched'.task = sched.task
        /\ kanban' = [kanban EXCEPT ![sched.task] = kanban'[sched.task]]
    BY <2>1 DEF AssignTask, TypeOK, SchedState
  <2>3. QED BY <1>1, <1>3, <2>2 DEF TypeOK
<1>4. CASE kanban[t].assignee # NoAgent
  <2>1. sched.at = "start" /\ sched.task = t
    BY <1>1, <1>2, <1>4 DEF Stranded
  <2>2. ~(sched'.at = "start" /\ sched'.task = sched.task)
    BY <1>1, <2>1
  <2>3. ASSUME NEW n \in Attempt, StartTaskExecution(n)
        PROVE  FALSE
    BY <1>1, <2>1, <2>3 DEF StartTaskExecution, MoveTo, TypeOK
  <2>4. CASE UNCHANGED vars
    BY <2>1, <2>2, <2>4 DEF vars
  <2>5. CASE Client
    BY <2>1, <2>2, <2>5 DEF Client, SubmitTask, ResubmitDeadLetterTask,
       ResubmitRefused, RegisterAgent, UnregisterAgent, ReadResult,
       KanbanUnassign
  <2>6. CASE Scheduling
    BY <2>1, <2>2, <2>3, <2>6 DEF Scheduling, ScheduleNext, ScheduleNothing,
       IsNext, RequestTaskAssignment, RequestFails, ScheduleDone, AssignTask,
       AssignConflict, AssignFault
  <2>7. ASSUME NEW u \in Task, NEW n \in Attempt,
               Execution(u, n) \/ ContextExpires(u, n)
        PROVE  FALSE
    BY <2>1, <2>2, <2>7 DEF Execution, ContextExpires, ExecuteTask,
       ExecuteReturns, MarkComplete, HandleTaskSuccess, HandleFailedTask,
       Requeue, MarkFailed, BlockTask, ReleaseFailed, SendResult,
       DeleteRunning, ReleaseDeferred
  <2>8. CASE Lifecycle
    BY <2>1, <2>2, <2>8 DEF Lifecycle, Start, StopTasks, StopCancel,
       StopReturns, StopTimesOut
  <2>9. QED BY <2>1, <2>4, <2>5, <2>6, <2>7, <2>8 DEF Next
<1>5. QED BY <1>3, <1>4

\* A task the board has assigned gets an attempt, however the call that assigns it
\* and the one that starts it are overtaken: it stays behind on the board only
\* when its agent is unregistered, or the process dies, in between, one for each.
THEOREM AssignedRun == Spec => []AssignedTasksRun
<1>1. Init => StrandedByLoss
  <2> SUFFICES ASSUME Init
               PROVE  StrandedByLoss
    OBVIOUS
  <2>1. Stranded = {} /\ AgentGone = 0
    BY DEF Init, Stranded, AgentGone, SchedIdle
  <2>2. used["unregister"] = 0 /\ used["crash"] = 0
    BY DEF Init, EnvironmentStep
  <2>3. QED BY <2>1, <2>2, FS_EmptySet DEF StrandedByLoss
<1>2. TypeOK /\ TypeOK' /\ StrandedByLoss /\ [Next]_vars => StrandedByLoss'
  <2> SUFFICES ASSUME TypeOK, TypeOK', StrandedByLoss, [Next]_vars
               PROVE  StrandedByLoss'
    OBVIOUS
  <2> DEFINE losses == used["unregister"] + used["crash"]
  <2>1. /\ IsFiniteSet(Stranded) /\ Cardinality(Stranded) \in Nat
        /\ Cardinality(Stranded) + AgentGone <= losses
    BY FS_CardinalityType DEF StrandedByLoss
  <2>2. /\ used["unregister"] \in Nat /\ used'["unregister"] \in Nat
        /\ used["crash"] \in Nat /\ used'["crash"] \in Nat
        /\ used["unregister"] <= used'["unregister"]
        /\ used["crash"] <= used'["crash"]
    BY UsedGrows DEF EnvironmentStep
  <2>3. AgentGone \in 0 .. 1 /\ AgentGone' \in 0 .. 1
    BY DEF AgentGone
  <2>4. CASE Crash
    <3>1. Stranded' \subseteq Stranded \cup {sched.task}
      BY <2>4 DEF Crash, Stranded, SchedIdle
    <3>2. /\ IsFiniteSet(Stranded \cup {sched.task})
          /\ \/ Cardinality(Stranded \cup {sched.task}) = Cardinality(Stranded)
             \/ Cardinality(Stranded \cup {sched.task}) = Cardinality(Stranded) + 1
      BY <2>1, FS_AddElement
    <3>3. /\ IsFiniteSet(Stranded') /\ Cardinality(Stranded') \in Nat
          /\ Cardinality(Stranded') <= Cardinality(Stranded \cup {sched.task})
      BY <3>1, <3>2, FS_Subset, FS_CardinalityType
    <3>4. used'["crash"] = used["crash"] + 1 /\ AgentGone' = 0
      BY <2>4, SpendType DEF Crash, TypeOK, EnvironmentStep, AgentGone, SchedIdle
    <3>5. QED BY <2>1, <2>2, <2>3, <3>2, <3>3, <3>4 DEF StrandedByLoss
  <2>5. CASE ExecutorMissing
    <3>1. Stranded' \subseteq Stranded \cup {sched.task}
      BY <2>5 DEF ExecutorMissing, Stranded
    <3>2. /\ IsFiniteSet(Stranded \cup {sched.task})
          /\ \/ Cardinality(Stranded \cup {sched.task}) = Cardinality(Stranded)
             \/ Cardinality(Stranded \cup {sched.task}) = Cardinality(Stranded) + 1
      BY <2>1, FS_AddElement
    <3>3. /\ IsFiniteSet(Stranded') /\ Cardinality(Stranded') \in Nat
          /\ Cardinality(Stranded') <= Cardinality(Stranded \cup {sched.task})
      BY <3>1, <3>2, FS_Subset, FS_CardinalityType
    <3>4. AgentGone = 1 /\ AgentGone' = 0
      BY <2>5 DEF ExecutorMissing, AgentGone, Continue, TypeOK, SchedState
    <3>5. QED BY <2>1, <2>2, <2>3, <3>2, <3>3, <3>4 DEF StrandedByLoss
  <2>6. CASE ~Crash /\ ~ExecutorMissing
    <3>1. Stranded' \subseteq Stranded
      BY <2>6, NewlyStranded
    <3>2. /\ IsFiniteSet(Stranded') /\ Cardinality(Stranded') \in Nat
          /\ Cardinality(Stranded') <= Cardinality(Stranded)
      BY <2>1, <3>1, FS_Subset, FS_CardinalityType
    <3>3. \/ AgentGone' <= AgentGone
          \/ AgentGone' = 1 /\ used'["unregister"] = used["unregister"] + 1
      <4>1. SUFFICES ASSUME AgentGone' = 1, AgentGone = 0
                     PROVE  used'["unregister"] = used["unregister"] + 1
        BY <2>3
      <4>2. sched'.at \in {"assign", "start"} /\ ~agents'[sched'.agent].present
        BY <4>1 DEF AgentGone
      <4>3. ~(sched'.agent \in AvailableAgents /\ agents' = agents)
        BY <4>2 DEF AvailableAgents
      <4>4. sched.at \in {"assign", "start"} /\ sched'.agent = sched.agent
        BY <4>2, <4>3, ChosenAgentChanges
      <4>5. agents[sched.agent].present /\ sched.agent \in Agent
        BY <4>1, <4>4 DEF AgentGone, TypeOK, SchedState
      <4>6. RegisterAgent(sched.agent) \/ UnregisterAgent(sched.agent)
        BY <2>6, <4>2, <4>4, <4>5, PresentChanges
      <4>7. ~RegisterAgent(sched.agent)
        BY <4>2, <4>4, <4>5 DEF RegisterAgent, TypeOK, Absent
      <4>8. QED BY <4>6, <4>7, SpendType DEF UnregisterAgent, TypeOK,
           EnvironmentStep
    <3>4. QED BY <2>1, <2>2, <2>3, <3>2, <3>3 DEF StrandedByLoss
  <2>7. QED BY <2>4, <2>5, <2>6
<1>3. TypeOK /\ StrandedByLoss => AssignedTasksRun
  <2> SUFFICES ASSUME TypeOK, StrandedByLoss
               PROVE  AssignedTasksRun
    OBVIOUS
  <2>1. /\ Cardinality(Stranded) + AgentGone <= used["unregister"] + used["crash"]
        /\ Cardinality(Stranded) \in Nat /\ AgentGone \in Nat
        /\ used["unregister"] \in Nat /\ used["crash"] \in Nat
    BY FS_CardinalityType DEF StrandedByLoss, AgentGone, TypeOK, EnvironmentStep
  <2>2. QED BY <2>1 DEF AssignedTasksRun
<1>4. QED
  BY <1>1, <1>2, <1>3, TypeCorrect, PTL DEF Spec

-------------------------------------------------------------------------------
(* The life of a task *)

\* The dependency graph has a node for every task something is known of.
InGraph ==
  \A t \in Task : depStatus[t] # "pending" \/ AtWork(t) => t \in nodes

\* Only known tasks are started, and an attempt has a node to report to.
LEMMA InGraphHolds == Spec => []InGraph
<1>1. Init => InGraph
  BY DEF Init, InGraph, AtWork
<1>2. TypeOK /\ Known /\ InGraph /\ [Next]_vars => InGraph'
  <2> SUFFICES ASSUME TypeOK, Known, InGraph, [Next]_vars, NEW t \in Task,
                      depStatus'[t] # "pending" \/ AtWork(t)'
               PROVE  t \in nodes'
    BY DEF InGraph
  <2>1. ~Crash
    BY DEF Crash, AtWork
  <2>2. t \in nodes
    <3>1. ASSUME NEW n \in Attempt, MarkComplete(t, n) \/ MarkFailed(t, n)
          PROVE  t \in nodes
      BY <3>1 DEF MarkComplete, MarkFailed, Known, Live, PC
    <3>2. ASSUME NEW n \in Attempt, StartTaskExecution(n), t = sched.task
          PROVE  t \in nodes
      BY <3>2 DEF StartTaskExecution, Known
    <3>3. CASE depStatus[t] # "pending" \/ AtWork(t)
      BY <3>3 DEF InGraph
    <3>4. CASE depStatus[t] = "pending" /\ ~AtWork(t)
      BY <2>1, <3>1, <3>2, <3>4, WorkStarts, DepStatusChanges
    <3>5. QED BY <3>3, <3>4
  <2>3. SubmitTask(t) => t \in nodes'
    BY DEF SubmitTask
  <2>4. QED BY <2>1, <2>2, <2>3, NodesChange
<1>3. QED
  BY <1>1, <1>2, TypeCorrect, KnownHolds, PTL DEF Spec

\* What the phase of a task depends on.
LEMMA SamePhase ==
  ASSUME NEW t \in Task, (t \in nodes') = (t \in nodes),
         depStatus'[t] = depStatus[t], AtWork(t)' = AtWork(t)
  PROVE  PhaseOf(t)' = PhaseOf(t)
BY DEF PhaseOf

\* A step of one task's life leaves the others' alone.
LEMMA OthersKeepPhase ==
  ASSUME TypeOK, NEW t \in Task, NEW u \in Task \ {t}, NEW n \in Attempt,
         \/ SubmitTask(t)
         \/ MarkComplete(t, n) \/ MarkFailed(t, n) \/ Requeue(t, n)
         \/ StartTaskExecution(n) /\ t = sched.task
  PROVE  PhaseOf(u)' = PhaseOf(u)
<1>1. (u \in nodes') = (u \in nodes)
  BY DEF SubmitTask, MarkComplete, MarkFailed, Requeue, StartTaskExecution
<1>2. depStatus'[u] = depStatus[u]
  BY DEF SubmitTask, MarkComplete, MarkFailed, Requeue, StartTaskExecution,
     TypeOK
<1>3. pc'[u] = pc[u]
  BY DEF SubmitTask, MarkComplete, MarkFailed, Requeue, StartTaskExecution,
     MoveTo, TypeOK
<1>4. QED BY <1>1, <1>2, <1>3, SamePhase DEF AtWork

\* A step that changes what the clients can see of the tasks is one of
\* TaskLifecycle's.
LEMMA StepIsPromised ==
  ASSUME TypeOK, ExecutedAtMostOnce, Finished, Reported, Known, Ready, InGraph,
         used["unassign"] = 0, [Next]_vars, phaseBar' # phaseBar
  PROVE  Lifecycle_!Next
<1>1. phaseBar = [t \in Task |-> PhaseOf(t)] /\ phaseBar' = [t \in Task |-> PhaseOf(t)']
  BY DEF phaseBar
<1>2. ASSUME NEW t \in Task, NEW to, PhaseOf(t)' = to,
             \A u \in Task \ {t} : PhaseOf(u)' = PhaseOf(u)
      PROVE  phaseBar' = [phaseBar EXCEPT ![t] = to]
  BY <1>1, <1>2
<1>3. CASE Crash
  <2>1. \A t \in Task : PhaseOf(t)' = "new"
    BY <1>3 DEF Crash, PhaseOf
  <2>2. Lifecycle_!Forget
    BY <1>1, <2>1 DEF Lifecycle_!Forget
  <2>3. QED BY <2>2 DEF Lifecycle_!Next
<1>4. CASE ~Crash
  <2>1. PICK t \in Task : PhaseOf(t)' # PhaseOf(t)
    BY <1>1
  <2>2. CASE (t \in nodes') # (t \in nodes)
    <3>1. SubmitTask(t)
      BY <1>4, <2>2, NodesChange
    <3>2. PhaseOf(t) = "new" /\ PhaseOf(t)' = "waiting"
      <4>1. t \notin nodes /\ t \in nodes'
        BY <2>2, <3>1 DEF SubmitTask
      <4>2. depStatus[t] = "pending" /\ ~AtWork(t)
        BY <4>1 DEF InGraph
      <4>3. depStatus'[t] = "pending" /\ ~AtWork(t)'
        BY <3>1, <4>2 DEF SubmitTask, AtWork
      <4>4. QED BY <4>1, <4>2, <4>3 DEF PhaseOf
    <3>3. \A u \in Task \ {t} : PhaseOf(u)' = PhaseOf(u)
      BY <3>1, OthersKeepPhase, BoundsAssumption DEF Attempt
    <3>4. Lifecycle_!Submit(t)
      BY <1>1, <1>2, <3>2, <3>3 DEF Lifecycle_!Submit
    <3>5. QED BY <3>4 DEF Lifecycle_!Next
  <2>3. CASE (t \in nodes') = (t \in nodes) /\ depStatus'[t] # depStatus[t]
    <3>1. PICK n \in Attempt : MarkComplete(t, n) \/ MarkFailed(t, n)
      BY <1>4, <2>3, DepStatusChanges
    <3>2. \A u \in Task \ {t} : PhaseOf(u)' = PhaseOf(u)
      BY <3>1, OthersKeepPhase
    <3>3. pc[t][n] \in {"succeeded", "block"} /\ n = 1
      BY <3>1, OnlyAttempt DEF MarkComplete, MarkFailed
    <3>4. t \in nodes /\ AtWork(t)
      BY <3>3 DEF Known, Live, PC, AtWork
    <3>5. depStatus[t] = "pending"
      <4>1. depStatus[t] # "completed"
        BY <3>3 DEF Finished, Over
      <4>2. depStatus[t] # "failed"
        BY <3>3, <4>1, <2>3, <3>1
           DEF Reported, Dying, MarkComplete, MarkFailed, TypeOK
      <4>3. QED BY <4>1, <4>2 DEF TypeOK
    <3>6. PhaseOf(t) = "running"
      BY <3>4, <3>5 DEF PhaseOf
    <3>7. PhaseOf(t)' \in {"succeeded", "failed"}
      <4>1. depStatus'[t] \in {"completed", "failed"}
        BY <3>1 DEF MarkComplete, MarkFailed, TypeOK
      <4>2. QED BY <2>3, <3>4, <4>1 DEF PhaseOf
    <3>8. Lifecycle_!Finish(t)
      BY <1>1, <1>2, <3>2, <3>6, <3>7 DEF Lifecycle_!Finish
    <3>9. QED BY <3>8 DEF Lifecycle_!Next
  <2>4. CASE (t \in nodes') = (t \in nodes) /\ depStatus'[t] = depStatus[t]
    <3>1. AtWork(t)' # AtWork(t)
      BY <2>1, <2>4, SamePhase
    <3>2. t \in nodes /\ t \in nodes'
      BY <2>1, <2>4 DEF PhaseOf
    <3>3. depStatus[t] = "pending" /\ depStatus'[t] = "pending"
      BY <2>1, <2>4, <3>2 DEF PhaseOf, TypeOK
    <3>4. CASE AtWork(t)'
      <4>1. ~AtWork(t)
        BY <3>1, <3>4 DEF AtWork
      <4>2. PICK n \in Attempt : StartTaskExecution(n) /\ t = sched.task
        BY <3>4, <4>1, WorkStarts
      <4>3. \A u \in Task \ {t} : PhaseOf(u)' = PhaseOf(u)
        BY <4>2, OthersKeepPhase
      <4>4. PhaseOf(t) = "waiting" /\ PhaseOf(t)' = "running"
        BY <3>2, <3>3, <3>4, <4>1 DEF PhaseOf
      <4>5. \A d \in Deps[t] : d \in Task /\ PhaseOf(d) = "succeeded"
        <5>1. SUFFICES ASSUME NEW d \in Deps[t]
                       PROVE  d \in Task /\ PhaseOf(d) = "succeeded"
          OBVIOUS
        <5>2. d \in Task
          BY Constants
        <5>3. depStatus[d] = "completed"
          BY <4>2 DEF Ready, Chosen, StartTaskExecution
        <5>4. d \in nodes
          BY <5>2, <5>3 DEF InGraph
        <5>5. QED BY <5>2, <5>3, <5>4 DEF PhaseOf
      <4>6. Lifecycle_!Run(t)
        BY <1>1, <1>2, <4>3, <4>4, <4>5 DEF Lifecycle_!Run
      <4>7. QED BY <4>6 DEF Lifecycle_!Next
    <3>5. CASE ~AtWork(t)'
      <4>1. AtWork(t)
        BY <3>1, <3>5 DEF AtWork
      <4>2. PICK n \in Attempt :
              MarkComplete(t, n) \/ MarkFailed(t, n) \/ Requeue(t, n)
        BY <1>4, <3>5, <4>1, WorkEnds
      <4>3. \A u \in Task \ {t} : PhaseOf(u)' = PhaseOf(u)
        BY <4>2, OthersKeepPhase
      <4>4. PhaseOf(t) = "running" /\ PhaseOf(t)' = "waiting"
        BY <3>2, <3>3, <3>5, <4>1 DEF PhaseOf
      <4>5. Lifecycle_!Finish(t)
        BY <1>1, <1>2, <4>3, <4>4 DEF Lifecycle_!Finish
      <4>6. QED BY <4>5 DEF Lifecycle_!Next
    <3>6. QED BY <3>4, <3>5
  <2>5. QED BY <2>2, <2>3, <2>4
<1>5. QED BY <1>3, <1>4

\* As long as nobody clears an assignee, every behaviour of the scheduler, faults,
\* Stop and crashes included, is one TaskLifecycle promises the clients: a task
\* runs after its dependencies have succeeded, and what it ends in is final.
THEOREM KeepsPromises == Spec /\ [](used["unassign"] = 0) => ImplementsLifecycle
<1>1. Init => Lifecycle_!Init
  BY DEF Init, phaseBar, PhaseOf, Lifecycle_!Init
<1>2. TypeOK /\ ExecutedAtMostOnce /\ Finished /\ Reported /\ Known /\ Ready
        /\ InGraph /\ used["unassign"] = 0 /\ [Next]_vars
        => [Lifecycle_!Next]_phaseBar
  BY StepIsPromised
<1>3. QED
  BY <1>1, <1>2, TypeCorrect, AtMostOnce, FinishedHolds, ReportedHolds,
     KnownHolds, ReadyHolds, InGraphHolds, PTL
     DEF Spec, ImplementsLifecycle, Lifecycle_!Spec
=============================================================================
