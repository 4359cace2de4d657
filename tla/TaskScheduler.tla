---------------------------- MODULE TaskScheduler ----------------------------
(* The task scheduler of pkg/orchestrator/scheduler: the priority queue, the  *)
(* map of running tasks, the agent pool, the assignment of a task to an agent *)
(* through the manager agent and the kanban board, the goroutine that         *)
(* executes one attempt at a task, the dead letter queue, and the life of the *)
(* scheduler itself from Start to Stop or to a crash.                         *)
(*                                                                            *)
(* An action is a section of the code between two points where another        *)
(* goroutine can observe a difference: a lock, a channel operation or a call  *)
(* to the manager, the kanban board or the agent's executor.                  *)
EXTENDS Naturals, FiniteSets, Sequences

CONSTANTS
  Task,            \* the task IDs clients submit
  Agent,           \* the agent IDs
  NoTask, NoAgent, \* the empty strings of CurrentTask, Agent and AssignedTo
  Deps,            \* Deps[t]: the Dependencies of SchedulableTask t
  Priority,        \* Priority[t]: its Priority
  MaxConcurrentTasks, MaxTaskRetries,   \* SchedulerConfig
  ResultCap,       \* capacity of resultChan (100 in the code)
  Outcomes,        \* what an executor, behind the retry policy, can answer
  MaxAttempts,     \* bound: executions of one task a behaviour may contain
  Limit            \* bound: Limit[k] is how often the environment may do k

ASSUME NullsAssumption == NoTask \notin Task /\ NoAgent \notin Agent

\* SubmitTask refuses a dependency cycle, so the submitted tasks have none.
ASSUME DepsAssumption ==
  /\ Deps \in [Task -> SUBSET Task]
  /\ \A S \in SUBSET Task : S # {} => \E t \in S : Deps[t] \cap S = {}

ASSUME ConfigAssumption ==
  /\ Priority \in [Task -> Nat]
  /\ MaxConcurrentTasks \in Nat \ {0}
  /\ MaxTaskRetries \in Nat
  /\ ResultCap \in Nat \ {0}
  /\ Outcomes \subseteq {"ok", "retryable", "fatal"}

\* The things the environment does a bounded number of times.
EnvironmentStep ==
  {"submit", "register", "unregister", "refuse", "fault", "timeout", "unassign",
   "stop", "crash"}

ASSUME BoundsAssumption ==
  /\ MaxAttempts \in Nat \ {0}
  /\ Limit \in [EnvironmentStep -> Nat]

VARIABLES
  life,      \* Start and Stop: see Life
  queue,     \* IDs in taskQueue.lookup
  nodes,     \* tasks AddTask has put into the dependency graph
  depStatus, \* DependencyNode.Status; "completed" is also dg.completed[t]
  running,   \* runningTasks: the attempt entered for a task, 0 when none
  pc,        \* pc[t][n]: where the goroutine of attempt n at task t is
  taskAgent, \* SchedulableTask.Agent, shared by all attempts at the task
  agents,    \* AgentPool
  kanban,    \* the task's row on the board: AssignedTo and Status
  sched,     \* the scheduleNext that holds ts.mu
  kicks,     \* goroutines started by `go ts.scheduleNext()` and not yet run
  dlq,       \* TaskRecovery.deadLetterQueue
  results,   \* number of results buffered in resultChan
  used       \* how often each EnvironmentStep has happened

vars == <<life, queue, nodes, depStatus, running, pc, taskAgent, agents,
          kanban, sched, kicks, dlq, results, used>>

-------------------------------------------------------------------------------
(* Types *)

Attempt == 1 .. MaxAttempts

Life == {"created", "running", "cancelling", "cancelled", "returned",
         "timed_out"}

\* Where executeTask is. "expired" is "spawned" with rt.Context already done;
\* "leaked" is the early return that skips the deferred cleanup.
PC == {"unused", "spawned", "expired", "exec", "succeeded", "completed",
       "retryable", "fatal", "requeue", "block", "failed", "release_failed",
       "send", "delete", "release", "gone", "leaked"}

\* The goroutine exists.
Live == PC \ {"unused", "gone", "leaked"}

AgentInfo ==
  [present : BOOLEAN, available : BOOLEAN, current : Task \cup {NoTask},
   handled : Nat, errNum : Nat, errDen : Nat \ {0}]

KanbanTask ==
  [assignee : Agent \cup {NoAgent},
   status : {"todo", "in_progress", "done", "blocked"}]

SchedState ==
  {s \in [at : {"idle", "next", "assign", "start"}, todo : SUBSET Task,
          task : Task \cup {NoTask}, agent : Agent \cup {NoAgent},
          tracked : BOOLEAN] :
     s.at \in {"assign", "start"} => s.task \in Task /\ s.agent \in Agent}

\* Types, with the bounds that the code keeps: the result channel is never
\* overfull, and scheduleNext never acts without a task and an agent in hand.
TypeOK ==
  /\ life \in Life
  /\ queue \in SUBSET Task
  /\ nodes \in SUBSET Task
  /\ depStatus \in [Task -> {"pending", "completed", "failed"}]
  /\ running \in [Task -> 0 .. MaxAttempts]
  /\ pc \in [Task -> [Attempt -> PC]]
  /\ taskAgent \in [Task -> Agent \cup {NoAgent}]
  /\ agents \in [Agent -> AgentInfo]
  /\ kanban \in [Task -> KanbanTask]
  /\ sched \in SchedState
  /\ kicks \in Nat
  /\ dlq \in Seq(Task)
  /\ results \in 0 .. ResultCap
  /\ used \in [EnvironmentStep -> Nat]

-------------------------------------------------------------------------------
(* The scheduler's own state, as NewTaskScheduler builds it *)

Absent == [present |-> FALSE, available |-> FALSE, current |-> NoTask,
           handled |-> 0, errNum |-> 0, errDen |-> 1]

SchedIdle == [at |-> "idle", todo |-> {}, task |-> NoTask,
              agent |-> NoAgent, tracked |-> FALSE]

Init ==
  /\ life = "created"
  /\ queue = {}
  /\ nodes = {}
  /\ depStatus = [t \in Task |-> "pending"]
  /\ running = [t \in Task |-> 0]
  /\ pc = [t \in Task |-> [n \in Attempt |-> "unused"]]
  /\ taskAgent = [t \in Task |-> NoAgent]
  /\ agents = [a \in Agent |-> Absent]
  /\ kanban = [t \in Task |-> [assignee |-> NoAgent, status |-> "todo"]]
  /\ sched = SchedIdle
  /\ kicks = 0
  /\ dlq = <<>>
  /\ results = 0
  /\ used = [k \in EnvironmentStep |-> 0]

Spend(k) == used[k] < Limit[k] /\ used' = [used EXCEPT ![k] = @ + 1]

\* ts.ctx.Err() == nil
CtxAlive == life \in {"created", "running", "cancelling"}

\* Mutant: only failed dependencies hold a task back.
AreSatisfiedUnlessFailed(t) ==
  t \in nodes => \A d \in Deps[t] : depStatus[d] # "failed"

AreSatisfied(t) ==
  t \in nodes => \A d \in Deps[t] : depStatus[d] = "completed"

RunningTasks == {t \in Task : running[t] # 0}

MoveTo(t, n, to) == pc' = [pc EXCEPT ![t][n] = to]

-------------------------------------------------------------------------------
(* Clients *)

\* AddTask and Push: nothing reads the graph's node before the task is queued.
\* Push ignores an ID that is already queued; no other state is looked at.
SubmitTask(t) ==
  /\ Spend("submit")
  /\ nodes' = nodes \cup {t}
  /\ queue' = queue \cup {t}
  /\ UNCHANGED <<life, depStatus, running, pc, taskAgent, agents, kanban,
                 sched, kicks, dlq, results>>

RemovedAt(i) == SubSeq(dlq, 1, i - 1) \o SubSeq(dlq, i + 1, Len(dlq))

\* The entry is removed first, then SubmitTask is called.
ResubmitDeadLetterTask(i) ==
  /\ Spend("submit")
  /\ dlq' = RemovedAt(i)
  /\ queue' = queue \cup {dlq[i]}
  /\ UNCHANGED <<life, nodes, depStatus, running, pc, taskAgent, agents,
                 kanban, sched, kicks, results>>

\* The client's context is done by then: SubmitTask refuses it, and the task is
\* in neither queue.
ResubmitRefused(i) ==
  /\ Spend("refuse")
  /\ dlq' = RemovedAt(i)
  /\ UNCHANGED <<life, queue, nodes, depStatus, running, pc, taskAgent, agents,
                 kanban, sched, kicks, results>>

\* The info is overwritten, whatever the agent is doing.
RegisterAgent(a) ==
  /\ Spend("register")
  /\ agents' = [agents EXCEPT ![a] =
                  [Absent EXCEPT !.present = TRUE, !.available = TRUE]]
  /\ UNCHANGED <<life, queue, nodes, depStatus, running, pc, taskAgent,
                 kanban, sched, kicks, dlq, results>>

UnregisterAgent(a) ==
  /\ agents[a].present
  /\ Spend("unregister")
  /\ agents' = [agents EXCEPT ![a] = Absent]
  /\ UNCHANGED <<life, queue, nodes, depStatus, running, pc, taskAgent,
                 kanban, sched, kicks, dlq, results>>

\* The consumer of GetResults.
ReadResult ==
  /\ results > 0
  /\ results' = results - 1
  /\ UNCHANGED <<life, queue, nodes, depStatus, running, pc, taskAgent,
                 agents, kanban, sched, kicks, dlq, used>>

\* A user of the board clears the assignee of a task.
KanbanUnassign(t) ==
  /\ kanban[t].assignee # NoAgent
  /\ Spend("unassign")
  /\ kanban' = [kanban EXCEPT ![t].assignee = NoAgent]
  /\ UNCHANGED <<life, queue, nodes, depStatus, running, pc, taskAgent,
                 agents, sched, kicks, dlq, results>>

-------------------------------------------------------------------------------
(* scheduleNext, which holds ts.mu from its first action to its last *)

ReadyTasks == {t \in queue : AreSatisfied(t)}

\* Mutant: off by one.
HasCapacityOffByOne == Cardinality(RunningTasks) <= MaxConcurrentTasks

HasCapacity == Cardinality(RunningTasks) < MaxConcurrentTasks

\* Unlock ts.mu, or go on with the next ready task.
Continue == sched' = [sched EXCEPT !.at = "next", !.task = NoTask,
                                   !.agent = NoAgent]

\* The ready list is computed once, before the loop. `tracked` tells the call of
\* schedulerLoop, which ts.wg waits for, from one handleTaskSuccess started.
ScheduleNext(tracked) ==
  /\ sched.at = "idle"
  /\ CtxAlive
  /\ IF tracked THEN life # "created" /\ UNCHANGED kicks
                ELSE kicks > 0 /\ kicks' = kicks - 1
  /\ HasCapacity
  /\ ReadyTasks # {}
  /\ sched' = [SchedIdle EXCEPT !.at = "next", !.todo = ReadyTasks,
                                !.tracked = tracked]
  /\ UNCHANGED <<life, queue, nodes, depStatus, running, pc, taskAgent,
                 agents, kanban, dlq, results, used>>

\* An untracked call that finds the context done, no slot or no ready task.
ScheduleNothing ==
  /\ kicks > 0
  /\ ~CtxAlive \/ (sched.at = "idle" /\ (~HasCapacity \/ ReadyTasks = {}))
  /\ kicks' = kicks - 1
  /\ UNCHANGED <<life, queue, nodes, depStatus, running, pc, taskAgent,
                 agents, kanban, sched, dlq, results, used>>

\* A ready task of the highest priority left; equals come in any order.
IsNext(t) ==
  /\ sched.at = "next"
  /\ t \in sched.todo
  /\ \A u \in sched.todo : Priority[u] <= Priority[t]

\* ErrorRate < 0.5, with the rate kept as a fraction.
AvailableAgents ==
  {a \in Agent : /\ agents[a].present
                 /\ agents[a].available
                 /\ 2 * agents[a].errNum < agents[a].errDen}

\* Mutant: the task is popped before it is known to be assigned.
RequestPops(t) ==
  /\ IsNext(t)
  /\ CtxAlive
  /\ \E a \in AvailableAgents :
       sched' = [sched EXCEPT !.at = "assign", !.todo = @ \ {t}, !.task = t,
                              !.agent = a]
  /\ queue' = queue \ {t}
  /\ UNCHANGED <<life, nodes, depStatus, running, pc, taskAgent, agents,
                 kanban, kicks, dlq, results, used>>

\* The manager agent answers with one of the agents it was shown.
RequestTaskAssignment(t) ==
  /\ IsNext(t)
  /\ CtxAlive
  /\ \E a \in AvailableAgents :
       sched' = [sched EXCEPT !.at = "assign", !.todo = @ \ {t}, !.task = t,
                              !.agent = a]
  /\ UNCHANGED <<life, queue, nodes, depStatus, running, pc, taskAgent,
                 agents, kanban, kicks, dlq, results, used>>

\* No agent is free, the context is done, or (a fault) the manager fails or the
\* provider's rate limit is used up: the loop goes on to the next task.
RequestFails(t) ==
  /\ IsNext(t)
  /\ IF CtxAlive /\ AvailableAgents # {} THEN Spend("fault")
                                         ELSE UNCHANGED used
  /\ sched' = [sched EXCEPT !.todo = @ \ {t}]
  /\ UNCHANGED <<life, queue, nodes, depStatus, running, pc, taskAgent,
                 agents, kanban, kicks, dlq, results>>

ScheduleDone ==
  /\ sched.at = "next"
  /\ sched.todo = {}
  /\ sched' = SchedIdle
  /\ UNCHANGED <<life, queue, nodes, depStatus, running, pc, taskAgent,
                 agents, kanban, kicks, dlq, results, used>>

\* Mutant: the agent only learns of the task.
MarkBusyByTask(a, t) ==
  IF agents[a].present THEN [agents EXCEPT ![a].current = t] ELSE agents

MarkBusy(a, t) ==
  IF agents[a].present
  THEN [agents EXCEPT ![a].available = FALSE, ![a].current = t]
  ELSE agents

\* Mutant: the row is locked but not looked at.
UnassignedUnchecked(t) == TRUE

Unassigned(t) == kanban[t].assignee = NoAgent

\* The transaction: lock the row, refuse an assigned task, assign it, mark the
\* agent busy, set the status.
AssignTask ==
  /\ sched.at = "assign"
  /\ CtxAlive
  /\ Unassigned(sched.task)
  /\ kanban' = [kanban EXCEPT ![sched.task] =
                  [assignee |-> sched.agent, status |-> "in_progress"]]
  /\ agents' = MarkBusy(sched.agent, sched.task)
  /\ sched' = [sched EXCEPT !.at = "start"]
  /\ UNCHANGED <<life, queue, nodes, depStatus, running, pc, taskAgent,
                 kicks, dlq, results, used>>

AssignConflict ==
  /\ sched.at = "assign"
  /\ ~(CtxAlive /\ Unassigned(sched.task))
  /\ Continue
  /\ UNCHANGED <<life, queue, nodes, depStatus, running, pc, taskAgent,
                 agents, kanban, kicks, dlq, results, used>>

\* Mutant: the rows do not roll back.
AssignFaultCommits ==
  /\ sched.at = "assign"
  /\ CtxAlive
  /\ Unassigned(sched.task)
  /\ Spend("fault")
  /\ kanban' = [kanban EXCEPT ![sched.task].assignee = sched.agent]
  /\ agents' = MarkBusy(sched.agent, sched.task)
  /\ Continue
  /\ UNCHANGED <<life, queue, nodes, depStatus, running, pc, taskAgent, kicks,
                 dlq, results>>

\* The transaction fails before, or after, the agent was marked busy: the rows
\* roll back, the pool does not.
AssignFault ==
  /\ sched.at = "assign"
  /\ CtxAlive
  /\ Unassigned(sched.task)
  /\ Spend("fault")
  /\ \/ UNCHANGED agents
     \/ agents' = MarkBusy(sched.agent, sched.task)
  /\ Continue
  /\ UNCHANGED <<life, queue, nodes, depStatus, running, pc, taskAgent,
                 kanban, kicks, dlq, results>>

\* GetAgentExecutor and startTaskExecution, then the limit check of the loop.
StartTaskExecution(n) ==
  LET t == sched.task IN
  /\ sched.at = "start"
  /\ agents[sched.agent].present
  /\ pc[t][n] = "unused"
  /\ \A m \in Attempt : m < n => pc[t][m] # "unused"
  /\ taskAgent' = [taskAgent EXCEPT ![t] = sched.agent]
  /\ queue' = queue \ {t}
  /\ running' = [running EXCEPT ![t] = n]
  /\ MoveTo(t, n, "spawned")
  /\ IF Cardinality(RunningTasks \cup {t}) >= MaxConcurrentTasks
     THEN sched' = SchedIdle
     ELSE Continue
  /\ UNCHANGED <<life, nodes, depStatus, agents, kanban, kicks, dlq, results,
                 used>>

\* GetAgentExecutor fails: the assignment on the board stays.
ExecutorMissing ==
  /\ sched.at = "start"
  /\ ~agents[sched.agent].present
  /\ Continue
  /\ UNCHANGED <<life, queue, nodes, depStatus, running, pc, taskAgent,
                 agents, kanban, kicks, dlq, results, used>>

-------------------------------------------------------------------------------
(* executeTask: attempt n at task t *)

\* The timeout passes before the goroutine runs for the first time.
ContextExpires(t, n) ==
  /\ pc[t][n] = "spawned"
  /\ Spend("timeout")
  /\ MoveTo(t, n, "expired")
  /\ UNCHANGED <<life, queue, nodes, depStatus, running, taskAgent, agents,
                 kanban, sched, kicks, dlq, results>>

\* Mutant: the task's context does not derive from the scheduler's.
ContextDoneByTimeout(t, n) == pc[t][n] = "expired"

ContextDone(t, n) == pc[t][n] = "expired" \/ ~CtxAlive

\* The check of rt.Context at the start, made before the cleanup is deferred.
ExecuteTask(t, n) ==
  /\ pc[t][n] \in {"spawned", "expired"}
  /\ MoveTo(t, n, IF ContextDone(t, n) THEN "leaked" ELSE "exec")
  /\ UNCHANGED <<life, queue, nodes, depStatus, running, taskAgent, agents,
                 kanban, sched, kicks, dlq, results, used>>

\* Retry around Call around Execute returns nil, an error whose code is in
\* RetryableErrors (exhausted attempts are), or another one.
ExecuteReturns(t, n, outcome) ==
  /\ pc[t][n] = "exec"
  /\ MoveTo(t, n, IF outcome = "ok" THEN "succeeded" ELSE outcome)
  /\ UNCHANGED <<life, queue, nodes, depStatus, running, taskAgent, agents,
                 kanban, sched, kicks, dlq, results, used>>

MarkComplete(t, n) ==
  /\ pc[t][n] = "succeeded"
  /\ depStatus' = [depStatus EXCEPT ![t] = "completed"]
  /\ MoveTo(t, n, "completed")
  /\ UNCHANGED <<life, queue, nodes, running, taskAgent, agents, kanban,
                 sched, kicks, dlq, results, used>>

\* UpdateTaskStatusAtomic with ts.ctx; its error is dropped.
UpdateKanban(t, status) ==
  \/ /\ CtxAlive
     /\ kanban' = [kanban EXCEPT ![t].status = status]
     /\ UNCHANGED used
  \/ /\ IF CtxAlive THEN Spend("fault") ELSE UNCHANGED used
     /\ UNCHANGED kanban

HandleTaskSuccess(t, n) ==
  /\ pc[t][n] = "completed"
  /\ UpdateKanban(t, "done")
  /\ kicks' = kicks + 1
  /\ MoveTo(t, n, "send")
  /\ UNCHANGED <<life, queue, nodes, depStatus, running, taskAgent, agents,
                 sched, dlq, results>>

\* Mutant: off by one.
NoRetryLeftOffByOne == 1 > MaxTaskRetries

\* The caller's failure count is the literal 1.
NoRetryLeft == 1 >= MaxTaskRetries

HandleFailedTask(t, n) ==
  /\ pc[t][n] \in {"retryable", "fatal"}
  /\ IF NoRetryLeft
     THEN dlq' = Append(dlq, t) /\ MoveTo(t, n, "block")
     ELSE /\ MoveTo(t, n, IF pc[t][n] = "retryable" THEN "requeue" ELSE "block")
          /\ UNCHANGED dlq
  /\ UNCHANGED <<life, queue, nodes, depStatus, running, taskAgent, agents,
                 kanban, sched, kicks, results, used>>

\* The retry branch of handleTaskError.
Requeue(t, n) ==
  /\ pc[t][n] = "requeue"
  /\ queue' = queue \cup {t}
  /\ MoveTo(t, n, "release_failed")
  /\ UNCHANGED <<life, nodes, depStatus, running, taskAgent, agents, kanban,
                 sched, kicks, dlq, results, used>>

\* Mutant: the dependency graph is not told.
MarkFailedForgotten(t, n) ==
  /\ pc[t][n] = "block"
  /\ MoveTo(t, n, "failed")
  /\ UNCHANGED <<life, queue, nodes, depStatus, running, taskAgent, agents,
                 kanban, sched, kicks, dlq, results, used>>

\* Its other branch tells the dependency graph ...
MarkFailed(t, n) ==
  /\ pc[t][n] = "block"
  /\ depStatus' = [depStatus EXCEPT ![t] = "failed"]
  /\ MoveTo(t, n, "failed")
  /\ UNCHANGED <<life, queue, nodes, running, taskAgent, agents, kanban, sched,
                 kicks, dlq, results, used>>

\* ... and then the board.
BlockTask(t, n) ==
  /\ pc[t][n] = "failed"
  /\ UpdateKanban(t, "blocked")
  /\ MoveTo(t, n, "release_failed")
  /\ UNCHANGED <<life, queue, nodes, depStatus, running, taskAgent, agents,
                 sched, kicks, dlq, results>>

\* Mutant: the agent is never made available again.
ReleaseForgotten(a, ok) == agents

\* ReleaseAgent(ts.ctx, a, ok). A failure sets
\* ErrorRate to (ErrorRate * (TasksHandled - 1) + 1) / TasksHandled.
Release(a, ok) ==
  IF ~CtxAlive \/ a = NoAgent \/ ~agents[a].present THEN agents
  ELSE LET i == agents[a]
           h == i.handled + 1
       IN  [agents EXCEPT ![a] =
              [i EXCEPT !.available = TRUE, !.current = NoTask, !.handled = h,
                        !.errNum = IF ok THEN @ ELSE @ * i.handled + i.errDen,
                        !.errDen = IF ok THEN @ ELSE @ * h]]

\* End of handleTaskError.
ReleaseFailed(t, n) ==
  /\ pc[t][n] = "release_failed"
  /\ agents' = Release(taskAgent[t], FALSE)
  /\ MoveTo(t, n, "send")
  /\ UNCHANGED <<life, queue, nodes, depStatus, running, taskAgent, kanban,
                 sched, kicks, dlq, results, used>>

\* Mutant: off by one.
RoomForResultOffByOne == results <= ResultCap

RoomForResult == results < ResultCap

SendResult(t, n) ==
  /\ pc[t][n] = "send"
  /\ \/ RoomForResult /\ results' = results + 1
     \/ ~CtxAlive /\ UNCHANGED results
  /\ MoveTo(t, n, "delete")
  /\ UNCHANGED <<life, queue, nodes, depStatus, running, taskAgent, agents,
                 kanban, sched, kicks, dlq, used>>

\* Mutant: the slot is never given back.
DeleteForgotten(t, n) ==
  /\ pc[t][n] = "delete"
  /\ MoveTo(t, n, "release")
  /\ UNCHANGED <<life, queue, nodes, depStatus, running, taskAgent, agents,
                 kanban, sched, kicks, dlq, results, used>>

\* The deferred cleanup: delete by task ID, under ts.mu ...
DeleteRunning(t, n) ==
  /\ pc[t][n] = "delete"
  /\ sched.at = "idle"
  /\ running' = [running EXCEPT ![t] = 0]
  /\ MoveTo(t, n, "release")
  /\ UNCHANGED <<life, queue, nodes, depStatus, taskAgent, agents, kanban,
                 sched, kicks, dlq, results, used>>

\* ... then release whatever agent the task names now, as a success.
ReleaseDeferred(t, n) ==
  /\ pc[t][n] = "release"
  /\ agents' = Release(taskAgent[t], TRUE)
  /\ MoveTo(t, n, "gone")
  /\ UNCHANGED <<life, queue, nodes, depStatus, running, taskAgent, kanban,
                 sched, kicks, dlq, results, used>>

-------------------------------------------------------------------------------
(* Start, Stop and the crash of the process *)

Start ==
  /\ life = "created"
  /\ life' = "running"
  /\ UNCHANGED <<queue, nodes, depStatus, running, pc, taskAgent, agents,
                 kanban, sched, kicks, dlq, results, used>>

\* The first part of Stop: under ts.mu, cancel every task in the map.
StopTasks ==
  /\ life = "running"
  /\ sched.at = "idle"
  /\ Spend("stop")
  /\ life' = "cancelling"
  /\ pc' = [t \in Task |-> [n \in Attempt |->
              IF running[t] = n /\ pc[t][n] = "spawned" THEN "expired"
                                                        ELSE pc[t][n]]]
  /\ UNCHANGED <<queue, nodes, depStatus, running, taskAgent, agents, kanban,
                 sched, kicks, dlq, results>>

\* ts.cancel(), with ts.mu released again.
StopCancel ==
  /\ life = "cancelling"
  /\ life' = "cancelled"
  /\ UNCHANGED <<queue, nodes, depStatus, running, pc, taskAgent, agents,
                 kanban, sched, kicks, dlq, results, used>>

\* ts.wg is at zero: no attempt and no scheduler loop is left. The goroutines
\* handleTaskSuccess starts are not counted.
WgDone ==
  /\ \A t \in Task, n \in Attempt : pc[t][n] \notin Live
  /\ sched.at # "idle" => ~sched.tracked

StopReturns ==
  /\ life = "cancelled"
  /\ WgDone
  /\ life' = "returned"
  /\ UNCHANGED <<queue, nodes, depStatus, running, pc, taskAgent, agents,
                 kanban, sched, kicks, dlq, results, used>>

\* The context given to Stop ends first.
StopTimesOut ==
  /\ life = "cancelled"
  /\ Spend("timeout")
  /\ life' = "timed_out"
  /\ UNCHANGED <<queue, nodes, depStatus, running, pc, taskAgent, agents,
                 kanban, sched, kicks, dlq, results>>

\* The process dies and a new scheduler is made; the board is all that is left.
\* Attempts that had started stay in pc as history.
Crash ==
  /\ Spend("crash")
  /\ life' = "created"
  /\ queue' = {}
  /\ nodes' = {}
  /\ depStatus' = [t \in Task |-> "pending"]
  /\ running' = [t \in Task |-> 0]
  /\ pc' = [t \in Task |-> [n \in Attempt |->
              IF pc[t][n] = "unused" THEN "unused" ELSE "gone"]]
  /\ taskAgent' = [t \in Task |-> NoAgent]
  /\ agents' = [a \in Agent |-> Absent]
  /\ sched' = SchedIdle
  /\ kicks' = 0
  /\ dlq' = <<>>
  /\ results' = 0
  /\ UNCHANGED kanban

-------------------------------------------------------------------------------

Client ==
  \/ \E t \in Task : SubmitTask(t)
  \/ \E i \in DOMAIN dlq : ResubmitDeadLetterTask(i) \/ ResubmitRefused(i)
  \/ \E a \in Agent : RegisterAgent(a)
  \/ \E a \in Agent : UnregisterAgent(a)
  \/ ReadResult
  \/ \E t \in Task : KanbanUnassign(t)

Scheduling ==
  \/ \E tracked \in BOOLEAN : ScheduleNext(tracked)
  \/ ScheduleNothing
  \/ \E t \in Task : RequestTaskAssignment(t)
  \/ \E t \in Task : RequestFails(t)
  \/ ScheduleDone
  \/ AssignTask
  \/ AssignConflict
  \/ AssignFault
  \/ \E n \in Attempt : StartTaskExecution(n)
  \/ ExecutorMissing

Execution(t, n) ==
  \/ ExecuteTask(t, n)
  \/ \E outcome \in Outcomes : ExecuteReturns(t, n, outcome)
  \/ MarkComplete(t, n)
  \/ HandleTaskSuccess(t, n)
  \/ HandleFailedTask(t, n)
  \/ Requeue(t, n)
  \/ MarkFailed(t, n)
  \/ BlockTask(t, n)
  \/ ReleaseFailed(t, n)
  \/ SendResult(t, n)
  \/ DeleteRunning(t, n)
  \/ ReleaseDeferred(t, n)

Lifecycle ==
  \/ Start
  \/ StopTasks
  \/ StopCancel
  \/ StopReturns
  \/ StopTimesOut
  \/ Crash

Next ==
  \/ Client
  \/ Scheduling
  \/ \E t \in Task, n \in Attempt : Execution(t, n)
  \/ \E t \in Task, n \in Attempt : ContextExpires(t, n)
  \/ Lifecycle

Spec == Init /\ [][Next]_vars

\* The clients, the board's users, faults and Stop owe nothing. The scheduler's
\* loop ticks, its goroutines run, the executor returns, the clients read the
\* results: each of these keeps being done while it can be. A goroutine that
\* waits for ts.mu gets it in the end, although the loop takes it again and
\* again (sync.Mutex hands it over to a waiter that starves): hence SF.
Fairness ==
  /\ WF_vars(ScheduleNext(TRUE))
  /\ WF_vars(Scheduling)
  /\ \A t \in Task, n \in Attempt : WF_vars(Execution(t, n))
  /\ \A t \in Task, n \in Attempt : SF_vars(DeleteRunning(t, n))
  /\ WF_vars(ReadResult)
  /\ WF_vars(Start)
  /\ WF_vars(StopCancel)
  /\ WF_vars(StopReturns)

FairSpec == Spec /\ Fairness

-------------------------------------------------------------------------------
(* Safety *)

\* An attempt at t exists and has not ended its work on t.
AtWork(t) ==
  \E n \in Attempt :
    pc[t][n] \in {"spawned", "expired", "exec", "succeeded", "retryable",
                  "fatal", "requeue", "block", "leaked"}

\* The attempt is entered in runningTasks: startTaskExecution to the deferred
\* delete.
Entered == Live \ {"release"}

\* Only the board's AssignedTo, checked in AssignTask's transaction, keeps a
\* task from being executed twice: not SubmitTask, which looks at no other state,
\* not Push after a failure, not a restart. However often a task is submitted,
\* retried or resubmitted, and across crashes, it is executed at most once more
\* than users of the board clear assignees.
ExecutedAtMostOnce ==
  \A t \in Task : \A n \in Attempt :
    pc[t][n] # "unused" => n <= 1 + used["unassign"]

\* runningTasks is keyed by task ID and the cleanup deletes by ID: the entry must
\* still be the one of the attempt that is being cleaned up. This is so while
\* the board's assignee keeps a second attempt from starting.
RunningEntryIsOwn ==
  used["unassign"] = 0 =>
    \A t \in Task : \A n \in Attempt :
      pc[t][n] \in Entered \cup {"leaked"} => running[t] = n

\* integration_test.go:491: never more executors at work than
\* MaxConcurrentTasks, although scheduleNext counts the map of running tasks and
\* each attempt's cleanup deletes from it.
ExecutingWithinLimit ==
  used["unassign"] = 0 =>
    Cardinality({r \in Task \X Attempt : pc[r[1]][r[2]] = "exec"})
      <= MaxConcurrentTasks

\* Failed tasks that can neither be resubmitted nor be scheduled.
Dropped ==
  {t \in nodes : /\ depStatus[t] = "failed"
                 /\ t \notin queue
                 /\ \A i \in DOMAIN dlq : dlq[i] # t}

\* A task SubmitTask has accepted is queued, worked on, completed or failed.
TasksKept ==
  \A t \in nodes : t \in queue \/ AtWork(t) \/ depStatus[t] # "pending"

\* A task that failed for good is in the dead letter queue, or in the queue again,
\* unless its entry was taken out for a resubmission that was refused: one task
\* for each. (With more than one retry none gets into the dead letter queue.)
FailedTasksKept ==
  used["unassign"] = 0 /\ MaxTaskRetries <= 1 =>
    Cardinality(Dropped) <= used["refuse"]

\* A task SubmitTask has accepted is always somewhere: no order of retry, cleanup,
\* resubmission, Stop and second attempt drops it. (An attempt whose context is
\* done before it runs keeps its task for ever: it stays in runningTasks.)
NoTaskLost == TasksKept /\ FailedTasksKept

\* Agents that are kept busy by nobody.
LostAgents ==
  {a \in Agent : /\ agents[a].present
                 /\ ~agents[a].available
                 /\ sched.at = "start" => sched.agent # a
                 /\ \A t \in Task, n \in Attempt :
                      taskAgent[t] = a => pc[t][n] \notin Live}

\* While the scheduler's context lives, an agent in the pool that is not available
\* is at work for an attempt, or about to be; every other one was lost to a fault
\* in AssignTask's transaction, which rolls back the board and not the pool, or
\* to an attempt whose context was done before it ran: one agent for each.
AgentsAccounted ==
  CtxAlive /\ used["unassign"] = 0 =>
    Cardinality(LostAgents)
      <= used["fault"]
           + Cardinality({t \in Task : \E n \in Attempt : pc[t][n] = "leaked"})

\* Assigned on the board, which no second assignment may change, and never run.
Stranded ==
  {t \in Task : /\ kanban[t].assignee # NoAgent
                /\ \A n \in Attempt : pc[t][n] = "unused"
                /\ sched.at = "start" => sched.task # t}

\* A task that is assigned on the board gets an attempt. It is stranded there
\* only when its agent is unregistered, or the process dies, between the
\* assignment and the start: one task for each.
AssignedTasksRun ==
  Cardinality(Stranded) <= used["unregister"] + used["crash"]

\* The agents that can be given a task, or are just being given one.
FreeAgents ==
  {a \in Agent : \/ agents[a].available
                 \/ sched.at = "assign" /\ sched.agent = a}

\* The tasks that have an agent at work for them, or are about to.
Served ==
  {t \in Task : \/ sched.at = "start" /\ sched.task = t
                \/ \E n \in Attempt : pc[t][n] \in Live}

\* The tasks whose agent was released at the end of handleTaskError, and is
\* released again by the cleanup.
ReleasedTwice ==
  {t \in Task :
     /\ depStatus[t] # "completed"
     /\ \E n \in Attempt : pc[t][n] \in {"send", "delete", "release", "gone"}}

\* No more tasks than agents: an agent is given to one task at a time. It takes
\* another registration of an agent at work, which overwrites its info, or the
\* second release after a failure to have one more task under way, or one more
\* agent free, than there are agents.
WorkFitsAgents ==
  used["unassign"] = 0 =>
    Cardinality(FreeAgents) + Cardinality(Served)
      <= used["register"] + Cardinality(ReleasedTwice)

\* A task enters runningTasks only when every dependency has completed, although
\* the ready list is computed before the (slow) manager calls of the loop: no
\* completion is taken back in between, as long as no task is executed twice.
StartsAfterDependencies ==
  [][\A t \in Task :
       used["unassign"] = 0 /\ running'[t] # running[t] /\ running'[t] # 0 =>
         \A d \in Deps[t] : depStatus[d] = "completed"]_vars

\* A completed task stays completed until the process dies: no late failure,
\* resubmission or retry takes back what its dependents were started on.
CompletedForGood ==
  [][\A t \in Task :
       used["unassign"] = 0 /\ depStatus[t] = "completed" =>
         depStatus'[t] = "completed" \/ life' = "created"]_vars

\* The dead letter queue and the completed tasks are disjoint: a task resubmitted
\* from it cannot also be the one that succeeded, unless the board lets it run
\* twice.
DeadLettersDidNotComplete ==
  used["unassign"] = 0 =>
    \A i \in DOMAIN dlq : depStatus[dlq[i]] # "completed"

\* The board says done only of a task the graph has as completed, and blocked
\* only of one it has as failed, until a crash empties the graph or the board
\* lets two attempts at a task report.
BoardAgrees ==
  used["crash"] + used["unassign"] = 0 =>
    \A t \in Task :
      /\ kanban[t].status = "done" => depStatus[t] = "completed"
      /\ kanban[t].status = "blocked" => depStatus[t] = "failed"

\* No executor runs once Stop has returned nil, not even for a task that an
\* untracked scheduleNext starts after ts.wg has been waited for.
NothingExecutesAfterStop ==
  life = "returned" => \A t \in Task, n \in Attempt : pc[t][n] # "exec"

\* agent_orchestrator.go:299: an agent is made available after its task is
\* completed, so an available agent has no executor at work.
AvailableAgentIsIdle ==
  \A t \in Task, n \in Attempt :
    pc[t][n] = "exec" => ~agents[taskAgent[t]].available

-------------------------------------------------------------------------------
(* Liveness *)

\* Once every task is submitted and an agent registered, every task completes:
\* slots, agents and the result channel are always given back.
AllTasksComplete ==
  (nodes = Task /\ \E a \in Agent : agents[a].present)
    ~> (\A t \in Task : depStatus[t] = "completed")

\* An agent that was given a task becomes available again.
AgentsComeBack ==
  \A a \in Agent :
    (agents[a].present /\ ~agents[a].available) ~> agents[a].available

\* scheduler.go:699: a task re-queued "for retry" is executed again, if an agent
\* that may be given work is free.
RetriedTaskRuns ==
  \A t \in Task :
    (/\ pc[t][1] = "gone" /\ depStatus[t] = "pending"
     /\ t \in queue /\ AvailableAgents # {})
      ~> pc[t][2] # "unused"

-------------------------------------------------------------------------------
(* Refinement *)

PhaseOf(t) ==
  CASE t \notin nodes -> "new"
    [] t \in nodes /\ depStatus[t] = "completed" -> "succeeded"
    [] t \in nodes /\ depStatus[t] = "failed" -> "failed"
    [] OTHER -> IF AtWork(t) THEN "running" ELSE "waiting"

phaseBar == [t \in Task |-> PhaseOf(t)]

Lifecycle_ == INSTANCE TaskLifecycle WITH phase <- phaseBar

\* Every behaviour of the scheduler is one the clients were promised.
ImplementsLifecycle == Lifecycle_!Spec
=============================================================================
