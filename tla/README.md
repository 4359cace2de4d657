# A formal model of guild-core

TLA+ specifications of the concurrent core of guild-core, the TLC instances that
model-check them and theorems about them that TLAPS proves. guild-core runs a
"guild" of AI agents: commissions are turned into tasks, tasks stand on a kanban
board, a scheduler hands them to agents with the help of a manager agent, and
everything reports through event buses to a terminal interface and gRPC clients.

Paths below are relative to `src/`; `scheduler/` is `pkg/orchestrator/scheduler/`.

## 1. Inventory

### The scheduler (modelled)

| part | state | operations | used by |
|---|---|---|---|
| `TaskScheduler` (`scheduler.go`) | `runningTasks` under `mu`, `resultChan`, `progressChan`, `ctx`, `wg` | `SubmitTask`, `Start`, `Stop`, `scheduleNext`, `executeTask`, `handleTaskError`, `handleTaskSuccess`, `ResubmitDeadLetterTask` | clients |
| `PriorityQueue` | heap and `lookup` by ID | `Push` (ignores a known ID), `Remove`, `Range` | scheduler |
| `DependencyGraph` | `nodes`, `edges`, `completed` | `AddTask`, `AreSatisfied`, `MarkComplete`, `MarkFailed`, `hasCycle`, `GetTopologicalOrder`, `GetCriticalPath` | `SubmitTask`, `getReadyTasks`, the end of `executeTask` |
| `AgentOrchestrator`, `AgentPool` | per agent: executor, availability, current task, tasks handled, error rate | `RegisterAgent`, `UnregisterAgent`, `RequestTaskAssignment`, `AssignTask`, `ReleaseAgent` | `scheduleNext`, `executeTask` |
| `TaskRecovery`, `RetryPolicy` | `deadLetterQueue` | `HandleFailedTask`, `ResubmitDeadLetterTask`, `Retry` | `executeTask`, clients |
| `CircuitBreaker`, `HealthMonitor` | state, failures, half-open attempts; health records | `Call`, `Reset` | every attempt of an agent |
| `ProgressAggregator` | counters per commission, subscribers | `UpdateTaskStatus`, `Subscribe` | every part of the scheduler |
| `KanbanClient`, `ManagerAgentClient`, `AgentExecutor` | the board's rows; none; none | transaction, assign, set status; choose an agent; execute | external to the scheduler |

One goroutine runs `schedulerLoop`, which calls `scheduleNext` at every tick;
every successful task starts another `go scheduleNext()`, which `wg` does not
count. `scheduleNext` holds `ts.mu` from its first check to its return, through
calls to the manager agent and to the board. Every attempt at a task is a
goroutine `executeTask`, which takes `ts.mu` only in its deferred cleanup. The
agent pool, the graph, the queue and the dead letters have locks of their own.

What is hard: the ready list is computed before slow calls and used after them;
a task can come back into the queue in four ways (submission, retry,
resubmission from the dead letters, restart); the cleanup deletes by task ID and
releases the agent the shared task struct names *now*; finished attempts block
on a full result channel before they give anything back; the board is persistent
and the rest is not; `Stop` runs while all of this goes on.

What makes it correct: no task is executed twice; a task starts only after its
dependencies; a completed task stays completed; no accepted task is lost; the
limit on concurrent tasks holds; the board tells the truth; agents and slots are
given back; nothing executes after `Stop`; the graph has no cycle; a circuit
breaker that is half-open gets out of that state.

### Progress, campaigns, events and the board (modelled)

| part | state | operations | used by |
|---|---|---|---|
| `ProgressAggregator` (`scheduler/progress_aggregator.go`) | per task its status under `mu`, per commission its counters under `commission.mu`, subscribers | `RegisterCommission`, `UpdateTaskStatus`, `Subscribe` | every goroutine of the scheduler |
| `MemoryEventBus` (`pkg/events/memory_bus.go`) | bounded `eventChan`, subscriptions under `b.mu`, one goroutine | `Publish`, `Subscribe`, `Unsubscribe`, `Close`; `processEvents`, `deliverEvent` | campaign manager, event service, board publisher |
| campaign manager (`pkg/campaign/unified_manager.go`, `fsm.go`, `repository.go`) | campaigns in a repository of copies, `handlers` and `subscriptions` under `m.mu` | create, update, delete, add and remove commissions, transitions, `UpdateProgress`, `Subscribe`, `Unsubscribe`, handlers of commission events | gRPC requests, the bus |
| kanban board (`pkg/kanban/board.go`, `taskmodel.go`) | a row of `tasks` per task | create, `UpdateTaskStatus`, `UpdateTask`, `AssignTask`, `AddTaskBlocker`, `RemoveTaskBlocker`, `DeleteTask`, each followed by events | gRPC, interface, planner, dispatcher |
| event service (`pkg/grpc/event_service_unified.go`) | per stream its subscription IDs and `done` | `StreamEvents`, `PublishEvent` | the board view and other clients |
| daemon (`cmd/guild/serve.go`, `pkg/grpc/server.go`, `internal/daemon/daemon.go`) | the gRPC server, the bus | `GracefulStop`, then the bus's `Close`; `guild stop` kills after five seconds | users |
| board view (`internal/ui/kanban/model.go`) | `eventStream`, `eventChan` of 100 messages | `startEventStream`, `receiveEvents`, `waitForEvent`, `Update` | users |

What is hard. `UpdateTaskStatus` is two critical sections, and reports about one
task overlap: `SubmitTask` reports *after* the task is in the queue. The bus
calls its handlers one after the other while it holds `b.mu` for reading, and the
handlers publish on the same bus, take the manager's lock, or wait for the
network. The manager and the board read a row, change a copy and write all of the
copy, with no transaction around it: a copy may be overtaken. Streams end when
their client likes, in the middle of a delivery to them. The board view restarts
its stream and must go on listening.

What makes it correct: counters follow the tasks; no change is lost and no state
machine broken but by an overtaken copy; what was deleted stays deleted; events
tell the truth; a watcher or stream that left is not called; subscriptions are
given back; nobody waits for ever.

### Everything else

`PROJECT.json` lists every component with the reason it is or is not modelled;
section 6 gathers the reasons.

## 2. Modules

| module | models | kind |
|---|---|---|
| `TaskScheduler` | scheduler, queue, pool, assignment, attempts, dead letters, Start/Stop/crash | state machine |
| `TaskLifecycle` | what a client is promised about tasks | abstract specification |
| `DependencyGraph` | `AddTask` with its rollback, readiness, completion, failure | state machine |
| `DependencyOrder` | the searches `hasCycle` and `GetTopologicalOrder`, step by step | state machine, extends and implements `DependencyGraph` |
| `CircuitBreaker` | `Call` in its three critical sections, `Reset`, time | state machine |
| `ProgressAggregator` | one commission's counters and the goroutines that report | state machine |
| `MemoryEventBus` | the bus's queue, subscriptions, lock and goroutine | part of the next two |
| `CampaignManager` | one campaign, its clients, watchers and the bus's handlers | extends `MemoryEventBus` |
| `EventStream` | the event service, the daemon's stop and death | extends `MemoryEventBus` |
| `BoardView` | a board view as the client of `EventStream` | extends `EventStream` |
| `KanbanBoard` | one task's row and the operations on it | state machine |
| `MC*` | instances: one for each state machine | TLC |
| `*Proofs` | theorems: `TaskScheduler`, `TaskOrder`, `DependencyGraph`, `CircuitBreaker`, `ProgressAggregator`, `CampaignManager`, `KanbanBoard`, `BoardView` | TLAPS |

Definitions named in a comment as `Mutant:` are not part of the specifications.
Each is a plausible bug in the code of the definition that follows it; putting
it in the place of that definition makes a property fail, which shows that the
property depends on that code.

### TaskScheduler

An action is a section of code between two points where another goroutine can
see a difference. `sched` is the program counter of the `scheduleNext` that holds
`ts.mu`: `next` (choosing the next ready task), `assign` (the manager has
answered), `start` (the transaction is committed). `pc[t][n]` is where attempt
`n` at task `t` is in `executeTask`; attempts that have ended stay as history.
`nodes` and `depStatus` are the graph seen from here, with the dependencies
fixed by the constant `Deps`; `DependencyGraph` is where they change.

| code | actions |
|---|---|
| `SubmitTask`, `GetResults` | `SubmitTask`, `ReadResult` |
| `ResubmitDeadLetterTask` | `ResubmitDeadLetterTask`; `ResubmitRefused`, when `SubmitTask` refuses the client's context after the entry was taken out |
| `RegisterAgent`, `UnregisterAgent` | the same |
| `scheduleNext` | `ScheduleNext`, `ScheduleNothing`, `RequestTaskAssignment`, `RequestFails`, `AssignTask`, `AssignConflict`, `AssignFault`, `StartTaskExecution`, `ExecutorMissing`, `ScheduleDone` |
| `executeTask` | `ExecuteTask`, `ExecuteReturns`, `MarkComplete`, `SendResult`, `DeleteRunning`, `ReleaseDeferred` |
| `handleTaskSuccess`, `handleTaskError` | `HandleTaskSuccess`; `HandleFailedTask`, `Requeue`, `MarkFailed`, `BlockTask`, `ReleaseFailed` |
| `Start`, `Stop` | `Start`; `StopTasks`, `StopCancel`, `StopReturns`, `StopTimesOut` |
| the process dies and is started again | `Crash` |

Abstractions. The manager agent answers with any of the agents it was shown, or
fails. An executor, with the retry policy and the circuit breaker around it,
returns success, a retryable error or another error; an exhausted retry is
retryable, as `ErrCodeResourceExhausted` is. The board is what `KanbanClient`
promises: an atomic transaction on a row with an assignee and a status, which
fails as a whole or commits; `KanbanUnassign` is a user of the board clearing an
assignee. An error rate is kept as a fraction, so the comparison with 0.5 is
exact. `ErrorRate`, `TasksHandled` and the double release of a failed attempt are
computed as the code does, and so is the failure count that `handleTaskError`
passes on, the literal 1: with more than one retry allowed no task gets into the
dead letter queue, with one none is retried. Tasks of equal priority come in any order:
`sort.Slice`, which orders the ready list, is not stable. The ready list is read
in one step; the code asks the graph task by task, so that a completion in
between can only make a later task of the list ready one tick earlier.
`StopTasks` is enabled once the scheduler was started; a `Stop` before `Start`
cancels a context nothing uses yet.
Progress is `ProgressAggregator`'s; metrics, spans and events are left out.

### DependencyGraph and DependencyOrder

`edges` stands for `dg.edges` and for the nodes' `Dependencies`, which the code
always writes together: the set of the dependencies in `edges`, the length of
their list, which may name one of them more than once, in `size`. Nothing else of
the list makes a difference. `dependents` keeps the lists as lists, for Kahn's
algorithm decrements once per entry. In `DependencyGraph` a submission is one
step and `HasCycle` is declarative. `DependencyOrder` has `AddTask` with the
depth-first search and `GetTopologicalOrder` a step at a time, and implements it:

| code | actions |
|---|---|
| `AddTask` up to the search, and after it | `BeginAdd`, `EndAdd` (which keeps or rolls back) |
| `hasCycle`: its loop over the nodes | `VisitNode` |
| `visit`: a dependency, the return of false | `LookAt`, `Leave` |
| `GetTopologicalOrder` | `BeginOrder`, `TakeNext`, `EndOrder` (also when the context is done) |
| `AreSatisfied`, `MarkComplete`, `MarkFailed` | as in `DependencyGraph`, when `dg.mu` admits them |

What `AddTask` has changed when it searches is in `Seen`, and reaches `edges` at
the end: it holds `dg.mu`, so that nobody can see the difference. `stack` is the
chain of the calls of `visit` under way, and `left[t]` what is still before the
loop of `visit(t)`. Nodes and dependencies are walked in any order, as Go walks a
map, and as the lists can be written; a dependency that a list repeats is black
when `visit` comes to it again.

### CircuitBreaker

`failures` is counted up to the threshold, because above it the code only compares it
with the threshold and decrements it only in the closed state, where it is below.
Time is `timedOut`, which a failure resets and which becomes true at any moment.

### ProgressAggregator

`step[t][n]` is where the `n`-th attempt at task `t` is, 0 being the client in
`SubmitTask`; the names of its reporting steps are those of the calls of
`UpdateTaskStatus`. A report is `UpdateStatus` (under `pa.mu`: the status is
written, the old one remembered in `from`) and then `UpdateCounts` (under
`commission.mu`). `contended` is history: the tasks about which two goroutines
were busy at a time.

| code | actions |
|---|---|
| `SubmitTask`, `startTaskExecution`, `executeTask`, `handleTaskError` | the same names, up to the report |
| `UpdateTaskStatus`, lines 177-211 | `UpdateStatus` |
| `UpdateTaskStatus`, lines 213-261 | `UpdateCounts` |

### MemoryEventBus and CampaignManager

`delivery` is the bus's goroutine: waiting, with an event in hand, holding `b.mu`
with the subscriptions still to be served, or returned. What a handler does is an
action of the module that extends the bus. Publishing never waits: a full buffer
drops the event.

The manager's repository returns and stores copies, so every operation is: `Get`
and change the copy, `CheckExists`, `Put`, then `PublishNext` for each event.
`stale` is history: the goroutines whose copy is older than the last save.
`mu` is `m.mu`, which `Subscribe` and `Unsubscribe` keep over the bus's own lock.

| code | actions |
|---|---|
| `Create`, `Delete`, `AddCommission`, `RemoveCommission` | the same names |
| the seven transitions | `TransitionState` |
| `Server.UpdateCampaign` | `UpdateCampaign` |
| `repository.Update` | `CheckExists`, `Put` |
| handlers of commission events | `ListCampaigns`, `UpdateProgress`, `HandlerReturns` |
| `Subscribe`, `Unsubscribe` | `Subscribe`, `BusSubscribe`; `Unsubscribe`, `BusUnsubscribe` |
| the function given to the bus | `CopyHandlers`, `CallHandlers` |
| `processEvents`, `deliverEvent` | `ReceiveEvent`, `DeliverEvent`, `DeliveryDone`, `StopProcessing` |

The publisher of commission events is outside `pkg/campaign`: `CommissionEvent`.
`CompletedCommissions`, which no code increments, is 0 throughout.

### KanbanBoard

One task. Of a copy only the status matters: the assignee is not among the
columns that are written, and blockers, progress and metadata are not among those
that are read back. `ToStored` and `FromStored` are the two mappings of a status.
An operation reads and changes its copy (`Rewrite`), then `Save` or `SaveFails`,
then `PublishNext`; `moves`, `stale` and `was` are history.

| code | actions |
|---|---|
| `CreateTask` and its return; the planner that saves what it returned | `CreateTask`, `CreateReturns`, `PlanTasks` |
| `UpdateTaskStatus`, `AssignTask`, `AddTaskBlocker`, `RemoveTaskBlocker` | the same names |
| `UpdateTask` called by the interface and the `KanbanManager` | `MoveTask` |
| `updateTaskSQLite` | `Save`, `SaveFails` |
| `DeleteTask` | `DeleteTask`, `DeleteRow` |

### EventStream and BoardView

A stream is `handler[s]`: subscribing to one pattern after the other, streaming,
giving its subscriptions back in the deferred function, returned. The handler of
an event is two actions, because it looks at `es.done` (`HandleEvent`) and then
sends (`Send`): what the bus's goroutine is about to send on is `sending`, and
meanwhile the stream goes on. `HandleEvent` may also drop the event: one whose
data cannot be converted (`structpb` takes no `time.Time` and no
`map[string]string`, which the events of `task_event_publisher_unified.go` carry)
or that is older than the client asked for is not sent. `wire[s]` is what gRPC takes before `Send` waits
(flow control), external like the breaking of a connection. `Send` ends with an
error when the stream's context is done.

The daemon stops as `serve.go` does: a signal (`GracefulStop`), the server waits
for the calls under way (`Stopped`), and the bus is closed after it. `Killed` is
`guild stop` after five seconds, and the next daemon.

| code | actions |
|---|---|
| `StreamEvents` | `Call`, `Subscribe`, `ContextDone`, `Unsubscribe`, `Return`; its handler: `HandleEvent`, `Send` |
| `PublishEvent`, and whoever else publishes | `PublishEvent` |
| `startEventStream` | `StartEventStream`, `StartFails` |
| `receiveEvents` | `Receive`, `SendMessage` |
| `waitForEvent` | `WaitForEvent` |
| `Update` on `taskEventMsg`, `eventStreamStoppedMsg` | `TaskEvent`, `StreamStopped` |
| keys `q` and ctrl+c | `Quit` |

Several `receiveEvents` may exist; each calls `Recv` on `m.eventStream`, whose
value may be a later stream than its own, so `Receive` reads from `current`; that
only one is ever receiving is part of `ListensUntilStopped`. Of the
daemon's subscriptions, those of other clients of the bus are the difference
between the configured limit and `MaxSubscriptions`.

## 3. Runs

| run | module, bounds | checks |
|---|---|---|
| `sched_core` | 3 tasks (one depends on another, one free and more urgent), 2 agents, 2 slots, up to 2 attempts, all outcomes, 4 submissions | types; an entry of `runningTasks` is the live attempt's; an agent has one task; dependencies before start; completed for good; refinement of `TaskLifecycle` |
| `sched_faults` | 2 free tasks, 2 agents, 1 slot, dead letters on the first failure, 3 submissions, any two kinds of fault: cleared assignee, unregistered agent, refused resubmission, failing manager or board, timeout, Stop, crash | executed at most once more than unassigned; no task, agent or assignment lost but to a fault; the limit; the board agrees; nothing executes after Stop |
| `sched_live` | 3 tasks, 2 agents, successes only, fairness | all tasks complete; agents come back |
| `sched_release` | 4 tasks in a fixed order, 1 agent | *violated*: an available agent is idle |
| `sched_retry` | 1 task, 2 agents, a retryable failure, fairness | *violated*: a retried task runs |
| `depgraph` | 3 tasks, each submitted with any dependencies and lists longer than those by at most one (`MaxExtra`), one of them up to twice | types; no cycle; the order is topological, and refused for repetitions alone; a task starts after what it was accepted with; refinement of `DependencyGraph` |
| `dep_refused` | 3 tasks, all three up to twice, lists without repetition | *violated*: a refused submission changes nothing |
| `breaker` | 4 callers, threshold 5, 3 probes: the code's values | counters; closed exactly below the threshold; a probe is under way; half-open ends |
| `progress` | 2 tasks, 2 executions of each, 2 submissions | types; the counters and the last status agree with what happened; the pending tasks are off by one at most for a task whose reports overlap |
| `campaign` | 2 clients, 1 commission, buffer 1, 3 subscriptions at a time, 4 IDs, 3 operations, fairness | types and limits; no call after leaving; only an overtaken copy breaks the state machine; everything returns |
| `board_view` | 2 streams, 2 types of event and both as patterns, buffer 1, 3 subscriptions left, window 1, channel 1, 4 events, 1 kill, fairness | types and limits; no send after return; subscriptions given back; listens until stopped; the daemon goes on |
| `kanban` | 3 clients, 4 operations, any of which may fail | stored statuses; moves on purpose, and back only by a stale copy; no invented status |

Why the bounds are enough. Scheduler: two attempts at a task are what double
execution, deletion by ID and late failures need; three tasks with one dependency
are what a stale ready list, a competing task and a waiting dependent need; two
agents allow a choice and a release of the wrong one, one agent makes the tasks
compete for it. `ResultCap = 1` makes the channel full after one result. `Limit`
bounds each environment step and `MaxAttempts` the attempts at a task; in
`sched_faults` each kind of fault happens once and at most two kinds in one
behaviour (`AtMostTwoFaults`), which keeps the instance finite in minutes and
still has every pair. The scheduler's own steps are not bounded otherwise.
Dependency graph: three tasks have cycles of two and of three and a task reached
by two ways; whether the search is right depends on the graph it is given and
not on how it came about, so `MaxRepeated = 1`, one ID with a second submission,
gives every graph, stale dependents and rolled-back nodes among them. (With two
such IDs the instance is ten times as large and shows nothing else.) One more
entry than dependencies is a repetition; whether it is the second or the fifth,
an in-degree that is never counted down to 0 stays above it.
Progress: a report overtaken by another about the same task needs one submission
and one attempt; the second of each, and the second task, show that the counters
are not mixed up. Campaign: a copy is overtaken by one other save, the limit on
subscriptions needs one besides the manager's two, a buffer of one is full when a
handler publishes twice. Kanban: a stale copy, a second stale copy and a delete
are three clients. Board view: one event blocks a `Send`, and it takes one in the
view's channel, one in the hands of `receiveEvents`, one on the wire and one in
the bus to get there: four; the second stream comes after the first has stopped
or the daemon was killed; three subscriptions refuse the second stream halfway
while the first has not given its own back.

Runs switch off the deadlock check because each system may stop: all tasks done,
no client left, the user has quit, or the bounds used up. Agents, clients of the
board and the progress tasks are symmetric in the safety runs; the other sets are
not. Runs with fairness use no symmetry.

What the properties assume. Some hold "unless the board lets a task run twice"
(`used["unassign"] = 0`): the scheduler relies on the assignee alone, and
`ExecutedAtMostOnce`, which is checked with unassignments, says how far.
`BoardAgrees` stops at a crash, which empties the graph and not the board.
In `OrderIsTopological` a task comes after all it depends on unless its own ID was
submitted again; whether the order is complete is said only while no ID was
resubmitted or refused, because a resubmission leaves stale dependents, for which
`GetTopologicalOrder` reports a cycle that is not there. `PendingAgrees` has the
exact count for tasks that were not `contended` and bounds the error for the
others; `StatusAgrees` is about the first alone. `MovesOnPurpose` lets a copy that
another write has overtaken restore a status the row has had, and nothing else;
`LegalUnlessOvertaken` exempts such a copy, which is the exact extent of the
missing transaction.

`NoTaskLost`, `AgentsAccounted` and `AssignedTasksRun` count: what is lost are at
most as many tasks as resubmissions were refused, agents as faults happened and
contexts ended before their attempt ran, assignments as agents were unregistered
and processes died. So they hold of an environment that interferes, and say what
each interference may cost. The part of `NoTaskLost` about failed tasks is for
`MaxTaskRetries` of at most 1 (see above); `sched_faults` has 1. `WorkFitsAgents`
allows for another registration of an agent and for the second release of a
failed attempt (`sched_release`), and says that nothing else gives one agent two
tasks. `EverythingReturns` excepts `LockCycle`, and `DaemonGoesOn` excepts `Deaf`
and the stop with a connected view: these are states the code reaches (see
below), and the properties say that nothing else stops the system.

The hazards in `PROJECT.json` that name no property, or have a note, are those
the code is exposed to and does not guard against: no property that holds
excludes them.

### Fairness

Weak fairness for what the Go runtime and the ticker guarantee: the loop's ticks
(`ScheduleNext(TRUE)`), the steps of the goroutine that holds `ts.mu`, each
attempt's goroutine, `Start`, `Stop` going on. It includes two facts about the
surroundings: an executor returns (its context has a deadline) and the client
reads results. `DeleteRunning`, which waits for `ts.mu` while the loop takes it
again and again, has strong fairness: `sync.Mutex` hands the lock over to a
waiter that has waited for a millisecond. Submissions, registrations, faults,
timeouts and Stop are not fair. The circuit breaker has weak fairness for a call
that was admitted or waits to be, and none for calls to come, time or `Reset`.

The campaign manager has weak fairness for each goroutine that is saving, for the
bus's goroutine and for a client that waits for `b.mu`; none for new requests,
commission events or `Close`. The board view has one weak fairness for the work
of all goroutines together, which is weaker than one for each: each goroutine has
finitely many steps per event and per stream, and these are finitely many, so
none can keep another from its steps for ever. Nothing is assumed of starting
streams, publishing, breaking connections, quitting, stopping or killing.

### Disagreements between code and its documentation

Found by runs that violate a property:

* `sched_release`: a failed attempt releases its agent twice
  (`scheduler.go:726`, then `:555`); in between the agent may be given another
  task, during which the second release marks it available.
* `sched_retry`: a task queued for retry (`scheduler.go:700`) keeps its assignee
  on the board, which `AssignTask` refuses (`agent_orchestrator.go:261`), so the
  retry never runs.
* `dep_refused`: the rollback of a refused resubmission (`dependencies.go:100`)
  deletes the earlier, accepted submission's node; the queued task then counts as
  having no dependencies.

Part of the models, and excepted in their properties:

* *Dependency graph.* `AddTask` accepts a list that names a dependency twice;
  `GetTopologicalOrder` takes the length of the list as the in-degree
  (`dependencies.go:213`) and counts down once, because the dependent is listed
  once, and so reports a cycle (`:245`) in a graph that has none. A resubmission
  with other dependencies leaves the task among the dependents of the old ones:
  it may then come before a dependency of the new list, or be missing, with the
  same error.
* *Scheduler.* An agent lost to a rolled-back assignment or to a context that
  ended before its attempt ran stays busy; a task whose agent was unregistered
  after the assignment stays assigned and is never run; an entry taken out of the
  dead letter queue for a refused resubmission is in neither queue.

* *Progress.* A pending report that comes after running or completed leaves the
  commission with the wrong counts (`contended`), although
  `integration_test.go:217` counts on them.
* *Campaign manager.* `Unsubscribe` and `Subscribe` wait for `b.mu` with `m.mu`
  held, and a delivery waits for `m.mu` with `b.mu` held: `LockCycle`. Two
  requests at a time can take a campaign out of a terminal state (`fsm.go:29`).
  Handlers are compared by the address of their code, so that one watcher's
  `Unsubscribe` removes all of them, and overlapping watchers leave subscriptions
  on the bus. No commission is ever counted as completed, so that no campaign
  with commissions completes by itself. `WatchCampaign` subscribes to `"*"`,
  which is no event's type.
* *Board.* Cancelled is stored as done and backlog as todo. An assignment does
  not store the assignee and writes the status back, so that it can undo a move.
  `RemoveTaskBlocker` reads a task without blockers, never unblocks it and
  publishes that it did. An update of a deleted task succeeds silently and its
  events follow. Moves through `UpdateTask` publish nothing.
* *Board view.* `docs/kanban-user-guide.md:126-149` promises instant updates,
  a polling fallback and reconnection. An event changes the status line; the
  reload it asks for is left to a tick that fires once. When a stream has stopped
  another one is started, and nobody listens to `m.eventChan` any more: `Deaf`.
  After some hundred more events, of those that are converted and sent, the
  channel and the stream are full, and the bus's goroutine waits in `Send` with
  `b.mu` held: no subscriber of the daemon gets an event until that view quits.
  (The task events of `task_event_publisher_unified.go` are never sent: their
  data cannot be converted, `event_service_unified.go:108`.) A failed restart is not tried again.
* *Daemon.* `GracefulStop` ends no stream and waits for all of them, so that
  stopping the daemon while a view is connected ends in the kill.

## 4. Proofs

All theorems hold for every value of the constants that satisfies the named
assumptions: the null values are no IDs, the dependencies form an acyclic
relation, the configuration has positive limits, the bounds are natural numbers.

* `TaskSchedulerProofs!TypeCorrect`: `Spec => []TypeOK`. One step per action;
  lemmas for the operators that several actions use (`Spend`, `MoveTo`,
  `UpdateKanban`, `Release`, removal from the dead letters).
* `TaskSchedulerProofs!AtMostOnce`: `Spec => []ExecutedAtMostOnce`. The property
  is not inductive: nothing in it prevents a second assignment while the first
  attempt is assigned but not yet started. `Charged` adds that: the attempts that
  started, plus the one that is due (`sched` is at `start` for this task), are at
  most the cleared assignees plus one if the row has an assignee now. A step is
  `Neutral` when it starts nothing, clears nothing and makes nothing due; a lemma
  shows that neutral steps keep `Charged`, and only `AssignTask`,
  `StartTaskExecution` and `KanbanUnassign` need an argument of their own. So
  the guarantee rests on the board's check alone: not on the queue, the graph,
  the lock or the number of agents, and it survives crashes.
  `TaskSchedulerProofs` then says, for each variable the other arguments are
  about, which steps change it and how (`PcChanges`, `QueueShrinks`,
  `RunningChanges`, `DepStatusChanges`, `DeadLettersChange`, `BoardChanges`), and
  builds on that:
  * `EntryIsOwn`: `Spec => []RunningEntryIsOwn`, inductive by itself given
    `AtMostOnce`: while nobody clears an assignee no task has a second attempt
    that could overwrite the entry or find it deleted.
  * `WithinLimit`: `Spec => []ExecutingWithinLimit`. `Slots` bounds what
    `scheduleNext` counts, with one place left while its loop is under way, and
    `EntryIsOwn` gives an injection from executors into
    entries. The bound on executors is not inductive: the limit is enforced on the
    map, and the map is emptied by another goroutine than the one that counts.
  * `TasksKeptHolds`: the first part of `NoTaskLost`, for every environment: a task
    leaves the queue only into the hands of the loop, and work on it ends only
    with a report (`WorkStarts`, `WorkEnds`).
* `TaskOrderProofs`:
  * `QuietAfterStop`: `Spec => []NothingExecutesAfterStop`. When `Stop` returns
    no attempt is live; an attempt that an untracked `scheduleNext` starts later
    finds its context done in `ExecuteTask`.
  * `CompletionIsFinal`: `Spec => CompletedForGood`, from the invariant
    `Finished`: the one attempt (`AtMostOnce`) at a completed task is past every
    point where it could report a failure.
  * `DependenciesFirst`: `Spec => StartsAfterDependencies`, from `Known` (the
    scheduler works only on tasks the graph has a node for; `AreSatisfied` says
    yes of any other) and `Ready` (every task in the ready list, or in hand, has
    its dependencies completed), which holds because completions are final. No
    part of the argument needs the ready list to be fresh.
  * `BoardIsRight`: `Spec => []BoardAgrees`, from `Finished` and its counterpart
    `Reported`: what an attempt reported to the graph is still so when its update
    of the board comes, a step later, and no later attempt reports anything else.
  * `NoneLost`: `Spec => []NoTaskLost`. That failed tasks are kept is not
    inductive, because a task is in the dead letter queue before the graph has it
    as failed. `MissingAreRefused` counts those on their way there as well
    (`Missing`), and `NewlyMissing` shows that only a refused resubmission adds
    one: with the one attempt at a task past its report, nothing else takes it
    out of the queues.
  * `AssignedRun`: `Spec => []AssignedTasksRun`, from `StrandedByLoss`: the
    stranded tasks, and one more while the loop has an agent in hand that is not
    in the pool any more (`AgentGone`), are at most as many as the agents
    unregistered and the crashes. An assignment that fails commits nothing, and
    one that commits is followed by the start unless the agent is gone.
  * `DeadLettersFailed`: `Spec => []DeadLettersDidNotComplete`, from
    `DeadAreDying`: the one attempt at a task in the dead letter queue is the one
    that put it there, and can no longer succeed.
  * `KeepsPromises`: `Spec /\ [](used["unassign"] = 0) => ImplementsLifecycle`,
    the refinement. `StepIsPromised` maps every step to one of `TaskLifecycle` or
    to a stutter: a submission to `Submit`, the entry into `runningTasks` to
    `Run` (with `Ready`), a report, or the return to the queue, to `Finish`, the
    crash to `Forget`; every other step keeps all phases (`SamePhase`). The
    hypothesis is the condition under which the board's check is the guarantee:
    a user who clears an assignee can have a completed task executed again.
* `DependencyGraphProofs`, for the graph:
  * `GraphTypeCorrect`, `NeverCyclic`: `Spec => []NoCycle`. Acyclicity is
    inductive, with the lemma that a graph with fewer edges has no cycle where the
    other has none (the rollback).
  * `WaitsForAccepted`: `Spec => StartsAfterAccepted`, from `Faithful`: a queued
    task whose ID was submitted once still has its node, with the edges it was
    accepted with.

  and for the two searches:
  * `SearchTypeCorrect`, with `Admitted`: `AddTask` searches for a submission
    that the client may make and that is not of a task depending on itself.
  * `SearchIsRight`: `SearchSpec => []SearchFindsCycles`, that is, `hasCycle`
    returns true exactly if there is a cycle. The inductive invariant `Searching`
    has three parts. The stack is a path along the grey tasks, each once
    (`StackIsPath`), so that a grey dependency closes a cycle (`BackEdgeIsCycle`).
    What `visit` has looked at is black, or is the next task of the stack
    (`LookedAt`). And the black tasks depend on black ones only and have no cycle
    (`BlackIsDone`): the task that `visit` leaves depends on black ones alone, so
    that no set of black tasks with it can wait for itself. When no node is white,
    all nodes are black, and what is not a node has no edges (`NodesHaveEdges`).
  * `ImplementsTheGraph`: `SearchSpec => ImplementsGraph`. `EndAdd` is
    `SubmitAccepted` or `SubmitRolledBack` by `SearchIsRight` and `Admitted`, the
    other steps of the searches are stutters. So `NeverCyclic` and
    `WaitsForAccepted` hold of `AddTask` with its search too.
  * `OrderRespectsDependencies`: `SearchSpec => []OrderIsTopological`, for a
    finite set of tasks. `Ordered` is Kahn's invariant: the in-degree of a task
    is never less than the dependencies not yet in the result, as long as its own
    ID was submitted once, whatever happened to others: it begins with the length
    of the list and goes down once for each task that lists it (`CountedDown`).
    For tasks each accepted once a decrement is due for each dependency, by
    `Mirrored` (dependents are the edges turned round), proved of the graph and
    carried over by the refinement. When the queue is empty and no list repeats a
    dependency, a task left over would be one of a set that waits for itself,
    against `NeverCyclic`; and a task whose list does is never counted down to 0
    (`AsLongAsDone`).
* `CircuitBreakerProofs!TypeCorrect`, `ProbeFailureReopens`, `HalfOpenIsProbed`.
  The inductive invariant is the conjunction of types and the two properties: that
  a probe is under way needs every failure in the half-open state to open the
  breaker, which is the equivalence with the threshold.
* `ProgressAggregatorProofs!TypeCorrect` and:
  * `CountersCorrect`: `Spec => []CountersAgree`, which says that the counters are
    those of the statuses, corrected by the reports between the two locks
    (`InReport`); the argument is that `UpdateStatus` moves what it changes into
    that correction and `UpdateCounts` takes it out again, whatever happened in
    between.
  * `StatusCorrect`: `Spec => []StatusAgrees`, from `AttemptsInOrder` (attempts at
    a task follow one another, so that there is a last one) and `AllShown`, which
    says for every task one goroutine at a time was busy with what its status is
    at each step of that goroutine, and whether the task is in the queue.
  * `PendingCorrect`: `Spec => []PendingAgrees`. A new task takes its place only
    `if` there is one. When there is none the surplus grows, at most once for each
    task, for a task is new once: `PendingInv` counts with it the reports of new
    tasks between the locks. While no task is contended there is a place, because
    its own is still counted, and because the reports that have made a task
    pending and not yet counted it are at most as many as the pending tasks
    (`EnteringIsPending`, by `AllShown`).
* `CampaignManagerProofs`:
  * `TypeCorrect`, with the limit on subscriptions, from six parts that depend on
    one another (a client that unsubscribes holds `m.mu`, so the subscription it
    gives back is still remembered).
  * `OnlyLostUpdatesAreIllegal`: `Spec => LegalUnlessOvertaken`, from
    `FreshCopies`: a copy no save has overtaken is one legal step away from the
    campaign as it is.
  * `NoLateCall`: `Spec => []NoCallAfterLeaving`, from `CallsUnderLock` (handlers
    are called while `b.mu` is held) and `Watched`.
* `KanbanBoardProofs`: `TypeCorrect` (the table's CHECK is never violated),
  `OnlyMovesMove` (from `FreshCopies`, for copies no write has overtaken, and
  `KnownCopies`, which says of the others that their status is one the row has
  had), `EventsTellTheTruth` (from `Truth`, which says of each goroutine what the
  events it holds tell of).
* `BoardViewProofs`: one inductive invariant for all four theorems.
  * `TypeCorrect`, with the limits of the buffers, of the window and on
    subscriptions.
  * `NothingLeftSubscribed`, from `Owned`: a subscription belongs to a stream that
    has not returned and that has its ID among those to give back.
  * `NoLateSend`, from `Owned` and `Serving`: an event is sent for a subscription
    that is being served, and no subscription is taken away during a delivery.
    The last needs `ClosedLast`: a closed bus would let `Unsubscribe` pass by
    `b.mu`, but it is closed after the last stream. So what keeps `Send` from a
    stream that has returned is the bus's lock and the order of the daemon's
    stop, and not the look at `es.done`.
  * `ListensUntilThen`, from `OneStream`: the message that a stream has stopped is
    the last of `m.eventChan`, and the next stream is started by its arrival.

Each inductive invariant was checked by TLC on the run's instance before it was
proved.

Only model-checked: liveness under fairness, which is out of the prover's reach
(`AllTasksComplete`, `AgentsComeBack`, `HalfOpenEnds`, `EverythingReturns`,
`DaemonGoesOn`). So are `AgentsAccounted` and `WorkFitsAgents`, which count agents
and tasks against each other. That the searches of the dependency graph come to
an end is not stated: they are loops over finite sets under one lock. Every other
property of the passing runs is a theorem. `DeadLettersFailed` is a theorem whose
property no run checks. `SearchFindsCycles` is a theorem and no run's
property, because `depgraph` checks the refinement, which fails when it does.

## 5. What could follow

1. Theorems of `AgentsAccounted` and `WorkFitsAgents`, for any number of agents.
2. The chat service's streams, once an agent's answer is more than one text.
3. The subscribers of progress snapshots, once the list they are in is guarded.

## 6. Not modelled

* *Written but not used.* `AtomicScheduler` has no caller and SQL for another
  schema; `pkg/eventbus` is imported by a router that nothing constructs;
  `pkg/campaign/manager.go` is the unified manager's predecessor;
  the service registry and its bridges are built under a tag only;
  `GetCriticalPath`, `Pop`, `UpdatePriority` and `ClearDeadLetterQueue` are
  called by tests alone. A model of them would say nothing about the program.
* *No protocol of their own.* Sessions, the registry, caches, cost, templates,
  search, export, configuration, prompts, memory and corpus: maps under one lock,
  files, text. Single SQL statements are SQLite's to get right. Rendering and
  keys of the terminal interface run in one goroutine.
* *Outside the program.* Agents and providers (HTTP to models; the scheduler sees
  them as executors), LSP, MCP and shells, PID files and sockets of the daemon.
* *Data races.* Subscribers of progress snapshots are read without the lock that
  guards them; a model would show the race itself and nothing more.
* *Reports.* `HealthMonitor`'s records, metrics, traces and logs, which nothing
  reads back. The retry loop and breaker of `pkg/reasoning` repeat the modelled
  ones around another call.
* *Parts of modelled components.* Filters and `SubscribeAll` of the bus, board
  and campaign lists, the loading of tasks by the board view (no event starts
  it), estimates and percentages of progress.

The repository is some 330 thousand lines, most of them interface, generated code
and adapters; the models cover the concurrent core and not that.
