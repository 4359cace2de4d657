------------------------- MODULE ProgressAggregator -------------------------
(* The progress of one commission (pkg/orchestrator/scheduler), as the        *)
(* goroutines of the scheduler report it. UpdateTaskStatus writes a task's    *)
(* status under pa.mu and the commission's counters under commission.mu, and  *)
(* reports about other tasks, or about the same one, come in between.         *)
EXTENDS Integers, FiniteSets

CONSTANTS
  Task,           \* the tasks of the commission
  TotalTasks,     \* what RegisterCommission was told
  MaxAttempts,    \* bound: executions of one task
  MaxSubmissions  \* bound: calls of SubmitTask, resubmissions included

ASSUME ProgressAssumption ==
  /\ IsFiniteSet(Task)
  /\ TotalTasks \in Nat
  /\ MaxAttempts \in Nat \ {0}
  /\ MaxSubmissions \in Nat \ {0}

VARIABLES
  queue,        \* the scheduler's queue
  submissions,  \* number of calls of SubmitTask
  step,         \* step[t][n]: where goroutine n of task t is
  from,         \* from[t][n]: previousStatus of its UpdateTaskStatus, between
                \* the two critical sections; "slot" for isNewTask
  status,       \* pa.tasks[t].Status, "absent" before the first report
  count,        \* the counters of CommissionProgress
  contended     \* history: tasks two goroutines were busy with at a time

vars == <<queue, submissions, step, from, status, count, contended>>

Status == {"pending", "running", "completed", "failed"}

\* Goroutine 0 is the client in SubmitTask; n is the n-th attempt at the task,
\* reported first by startTaskExecution and then by executeTask.
Goroutine == 0 .. MaxAttempts

\* What is reported at each step at which UpdateTaskStatus is called.
Reported ==
  [submitted |-> "pending", starting |-> "running", succeeded |-> "completed",
   failed |-> "failed", handling |-> "failed", requeued |-> "pending"]

\* Where the goroutine goes on after the call.
Then ==
  [submitted |-> "idle", starting |-> "executing", succeeded |-> "completed",
   failed |-> "handling", handling |-> "deciding", requeued |-> "retried"]

Reporting == DOMAIN Reported

Ended == {"idle", "completed", "dead", "retried"}

Step == Reporting \cup Ended \cup {"executing", "deciding"}

\* Types: counters may become negative, for the code does not forbid it.
TypeOK ==
  /\ queue \in SUBSET Task
  /\ submissions \in 0 .. MaxSubmissions
  /\ step \in [Task -> [Goroutine -> Step]]
  /\ from \in [Task -> [Goroutine -> Status \cup {"none", "slot"}]]
  /\ status \in [Task -> Status \cup {"absent"}]
  /\ count \in [Status -> Int]
  /\ contended \in SUBSET Task

\* The commission is registered before its tasks are submitted.
Init ==
  /\ queue = {}
  /\ submissions = 0
  /\ step = [t \in Task |-> [n \in Goroutine |-> "idle"]]
  /\ from = [t \in Task |-> [n \in Goroutine |-> "none"]]
  /\ status = [t \in Task |-> "absent"]
  /\ count = [s \in Status |-> IF s = "pending" THEN TotalTasks ELSE 0]
  /\ contended = {}

MoveTo(t, n, to) == step' = [step EXCEPT ![t][n] = to]

\* Goroutine n joins the others that are busy with task t.
Joins(t, n) ==
  contended' =
    IF \E m \in Goroutine \ {n} : step[t][m] \notin Ended
    THEN contended \cup {t} ELSE contended

-------------------------------------------------------------------------------
(* The scheduler's goroutines *)

\* The task is in the queue before the client reports it.
SubmitTask(t) ==
  /\ step[t][0] = "idle"
  /\ submissions < MaxSubmissions
  /\ submissions' = submissions + 1
  /\ queue' = queue \cup {t}
  /\ MoveTo(t, 0, "submitted")
  /\ Joins(t, 0)
  /\ UNCHANGED <<from, status, count>>

\* Under ts.mu, which is held until the report is made: one at a time.
StartTaskExecution(t, n) ==
  /\ t \in queue
  /\ \A u \in Task, m \in Goroutine : step[u][m] # "starting"
  /\ n # 0 /\ step[t][n] = "idle"
  /\ \A m \in 1 .. n - 1 : step[t][m] # "idle"
  /\ queue' = queue \ {t}
  /\ MoveTo(t, n, "starting")
  /\ Joins(t, n)
  /\ UNCHANGED <<submissions, from, status, count>>

\* The executor returns to executeTask.
ExecuteTask(t, n) ==
  /\ step[t][n] = "executing"
  /\ \E result \in {"succeeded", "failed"} : MoveTo(t, n, result)
  /\ UNCHANGED <<queue, submissions, from, status, count, contended>>

\* Mutant: a task queued for retry is not reported.
HandleTaskErrorSilently(t, n) ==
  /\ step[t][n] = "deciding"
  /\ \/ queue' = queue \cup {t} /\ MoveTo(t, n, "retried")
     \/ MoveTo(t, n, "dead") /\ UNCHANGED queue
  /\ UNCHANGED <<submissions, from, status, count, contended>>

\* HandleFailedTask decides: retry, or dead letter.
HandleTaskError(t, n) ==
  /\ step[t][n] = "deciding"
  /\ \/ queue' = queue \cup {t} /\ MoveTo(t, n, "requeued")
     \/ MoveTo(t, n, "dead") /\ UNCHANGED queue
  /\ UNCHANGED <<submissions, from, status, count, contended>>

-------------------------------------------------------------------------------
(* UpdateTaskStatus *)

\* Mutant: a new task's previous status is not set.
PreviousUnset(t) == status[t]

Previous(t) == IF status[t] = "absent" THEN "slot" ELSE status[t]

\* The section under pa.mu.
UpdateStatus(t, n) ==
  /\ step[t][n] \in Reporting
  /\ from[t][n] = "none"
  /\ from' = [from EXCEPT ![t][n] = Previous(t)]
  /\ status' = [status EXCEPT ![t] = Reported[step[t][n]]]
  /\ UNCHANGED <<queue, submissions, step, count, contended>>

\* Mutant: a new task takes no place among the pending ones.
LeavesAll(was) == IF was = "slot" THEN count
                  ELSE [count EXCEPT ![was] = @ - 1]

\* The counters without what the task was before. A new task takes a place of
\* the pending ones, if there is one.
Leaves(was) ==
  IF was # "slot" THEN [count EXCEPT ![was] = @ - 1]
  ELSE IF count["pending"] > 0 THEN [count EXCEPT !["pending"] = @ - 1]
  ELSE count

\* Mutant: the task is looked up again under the second lock.
UpdateCountsOfNow(t, n) ==
  /\ from[t][n] # "none"
  /\ count' = [Leaves(from[t][n]) EXCEPT ![status[t]] = @ + 1]
  /\ from' = [from EXCEPT ![t][n] = "none"]
  /\ MoveTo(t, n, Then[step[t][n]])
  /\ UNCHANGED <<queue, submissions, status, contended>>

\* The section under commission.mu.
UpdateCounts(t, n) ==
  /\ from[t][n] # "none"
  /\ count' = [Leaves(from[t][n]) EXCEPT ![Reported[step[t][n]]] = @ + 1]
  /\ from' = [from EXCEPT ![t][n] = "none"]
  /\ MoveTo(t, n, Then[step[t][n]])
  /\ UNCHANGED <<queue, submissions, status, contended>>

Next ==
  \E t \in Task :
    \/ SubmitTask(t)
    \/ \E n \in Goroutine :
         \/ StartTaskExecution(t, n)
         \/ ExecuteTask(t, n)
         \/ HandleTaskError(t, n)
         \/ UpdateStatus(t, n)
         \/ UpdateCounts(t, n)

Spec == Init /\ [][Next]_vars

-------------------------------------------------------------------------------
(* Properties *)

With(s) == {t \in Task : status[t] = s}

\* Reports between their two sections that take a task out of s, or into it.
Leaving(s) == {r \in Task \X Goroutine : from[r[1]][r[2]] = s}

Entering(s) ==
  {r \in Task \X Goroutine :
     from[r[1]][r[2]] # "none" /\ Reported[step[r[1]][r[2]]] = s}

\* Whatever the order in which concurrent reports reach the second lock, the
\* counters of running, completed and failed tasks are those of the tasks'
\* statuses, corrected by the reports that are between the two locks; with no
\* report under way they are equal.
CountersAgree ==
  \A s \in Status \ {"pending"} :
    count[s] = Cardinality(With(s)) + Cardinality(Leaving(s))
                 - Cardinality(Entering(s))

\* What the commission counts as pending beyond the tasks nobody has reported yet
\* and the tasks that are pending, with the reports that are between the locks.
Surplus ==
  count["pending"] -
    (TotalTasks - Cardinality(Task \ With("absent"))
       + Cardinality(With("pending"))
       + Cardinality(Leaving("pending") \cup Leaving("slot"))
       - Cardinality(Entering("pending")))

\* A client that reports its task late may find no place left among the pending
\* ones: however the reports of a task overtake each other, the tasks counted as
\* pending are never too few, and at most one too many for each task reported.
\* While no task is reported by two goroutines at a time they are exactly right:
\* the four counters then add up to TotalTasks.
PendingAgrees ==
  /\ Surplus \in 0 .. Cardinality(Task \ With("absent"))
  /\ contended = {} /\ Cardinality(Task) <= TotalTasks => Surplus = 0

Busy(t) == {n \in Goroutine : step[t][n] \notin Ended}

\* The goroutine of the task's last attempt.
Last(t) ==
  CHOOSE n \in Goroutine :
    /\ n = 0 \/ step[t][n] # "idle"
    /\ \A m \in Goroutine : m > n => step[t][m] = "idle"

\* A task that only one goroutine at a time was ever busy with shows what it is
\* doing when nobody is about to report: running, waiting in the queue (for the
\* first time, for a retry or as a resubmitted dead letter), completed, failed.
StatusAgrees ==
  \A t \in Task \ contended :
    (\A n \in Goroutine : step[t][n] \in Ended \cup {"executing"}) =>
      status[t] = CASE Busy(t) # {} -> "running"
                    [] Busy(t) = {} /\ t \in queue -> "pending"
                    [] Busy(t) = {} /\ t \notin queue ->
                         [idle |-> "absent", completed |-> "completed",
                          dead |-> "failed", retried |-> "failed"][step[t][Last(t)]]
=============================================================================
