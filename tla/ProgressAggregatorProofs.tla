---------------------- MODULE ProgressAggregatorProofs ----------------------
(* What holds of the progress of a commission for every set of tasks and      *)
(* every bound.                                                               *)
EXTENDS ProgressAggregator, FiniteSetTheorems, TLAPS

-------------------------------------------------------------------------------
(* Type correctness *)

\* What is reported at a step is a status, and a step comes after it.
LEMMA ReportTypes ==
  ASSUME NEW s \in Reporting
  PROVE  Reported[s] \in Status /\ Then[s] \in Step
BY DEF Reporting, Reported, Then, Status, Step, Ended

\* Goroutine 0 is the submitter's.
LEMMA SubmitterIsGoroutine == 0 \in Goroutine
BY ProgressAssumption DEF Goroutine

\* A goroutine that moves to another step.
LEMMA MoveToType ==
  ASSUME TypeOK, NEW t \in Task, NEW n \in Goroutine, NEW to \in Step,
         MoveTo(t, n, to)
  PROVE  step' \in [Task -> [Goroutine -> Step]]
BY DEF MoveTo, TypeOK

\* Taking a task out of a counter leaves integers.
LEMMA LeavesType ==
  ASSUME count \in [Status -> Int], NEW was \in Status \cup {"slot"}
  PROVE  Leaves(was) \in [Status -> Int]
BY DEF Leaves, Status

\* Only a goroutine that reports is between the two sections of a report.
InReport ==
  \A t \in Task, n \in Goroutine :
    from[t][n] # "none" => step[t][n] \in Reporting

\* A goroutine between two reports, or between its code and a report, moves on.
Moves(t, n, to) ==
  /\ t \in Task /\ n \in Goroutine /\ to \in Step
  /\ from[t][n] = "none"
  /\ MoveTo(t, n, to)
  /\ UNCHANGED <<from, status, count>>

\* The steps of the scheduler's goroutines outside UpdateTaskStatus.
LEMMA SchedulerMoves ==
  ASSUME TypeOK, InReport,
         \E t \in Task :
           \/ SubmitTask(t)
           \/ \E n \in Goroutine :
                \/ StartTaskExecution(t, n)
                \/ ExecuteTask(t, n)
                \/ HandleTaskError(t, n)
  PROVE  \E t, n, to : Moves(t, n, to)
<1>1. /\ {"submitted", "starting", "succeeded", "failed", "requeued", "retried",
          "dead"} \subseteq Step
      /\ {"idle", "executing", "deciding"} \cap Reporting = {}
  BY DEF Step, Ended, Reporting, Reported
<1>2. ASSUME NEW t \in Task, SubmitTask(t) PROVE \E u, n, to : Moves(u, n, to)
  <2>1. Moves(t, 0, "submitted")
    BY <1>1, <1>2, SubmitterIsGoroutine DEF SubmitTask, InReport, Moves
  <2>2. QED BY <2>1
<1>3. ASSUME NEW t \in Task, NEW n \in Goroutine, StartTaskExecution(t, n)
      PROVE  \E u, m, to : Moves(u, m, to)
  <2>1. Moves(t, n, "starting")
    BY <1>1, <1>3 DEF StartTaskExecution, InReport, Moves
  <2>2. QED BY <2>1
<1>4. ASSUME NEW t \in Task, NEW n \in Goroutine, ExecuteTask(t, n)
      PROVE  \E u, m, to : Moves(u, m, to)
  <2>1. Moves(t, n, "succeeded") \/ Moves(t, n, "failed")
    BY <1>1, <1>4 DEF ExecuteTask, InReport, Moves
  <2>2. QED BY <2>1
<1>5. ASSUME NEW t \in Task, NEW n \in Goroutine, HandleTaskError(t, n)
      PROVE  \E u, m, to : Moves(u, m, to)
  <2>1. Moves(t, n, "requeued") \/ Moves(t, n, "dead")
    BY <1>1, <1>5 DEF HandleTaskError, InReport, Moves
  <2>2. QED BY <2>1
<1>6. QED BY <1>2, <1>3, <1>4, <1>5

\* Every state is well typed, and a goroutine between the two sections knows
\* what it reports.
THEOREM TypeCorrect == Spec => [](TypeOK /\ InReport)
<1>1. Init => TypeOK /\ InReport
  BY ProgressAssumption DEF Init, TypeOK, Status, Step, Ended, InReport
<1>2. TypeOK /\ InReport /\ [Next]_vars => (TypeOK /\ InReport)'
  <2> SUFFICES ASSUME TypeOK, InReport, [Next]_vars
               PROVE  TypeOK' /\ InReport'
    OBVIOUS
  <2>1. CASE UNCHANGED vars
    BY <2>1 DEF vars, TypeOK, InReport
  <2>2. ASSUME NEW t \in Task,
               \/ SubmitTask(t)
               \/ \E n \in Goroutine :
                    \/ StartTaskExecution(t, n)
                    \/ ExecuteTask(t, n)
                    \/ HandleTaskError(t, n)
        PROVE  TypeOK' /\ InReport'
    <3>1. PICK u, n, to : Moves(u, n, to)
      BY <2>2, SchedulerMoves
    <3>2. step' \in [Task -> [Goroutine -> Step]]
      BY <3>1, MoveToType DEF Moves
    <3>3. submissions' \in 0 .. MaxSubmissions
      BY <2>2, ProgressAssumption DEF TypeOK, SubmitTask, StartTaskExecution,
         ExecuteTask, HandleTaskError
    <3>4. queue' \in SUBSET Task /\ contended' \in SUBSET Task
      BY <2>2 DEF TypeOK, SubmitTask, StartTaskExecution, ExecuteTask,
         HandleTaskError, Joins
    <3>5. TypeOK'
      BY <3>1, <3>2, <3>3, <3>4 DEF Moves, TypeOK
    <3>6. InReport'
      BY <3>1 DEF Moves, MoveTo, InReport, TypeOK
    <3>7. QED BY <3>5, <3>6
  <2>3. ASSUME NEW t \in Task, NEW n \in Goroutine, UpdateStatus(t, n)
        PROVE  TypeOK' /\ InReport'
    <3>1. Reported[step[t][n]] \in Status
      BY <2>3, ReportTypes DEF UpdateStatus
    <3>2. Previous(t) \in Status \cup {"slot"}
      BY DEF Previous, TypeOK
    <3>3. QED BY <2>3, <3>1, <3>2 DEF UpdateStatus, TypeOK, InReport
  <2>4. ASSUME NEW t \in Task, NEW n \in Goroutine, UpdateCounts(t, n)
        PROVE  TypeOK' /\ InReport'
    <3>1. step[t][n] \in Reporting /\ from[t][n] \in Status \cup {"slot"}
      BY <2>4 DEF UpdateCounts, InReport, TypeOK
    <3>2. Reported[step[t][n]] \in Status /\ Then[step[t][n]] \in Step
      BY <3>1, ReportTypes
    <3>3. Leaves(from[t][n]) \in [Status -> Int]
      BY <3>1, LeavesType DEF TypeOK
    <3>4. step' \in [Task -> [Goroutine -> Step]]
      BY <2>4, <3>2, MoveToType DEF UpdateCounts
    <3>5. count' \in [Status -> Int]
      BY <2>4, <3>2, <3>3 DEF UpdateCounts
    <3>6. from' \in [Task -> [Goroutine -> Status \cup {"none", "slot"}]]
      BY <2>4 DEF UpdateCounts, TypeOK
    <3>7. TypeOK'
      BY <2>4, <3>4, <3>5, <3>6 DEF UpdateCounts, TypeOK
    <3>8. InReport'
      BY <2>4 DEF UpdateCounts, MoveTo, InReport, TypeOK
    <3>9. QED BY <3>7, <3>8
  <2>5. QED BY <2>1, <2>2, <2>3, <2>4 DEF Next
<1>3. QED BY <1>1, <1>2, PTL DEF Spec

-------------------------------------------------------------------------------
(* The counters *)

\* The sets the counters are compared with are finite.
LEMMA FiniteCounts ==
  ASSUME NEW s
  PROVE  /\ IsFiniteSet(With(s)) /\ IsFiniteSet(Leaving(s))
         /\ IsFiniteSet(Entering(s))
         /\ Cardinality(With(s)) \in Nat /\ Cardinality(Leaving(s)) \in Nat
         /\ Cardinality(Entering(s)) \in Nat
<1>1. IsFiniteSet(Goroutine)
  BY ProgressAssumption, FS_Interval DEF Goroutine
<1>2. IsFiniteSet(Task \X Goroutine)
  BY <1>1, ProgressAssumption, FS_Product
<1>3. IsFiniteSet(With(s))
  BY ProgressAssumption, FS_Subset DEF With
<1>4. IsFiniteSet(Leaving(s)) /\ IsFiniteSet(Entering(s))
  BY <1>2, FS_Subset DEF Leaving, Entering
<1>5. QED BY <1>3, <1>4, FS_CardinalityType

\* Adding an element that is new, and removing one that is there.
LEMMA CardinalityChange ==
  ASSUME NEW S, IsFiniteSet(S), NEW x
  PROVE  /\ Cardinality(S \cup {x})
              = Cardinality(S) + (IF x \in S THEN 0 ELSE 1)
         /\ Cardinality(S \ {x}) = Cardinality(S) - (IF x \in S THEN 1 ELSE 0)
BY FS_AddElement, FS_RemoveElement, FS_CardinalityType

\* Nothing that is counted, or that a report is about, changes.
LEMMA MovesKeepCounters ==
  ASSUME TypeOK, NEW t, NEW n, NEW to, Moves(t, n, to), CountersAgree
  PROVE  CountersAgree'
<1>1. ASSUME NEW s
      PROVE  /\ With(s)' = With(s)
             /\ Leaving(s)' = Leaving(s)
             /\ Entering(s)' = Entering(s)
  BY DEF Moves, MoveTo, TypeOK, With, Leaving, Entering
<1>2. QED BY <1>1 DEF Moves, CountersAgree

\* The section under pa.mu moves the task from what it was to what it is, and
\* begins a report.
LEMMA UpdateStatusSets ==
  ASSUME TypeOK, NEW t \in Task, NEW n \in Goroutine, UpdateStatus(t, n),
         NEW s \in Status
  PROVE  /\ Cardinality(With(s)') =
              Cardinality(With(s)) + (IF Reported[step[t][n]] = s THEN 1 ELSE 0)
                - (IF Previous(t) = s THEN 1 ELSE 0)
         /\ Cardinality(Leaving(s)') =
              Cardinality(Leaving(s)) + (IF Previous(t) = s THEN 1 ELSE 0)
         /\ Cardinality(Entering(s)') =
              Cardinality(Entering(s))
                + (IF Reported[step[t][n]] = s THEN 1 ELSE 0)
<1> DEFINE new == Reported[step[t][n]]
           was == Previous(t)
           r == <<t, n>>
<1>1. r \notin Leaving(s) /\ r \notin Entering(s) /\ (t \in With(s) <=> was = s)
  BY DEF UpdateStatus, Leaving, Entering, With, Previous, Status
<1>2. With(s)' = IF new = s THEN With(s) \cup {t} ELSE With(s) \ {t}
  BY DEF UpdateStatus, TypeOK, With
<1>3. Leaving(s)' = IF was = s THEN Leaving(s) \cup {r} ELSE Leaving(s)
  BY DEF UpdateStatus, TypeOK, Leaving, Status
<1>4. Entering(s)' = IF new = s THEN Entering(s) \cup {r} ELSE Entering(s)
  <2>1. was # "none"
    BY DEF Previous, TypeOK, Status
  <2>2. QED BY <2>1 DEF UpdateStatus, TypeOK, Entering
<1>5. Cardinality(With(s)') =
        Cardinality(With(s)) + (IF new = s THEN 1 ELSE 0)
          - (IF was = s THEN 1 ELSE 0)
  <2> HIDE DEF new, was
  <2>1. /\ Cardinality(With(s) \cup {t})
              = Cardinality(With(s)) + (IF t \in With(s) THEN 0 ELSE 1)
        /\ Cardinality(With(s) \ {t})
              = Cardinality(With(s)) - (IF t \in With(s) THEN 1 ELSE 0)
    <3>1. IsFiniteSet(With(s))
      BY FiniteCounts
    <3> HIDE DEF With
    <3>2. QED BY ONLY <3>1, CardinalityChange
  <2>2. Cardinality(With(s)) \in Nat
    BY FiniteCounts
  <2>3. CASE new = s
    BY <1>1, <1>2, <2>1, <2>2, <2>3
  <2>4. CASE new # s
    BY <1>1, <1>2, <2>1, <2>2, <2>4
  <2>5. QED BY <2>3, <2>4
<1>6. Cardinality(Leaving(s)') =
        Cardinality(Leaving(s)) + (IF was = s THEN 1 ELSE 0)
  <2> HIDE DEF new, was, r
  <2> QED BY <1>1, <1>3, FiniteCounts, CardinalityChange
<1>7. Cardinality(Entering(s)') =
        Cardinality(Entering(s)) + (IF new = s THEN 1 ELSE 0)
  <2> HIDE DEF new, was, r
  <2> QED BY <1>1, <1>4, FiniteCounts, CardinalityChange
<1>8. QED BY <1>5, <1>6, <1>7

LEMMA UpdateStatusKeepsCounters ==
  ASSUME TypeOK, NEW t \in Task, NEW n \in Goroutine, UpdateStatus(t, n),
         CountersAgree
  PROVE  CountersAgree'
<1> SUFFICES ASSUME NEW s \in Status \ {"pending"}
             PROVE  count'[s] = Cardinality(With(s)') + Cardinality(Leaving(s)')
                                  - Cardinality(Entering(s)')
  BY DEF CountersAgree
<1>1. count[s] = Cardinality(With(s)) + Cardinality(Leaving(s))
                   - Cardinality(Entering(s))
  BY DEF CountersAgree
<1>2. count' = count
  BY DEF UpdateStatus
<1>3. QED BY <1>1, <1>2, UpdateStatusSets, FiniteCounts

\* The section under commission.mu: the report is no longer under way.
LEMMA UpdateCountsSets ==
  ASSUME TypeOK, NEW t \in Task, NEW n \in Goroutine, UpdateCounts(t, n),
         NEW s \in Status
  PROVE  /\ With(s)' = With(s)
         /\ Cardinality(Leaving(s)') =
              Cardinality(Leaving(s)) - (IF from[t][n] = s THEN 1 ELSE 0)
         /\ Cardinality(Entering(s)') =
              Cardinality(Entering(s))
                - (IF Reported[step[t][n]] = s THEN 1 ELSE 0)
<1> DEFINE new == Reported[step[t][n]]
           was == from[t][n]
           r == <<t, n>>
<1>1. (r \in Leaving(s) <=> was = s) /\ (r \in Entering(s) <=> new = s)
  BY DEF UpdateCounts, Leaving, Entering
<1>2. With(s)' = With(s)
  BY DEF UpdateCounts, With
<1>3. Leaving(s)' = Leaving(s) \ {r}
  BY DEF UpdateCounts, TypeOK, Leaving, Status
<1>4. Entering(s)' = Entering(s) \ {r}
  BY DEF UpdateCounts, MoveTo, TypeOK, Entering
<1> HIDE DEF new, was, r
<1>5. Cardinality(Leaving(s) \ {r})
        = Cardinality(Leaving(s)) - (IF r \in Leaving(s) THEN 1 ELSE 0)
  BY FiniteCounts, CardinalityChange
<1>6. Cardinality(Entering(s) \ {r})
        = Cardinality(Entering(s)) - (IF r \in Entering(s) THEN 1 ELSE 0)
  BY FiniteCounts, CardinalityChange
<1>7. QED BY <1>1, <1>2, <1>3, <1>4, <1>5, <1>6 DEF new, was

LEMMA UpdateCountsKeepsCounters ==
  ASSUME TypeOK, InReport, NEW t \in Task, NEW n \in Goroutine,
         UpdateCounts(t, n), CountersAgree
  PROVE  CountersAgree'
<1> DEFINE new == Reported[step[t][n]]
           was == from[t][n]
<1> SUFFICES ASSUME NEW s \in Status \ {"pending"}
             PROVE  count'[s] = Cardinality(With(s)') + Cardinality(Leaving(s)')
                                  - Cardinality(Entering(s)')
  BY DEF CountersAgree
<1>1. count[s] = Cardinality(With(s)) + Cardinality(Leaving(s))
                   - Cardinality(Entering(s))
  BY DEF CountersAgree
<1>2. new \in Status /\ was \in Status \cup {"slot"}
  BY ReportTypes DEF UpdateCounts, InReport, TypeOK
<1>3. count'[s] = count[s] - (IF was = s THEN 1 ELSE 0)
                    + (IF new = s THEN 1 ELSE 0)
  BY <1>2 DEF UpdateCounts, Leaves, TypeOK, Status
<1>4. /\ With(s)' = With(s)
      /\ Cardinality(Leaving(s)') =
           Cardinality(Leaving(s)) - (IF was = s THEN 1 ELSE 0)
      /\ Cardinality(Entering(s)') =
           Cardinality(Entering(s)) - (IF new = s THEN 1 ELSE 0)
  BY UpdateCountsSets
<1> HIDE DEF new, was
<1>5. count[s] \in Int
  BY DEF TypeOK
<1>6. QED BY <1>1, <1>3, <1>4, <1>5, FiniteCounts

\* For any number of tasks, attempts and resubmissions, and in whatever order
\* concurrent reports reach the commission's lock, its counters of running,
\* completed and failed tasks are the numbers of tasks with these statuses.
THEOREM CountersCorrect == Spec => []CountersAgree
<1>1. Init => CountersAgree
  <2> SUFFICES ASSUME Init, NEW s \in Status \ {"pending"}
               PROVE  count[s] = Cardinality(With(s)) + Cardinality(Leaving(s))
                                   - Cardinality(Entering(s))
    BY DEF CountersAgree
  <2>1. With(s) = {} /\ Leaving(s) = {} /\ Entering(s) = {}
    BY DEF Init, With, Leaving, Entering, Status
  <2>2. count[s] = 0
    BY DEF Init
  <2>3. QED BY <2>1, <2>2, FS_EmptySet
<1>2. TypeOK /\ InReport /\ CountersAgree /\ [Next]_vars => CountersAgree'
  <2> SUFFICES ASSUME TypeOK, InReport, CountersAgree, [Next]_vars
               PROVE  CountersAgree'
    OBVIOUS
  <2>1. CASE UNCHANGED vars
    BY <2>1 DEF vars, CountersAgree, With, Leaving, Entering
  <2>2. CASE \E t \in Task :
               \/ SubmitTask(t)
               \/ \E n \in Goroutine :
                    \/ StartTaskExecution(t, n)
                    \/ ExecuteTask(t, n)
                    \/ HandleTaskError(t, n)
    BY <2>2, SchedulerMoves, MovesKeepCounters
  <2>3. ASSUME NEW t \in Task, NEW n \in Goroutine,
               UpdateStatus(t, n) \/ UpdateCounts(t, n)
        PROVE  CountersAgree'
    BY <2>3, UpdateStatusKeepsCounters, UpdateCountsKeepsCounters
  <2>4. QED BY <2>1, <2>2, <2>3 DEF Next
<1>3. QED BY <1>1, <1>2, TypeCorrect, PTL DEF Spec

-------------------------------------------------------------------------------
(* The attempts at a task *)

\* Goroutine n is that of the task's last attempt, or no attempt was made.
IsLast(t, n) ==
  /\ n = 0 \/ step[t][n] # "idle"
  /\ \A m \in Goroutine : m > n => step[t][m] = "idle"

\* Only goroutine 0 submits, and attempts are made one after the other.
AttemptsInOrder ==
  \A t \in Task :
    /\ step[t][0] \in {"idle", "submitted"}
    /\ \A n \in Goroutine :
         /\ n # 0 => step[t][n] # "submitted"
         /\ step[t][n] # "idle" => \A m \in 1 .. n - 1 : step[t][m] # "idle"
    /\ \E n \in Goroutine : IsLast(t, n)

\* There is one last attempt at most.
LEMMA LastIsUnique ==
  ASSUME NEW t, NEW n \in Goroutine, IsLast(t, n),
         NEW m \in Goroutine, IsLast(t, m)
  PROVE  m = n
BY ProgressAssumption DEF IsLast, Goroutine

\* A step of a goroutine that neither begins an attempt nor undoes one.
Continues(t, n, to) ==
  /\ t \in Task /\ n \in Goroutine /\ to \in Step
  /\ MoveTo(t, n, to)
  /\ IF n = 0 THEN to \in {"idle", "submitted"}
     ELSE step[t][n] # "idle" /\ to \notin {"idle", "submitted"}

\* It leaves the last attempt what it was.
LEMMA ContinuesKeepsLast ==
  ASSUME TypeOK, NEW t, NEW n, NEW to, Continues(t, n, to),
         NEW u \in Task, NEW m \in Goroutine
  PROVE  IsLast(u, m)' <=> IsLast(u, m)
<1>1. \A k \in Goroutine : k # 0 => (step'[u][k] = "idle" <=> step[u][k] = "idle")
  BY DEF Continues, MoveTo, TypeOK
<1>2. m >= 0 /\ \A k \in Goroutine : k > m => k # 0
  BY ProgressAssumption DEF Goroutine
<1>3. QED BY <1>1, <1>2 DEF IsLast

LEMMA ContinuesInOrder ==
  ASSUME TypeOK, AttemptsInOrder, NEW t, NEW n, NEW to, Continues(t, n, to)
  PROVE  AttemptsInOrder'
<1> SUFFICES ASSUME NEW u \in Task
             PROVE  /\ step'[u][0] \in {"idle", "submitted"}
                    /\ \A m \in Goroutine :
                         /\ m # 0 => step'[u][m] # "submitted"
                         /\ step'[u][m] # "idle" =>
                              \A k \in 1 .. m - 1 : step'[u][k] # "idle"
                    /\ \E m \in Goroutine : IsLast(u, m)'
  BY DEF AttemptsInOrder
<1>1. \E m \in Goroutine : IsLast(u, m)'
  BY ContinuesKeepsLast DEF AttemptsInOrder
<1>2. step'[u][0] \in {"idle", "submitted"}
  BY SubmitterIsGoroutine DEF AttemptsInOrder, Continues, MoveTo, TypeOK
<1>3. ASSUME NEW m \in Goroutine
      PROVE  /\ m # 0 => step'[u][m] # "submitted"
             /\ m # 0 => (step'[u][m] = "idle" <=> step[u][m] = "idle")
  BY DEF AttemptsInOrder, Continues, MoveTo, TypeOK
<1>4. ASSUME NEW m \in Goroutine, step'[u][m] # "idle", NEW k \in 1 .. m - 1
      PROVE  step'[u][k] # "idle"
  <2>1. m # 0 /\ k # 0 /\ k \in Goroutine
    BY <1>4, ProgressAssumption DEF Goroutine
  <2>2. step[u][m] # "idle"
    BY <1>3, <1>4, <2>1
  <2>3. step[u][k] # "idle"
    BY <1>4, <2>2 DEF AttemptsInOrder
  <2>4. QED BY <1>3, <2>1, <2>3
<1>5. QED BY <1>1, <1>2, <1>3, <1>4

\* An attempt that begins is the last.
LEMMA StartIsLast ==
  ASSUME TypeOK, AttemptsInOrder, NEW t \in Task, NEW n \in Goroutine,
         StartTaskExecution(t, n)
  PROVE  IsLast(t, n)'
<1>1. ASSUME NEW m \in Goroutine, m > n PROVE step[t][m] = "idle"
  <2>1. n \in 1 .. m - 1
    BY <1>1, ProgressAssumption DEF StartTaskExecution, Goroutine
  <2>2. QED BY <2>1 DEF StartTaskExecution, AttemptsInOrder
<1>2. \A m \in Goroutine : m > n => m # n
  BY ProgressAssumption DEF Goroutine
<1>3. QED BY <1>1, <1>2 DEF StartTaskExecution, MoveTo, TypeOK, IsLast

LEMMA StartInOrder ==
  ASSUME TypeOK, AttemptsInOrder, NEW t \in Task, NEW n \in Goroutine,
         StartTaskExecution(t, n)
  PROVE  AttemptsInOrder'
<1>1. step' = [step EXCEPT ![t][n] = "starting"] /\ n # 0
  BY DEF StartTaskExecution, MoveTo
<1> SUFFICES ASSUME NEW u \in Task
             PROVE  /\ step'[u][0] \in {"idle", "submitted"}
                    /\ \A m \in Goroutine :
                         /\ m # 0 => step'[u][m] # "submitted"
                         /\ step'[u][m] # "idle" =>
                              \A k \in 1 .. m - 1 : step'[u][k] # "idle"
                    /\ \E m \in Goroutine : IsLast(u, m)'
  BY DEF AttemptsInOrder
<1>2. \E m \in Goroutine : IsLast(u, m)'
  <2>1. CASE u = t
    BY <2>1, StartIsLast
  <2>2. CASE u # t
    <3>1. step'[u] = step[u]
      BY <1>1, <2>2 DEF TypeOK
    <3>2. QED BY <3>1 DEF AttemptsInOrder, IsLast
  <2>3. QED BY <2>1, <2>2
<1>3. step'[u][0] \in {"idle", "submitted"}
  BY <1>1, SubmitterIsGoroutine DEF AttemptsInOrder, TypeOK
<1>4. ASSUME NEW m \in Goroutine
      PROVE  /\ m # 0 => step'[u][m] # "submitted"
             /\ step[u][m] # "idle" => step'[u][m] # "idle"
  BY <1>1 DEF AttemptsInOrder, TypeOK
<1>5. ASSUME NEW m \in Goroutine, step'[u][m] # "idle", NEW k \in 1 .. m - 1
      PROVE  step'[u][k] # "idle"
  <2>1. k \in Goroutine
    BY ProgressAssumption DEF Goroutine
  <2>2. step[u][k] # "idle"
    <3>1. CASE u = t /\ m = n
      BY <1>5, <3>1 DEF StartTaskExecution
    <3>2. CASE ~(u = t /\ m = n)
      <4>1. step[u][m] # "idle"
        BY <1>1, <1>5, <3>2 DEF TypeOK
      <4>2. QED BY <1>5, <4>1 DEF AttemptsInOrder
    <3>3. QED BY <3>1, <3>2
  <2>3. QED BY <1>4, <2>1, <2>2
<1>6. QED BY <1>2, <1>3, <1>4, <1>5

\* The other steps of a goroutine, and how each continues.
LEMMA SubmitContinues ==
  ASSUME NEW t \in Task, SubmitTask(t)
  PROVE  Continues(t, 0, "submitted")
BY SubmitterIsGoroutine DEF SubmitTask, Continues, Step, Reporting, Reported

LEMMA AttemptContinues ==
  ASSUME AttemptsInOrder, NEW t \in Task, NEW n \in Goroutine,
         NEW to \in {"succeeded", "failed", "requeued", "dead"},
         step[t][n] \in {"executing", "deciding"}, MoveTo(t, n, to)
  PROVE  Continues(t, n, to) /\ n # 0
<1>1. n # 0
  BY DEF AttemptsInOrder
<1>2. to \in Step
  BY DEF Step, Reporting, Reported, Ended
<1>3. QED BY <1>1, <1>2 DEF Continues

LEMMA ReportContinues ==
  ASSUME AttemptsInOrder, InReport, NEW t \in Task, NEW n \in Goroutine,
         UpdateCounts(t, n)
  PROVE  Continues(t, n, Then[step[t][n]])
<1>1. step[t][n] \in Reporting
  BY DEF UpdateCounts, InReport
<1>2. Then[step[t][n]] \in Step
  BY <1>1, ReportTypes
<1>3. IF n = 0 THEN step[t][n] = "submitted" ELSE step[t][n] # "submitted"
  BY <1>1 DEF AttemptsInOrder, Reporting, Reported
<1>4. IF n = 0 THEN Then[step[t][n]] \in {"idle", "submitted"}
      ELSE step[t][n] # "idle" /\ Then[step[t][n]] \notin {"idle", "submitted"}
  BY <1>1, <1>3 DEF Reporting, Reported, Then
<1>5. QED BY <1>2, <1>4 DEF Continues, UpdateCounts

\* Attempts at a task follow one another, whoever submits it again meanwhile.
LEMMA AttemptsHold == Spec => []AttemptsInOrder
<1>1. Init => AttemptsInOrder
  <2> SUFFICES ASSUME Init PROVE AttemptsInOrder
    OBVIOUS
  <2>1. \A t \in Task, n \in Goroutine : step[t][n] = "idle"
    BY DEF Init
  <2>2. \A t \in Task : IsLast(t, 0)
    BY <2>1 DEF IsLast
  <2>3. QED BY <2>1, <2>2, SubmitterIsGoroutine DEF AttemptsInOrder
<1>2. TypeOK /\ InReport /\ AttemptsInOrder /\ [Next]_vars => AttemptsInOrder'
  <2> SUFFICES ASSUME TypeOK, InReport, AttemptsInOrder, [Next]_vars
               PROVE  AttemptsInOrder'
    OBVIOUS
  <2>1. CASE UNCHANGED vars
    BY <2>1 DEF vars, AttemptsInOrder, IsLast
  <2>2. ASSUME NEW t \in Task, SubmitTask(t) PROVE AttemptsInOrder'
    BY <2>2, SubmitContinues, ContinuesInOrder
  <2>3. ASSUME NEW t \in Task, NEW n \in Goroutine, StartTaskExecution(t, n)
        PROVE  AttemptsInOrder'
    BY <2>3, StartInOrder
  <2>4. ASSUME NEW t \in Task, NEW n \in Goroutine,
               ExecuteTask(t, n) \/ HandleTaskError(t, n)
        PROVE  AttemptsInOrder'
    <3>1. PICK to \in {"succeeded", "failed", "requeued", "dead"} :
            MoveTo(t, n, to)
      BY <2>4 DEF ExecuteTask, HandleTaskError
    <3>2. step[t][n] \in {"executing", "deciding"}
      BY <2>4 DEF ExecuteTask, HandleTaskError
    <3>3. QED BY <3>1, <3>2, AttemptContinues, ContinuesInOrder
  <2>5. ASSUME NEW t \in Task, NEW n \in Goroutine, UpdateStatus(t, n)
        PROVE  AttemptsInOrder'
    BY <2>5 DEF UpdateStatus, AttemptsInOrder, IsLast
  <2>6. ASSUME NEW t \in Task, NEW n \in Goroutine, UpdateCounts(t, n)
        PROVE  AttemptsInOrder'
    BY <2>6, ReportContinues, ContinuesInOrder
  <2>7. QED BY <2>1, <2>2, <2>3, <2>4, <2>5, <2>6 DEF Next
<1>3. QED BY <1>1, <1>2, TypeCorrect, PTL DEF Spec

-------------------------------------------------------------------------------
(* A task that one goroutine at a time is busy with *)

\* What the task shows, whatever its goroutine is about to do.
Shown(t) ==
  /\ \A m, n \in Busy(t) : m = n
  /\ \A n \in Busy(t) :
       /\ n # 0 => IsLast(t, n)
       /\ t \in queue <=> step[t][n] \in {"submitted", "requeued"}
       /\ from[t][n] # "none" => status[t] = Reported[step[t][n]]
       /\ step[t][n] = "executing" => status[t] = "running"
       /\ step[t][n] = "deciding" => status[t] = "failed"
  /\ Busy(t) = {} /\ t \in queue => status[t] = "pending"
  /\ Busy(t) = {} /\ t \notin queue =>
       \E n \in Goroutine :
         /\ IsLast(t, n)
         /\ \/ step[t][n] = "idle" /\ status[t] = "absent"
            \/ step[t][n] = "completed" /\ status[t] = "completed"
            \/ step[t][n] = "dead" /\ status[t] = "failed"

AllShown == \A t \in Task \ contended : Shown(t)

\* A task that is left alone shows what it did.
LEMMA OthersShown ==
  ASSUME NEW t, Shown(t),
         step'[t] = step[t], from'[t] = from[t], status'[t] = status[t],
         t \in queue' <=> t \in queue
  PROVE  Shown(t)'
<1>1. Busy(t)' = Busy(t) /\ \A n \in Goroutine : IsLast(t, n)' <=> IsLast(t, n)
  BY DEF Busy, IsLast
<1>2. \A n \in Busy(t) : n \in Goroutine
  BY DEF Busy
<1>3. QED BY <1>1, <1>2 DEF Shown

\* Who is busy with a task after its only goroutine took a step.
LEMMA OnlyBusy ==
  ASSUME TypeOK, NEW t \in Task, NEW n \in Goroutine, NEW to,
         MoveTo(t, n, to), Busy(t) \subseteq {n}
  PROVE  /\ step'[t][n] = to
         /\ Busy(t)' = IF to \in Ended THEN {} ELSE {n}
BY DEF MoveTo, TypeOK, Busy

\* A goroutine that is busy with such a task is the only one.
LEMMA Sole ==
  ASSUME NEW t, Shown(t), NEW n \in Goroutine, step[t][n] \notin Ended
  PROVE  Busy(t) = {n}
BY DEF Shown, Busy

\* One that joins finds nobody else busy.
LEMMA JoinsAlone ==
  ASSUME NEW t, NEW n \in Goroutine, Joins(t, n), t \notin contended',
         step[t][n] \in Ended
  PROVE  t \notin contended /\ Busy(t) = {}
BY DEF Joins, Busy

\* The steps between reports do not end, and each that ends is none.
LEMMA BusySteps ==
  /\ Reporting = {"submitted", "starting", "succeeded", "failed", "handling",
                  "requeued"}
  /\ Step = Reporting \cup Ended \cup {"executing", "deciding"}
  /\ (Reporting \cup {"executing", "deciding"}) \cap Ended = {}
BY DEF Step, Reporting, Reported, Ended

LEMMA SubmitShows ==
  ASSUME TypeOK, InReport, AllShown, NEW t \in Task, SubmitTask(t),
         t \notin contended'
  PROVE  Shown(t)'
<1>1. step[t][0] = "idle" /\ MoveTo(t, 0, "submitted") /\ Joins(t, 0)
  BY DEF SubmitTask
<1>2. Busy(t) = {}
  BY <1>1, JoinsAlone, SubmitterIsGoroutine DEF Ended
<1>3. step'[t][0] = "submitted" /\ Busy(t)' = {0}
  BY <1>1, <1>2, OnlyBusy, SubmitterIsGoroutine, BusySteps
<1>4. from'[t][0] = "none"
  BY <1>1, BusySteps, SubmitterIsGoroutine DEF SubmitTask, InReport, Ended
<1>5. t \in queue'
  BY DEF SubmitTask
<1>6. QED BY <1>3, <1>4, <1>5 DEF Shown

LEMMA StartShows ==
  ASSUME TypeOK, InReport, AttemptsInOrder, AllShown, NEW t \in Task,
         NEW n \in Goroutine, StartTaskExecution(t, n), t \notin contended'
  PROVE  Shown(t)'
<1>1. step[t][n] = "idle" /\ MoveTo(t, n, "starting") /\ Joins(t, n)
  BY DEF StartTaskExecution
<1>2. Busy(t) = {}
  BY <1>1, JoinsAlone DEF Ended
<1>3. step'[t][n] = "starting" /\ Busy(t)' = {n}
  BY <1>1, <1>2, OnlyBusy, BusySteps
<1>4. from'[t][n] = "none"
  BY <1>1, BusySteps DEF StartTaskExecution, InReport, Ended
<1>5. t \notin queue'
  BY DEF StartTaskExecution
<1>6. IsLast(t, n)'
  BY StartIsLast
<1>7. QED BY <1>3, <1>4, <1>5, <1>6 DEF Shown

LEMMA ExecuteShows ==
  ASSUME TypeOK, InReport, AttemptsInOrder, AllShown, NEW t \in Task,
         NEW n \in Goroutine, ExecuteTask(t, n), t \notin contended'
  PROVE  Shown(t)'
<1>1. PICK to \in {"succeeded", "failed"} : MoveTo(t, n, to)
  BY DEF ExecuteTask
<1>2. Shown(t) /\ step[t][n] = "executing"
  BY DEF ExecuteTask, AllShown
<1>3. Busy(t) = {n}
  BY <1>2, Sole, BusySteps
<1>4. step'[t][n] = to /\ Busy(t)' = {n}
  BY <1>1, <1>3, OnlyBusy, BusySteps
<1>5. from'[t][n] = "none"
  BY <1>2, BusySteps DEF ExecuteTask, InReport
<1>6. t \notin queue'
  BY <1>2, <1>3 DEF ExecuteTask, Shown
<1>7. IsLast(t, n)'
  BY <1>1, <1>2, <1>3, AttemptContinues, ContinuesKeepsLast DEF Shown
<1>8. QED BY <1>4, <1>5, <1>6, <1>7 DEF Shown

LEMMA HandleShows ==
  ASSUME TypeOK, InReport, AttemptsInOrder, AllShown, NEW t \in Task,
         NEW n \in Goroutine, HandleTaskError(t, n), t \notin contended'
  PROVE  Shown(t)'
<1>1. Shown(t) /\ step[t][n] = "deciding"
  BY DEF HandleTaskError, AllShown
<1>2. Busy(t) = {n}
  BY <1>1, Sole, BusySteps
<1>3. t \notin queue /\ status[t] = "failed" /\ (n # 0 => IsLast(t, n))
  BY <1>1, <1>2 DEF Shown
<1>4. from'[t][n] = "none" /\ status'[t] = "failed"
  BY <1>1, <1>3, BusySteps DEF HandleTaskError, InReport
<1>5. CASE queue' = queue \cup {t} /\ MoveTo(t, n, "requeued")
  <2>1. step'[t][n] = "requeued" /\ Busy(t)' = {n}
    BY <1>2, <1>5, OnlyBusy, BusySteps
  <2>2. IsLast(t, n)'
    BY <1>1, <1>3, <1>5, AttemptContinues, ContinuesKeepsLast
  <2>3. QED BY <1>4, <1>5, <2>1, <2>2 DEF Shown
<1>6. CASE MoveTo(t, n, "dead") /\ UNCHANGED queue
  <2>1. step'[t][n] = "dead" /\ Busy(t)' = {}
    BY <1>2, <1>6, OnlyBusy DEF Ended
  <2>2. IsLast(t, n)'
    BY <1>1, <1>3, <1>6, AttemptContinues, ContinuesKeepsLast
  <2>3. QED BY <1>3, <1>4, <1>6, <2>1, <2>2 DEF Shown
<1>7. QED BY <1>5, <1>6 DEF HandleTaskError

LEMMA UpdateStatusShows ==
  ASSUME TypeOK, AllShown, NEW t \in Task, NEW n \in Goroutine,
         UpdateStatus(t, n), t \notin contended'
  PROVE  Shown(t)'
<1>1. Shown(t) /\ step[t][n] \in Reporting
  BY DEF UpdateStatus, AllShown
<1>2. Busy(t) = {n}
  BY <1>1, Sole, BusySteps
<1>3. Busy(t)' = {n} /\ (IsLast(t, n)' <=> IsLast(t, n))
  BY <1>2 DEF UpdateStatus, Busy, IsLast
<1>4. status'[t] = Reported[step[t][n]]
  BY DEF UpdateStatus, TypeOK
<1>5. step[t][n] \notin {"executing", "deciding"}
  BY <1>1, BusySteps
<1>6. (n # 0 => IsLast(t, n))
      /\ (t \in queue <=> step[t][n] \in {"submitted", "requeued"})
  BY <1>1, <1>2 DEF Shown
<1>7. QED BY <1>3, <1>4, <1>5, <1>6 DEF UpdateStatus, Shown

LEMMA UpdateCountsShows ==
  ASSUME TypeOK, InReport, AttemptsInOrder, AllShown, NEW t \in Task,
         NEW n \in Goroutine, UpdateCounts(t, n), t \notin contended'
  PROVE  Shown(t)'
<1> DEFINE to == Then[step[t][n]]
<1>1. Shown(t) /\ step[t][n] \in Reporting /\ MoveTo(t, n, to)
  BY DEF UpdateCounts, AllShown, InReport
<1>2. Busy(t) = {n}
  BY <1>1, Sole, BusySteps
<1>3. step'[t][n] = to /\ Busy(t)' = IF to \in Ended THEN {} ELSE {n}
  BY <1>1, <1>2, OnlyBusy
<1>4. /\ n # 0 => IsLast(t, n)
      /\ t \in queue <=> step[t][n] \in {"submitted", "requeued"}
      /\ status[t] = Reported[step[t][n]]
  BY <1>1, <1>2 DEF Shown, UpdateCounts
<1>5. IsLast(t, n)' <=> IsLast(t, n)
  BY ReportContinues, ContinuesKeepsLast
<1>6. /\ from'[t][n] = "none"
      /\ status'[t] = status[t]
      /\ t \in queue' <=> t \in queue
  BY DEF UpdateCounts, TypeOK
<1>7. n = 0 => step[t][n] = "submitted"
  BY <1>1, BusySteps DEF AttemptsInOrder, Ended
<1> HIDE DEF to
<1>8. CASE step[t][n] \in {"submitted", "requeued"}
  <2>1. to \in Ended /\ status'[t] = "pending" /\ t \in queue'
    BY <1>4, <1>6, <1>8 DEF to, Then, Ended, Reported
  <2>2. QED BY <1>3, <2>1 DEF Shown
<1>9. CASE step[t][n] = "succeeded"
  <2>1. to = "completed" /\ status'[t] = "completed" /\ t \notin queue'
    BY <1>4, <1>6, <1>9 DEF to, Then, Reported
  <2>2. IsLast(t, n)'
    BY <1>4, <1>5, <1>7, <1>9
  <2>3. QED BY <1>3, <2>1, <2>2 DEF Shown, Ended
<1>10. CASE step[t][n] \in {"starting", "failed", "handling"}
  <2>1. /\ to \in {"executing", "handling", "deciding"}
        /\ to = "executing" => status'[t] = "running"
        /\ to = "deciding" => status'[t] = "failed"
        /\ t \notin queue'
    BY <1>4, <1>6, <1>10 DEF to, Then, Reported
  <2>2. Busy(t)' = {n}
    BY <1>3, <2>1 DEF Ended
  <2>3. IsLast(t, n)'
    BY <1>4, <1>5, <1>7, <1>10
  <2>4. QED BY <1>3, <1>6, <2>1, <2>2, <2>3 DEF Shown
<1>11. QED BY <1>1, <1>8, <1>9, <1>10, BusySteps

\* No step makes a task show anything but what its goroutine did.
LEMMA ShownHolds == Spec => []AllShown
<1>1. Init => AllShown
  <2> SUFFICES ASSUME Init, NEW t \in Task PROVE Shown(t)
    BY DEF AllShown
  <2>1. \A n \in Goroutine : step[t][n] = "idle"
    BY DEF Init
  <2>2. Busy(t) = {} /\ IsLast(t, 0)
    BY <2>1 DEF Busy, IsLast, Ended
  <2>3. t \notin queue /\ status[t] = "absent"
    BY DEF Init
  <2>4. QED BY <2>1, <2>2, <2>3, SubmitterIsGoroutine DEF Shown
<1>2. TypeOK /\ InReport /\ AttemptsInOrder /\ AllShown /\ [Next]_vars
        => AllShown'
  <2> SUFFICES ASSUME TypeOK, InReport, AttemptsInOrder, AllShown, [Next]_vars,
                      NEW u \in Task, u \notin contended'
               PROVE  Shown(u)'
    BY DEF AllShown
  <2>1. ASSUME NEW t \in Task, u # t, Shown(u),
               \/ SubmitTask(t)
               \/ \E n \in Goroutine :
                    \/ StartTaskExecution(t, n) \/ ExecuteTask(t, n)
                    \/ HandleTaskError(t, n) \/ UpdateStatus(t, n)
                    \/ UpdateCounts(t, n)
        PROVE  Shown(u)'
    <3>1. step'[u] = step[u] /\ from'[u] = from[u] /\ status'[u] = status[u]
      BY <2>1 DEF SubmitTask, StartTaskExecution, ExecuteTask, HandleTaskError,
         UpdateStatus, UpdateCounts, MoveTo, TypeOK
    <3>2. u \in queue' <=> u \in queue
      BY <2>1 DEF SubmitTask, StartTaskExecution, ExecuteTask, HandleTaskError,
         UpdateStatus, UpdateCounts
    <3>3. QED BY <2>1, <3>1, <3>2, OthersShown
  <2>2. u \notin contended
    BY DEF Next, vars, SubmitTask, StartTaskExecution, ExecuteTask,
       HandleTaskError, UpdateStatus, UpdateCounts, Joins
  <2>3. Shown(u)
    BY <2>2 DEF AllShown
  <2>4. CASE UNCHANGED vars
    BY <2>3, <2>4, OthersShown DEF vars
  <2>5. CASE SubmitTask(u)
    BY <2>5, SubmitShows
  <2>6. ASSUME NEW n \in Goroutine, StartTaskExecution(u, n) PROVE Shown(u)'
    BY <2>6, StartShows
  <2>7. ASSUME NEW n \in Goroutine, ExecuteTask(u, n) PROVE Shown(u)'
    BY <2>7, ExecuteShows
  <2>8. ASSUME NEW n \in Goroutine, HandleTaskError(u, n) PROVE Shown(u)'
    BY <2>8, HandleShows
  <2>9. ASSUME NEW n \in Goroutine, UpdateStatus(u, n) PROVE Shown(u)'
    BY <2>9, UpdateStatusShows
  <2>10. ASSUME NEW n \in Goroutine, UpdateCounts(u, n) PROVE Shown(u)'
    BY <2>10, UpdateCountsShows
  <2>11. QED
    BY <2>1, <2>3, <2>4, <2>5, <2>6, <2>7, <2>8, <2>9, <2>10 DEF Next
<1>3. QED BY <1>1, <1>2, TypeCorrect, AttemptsHold, PTL DEF Spec

\* For any number of tasks, attempts and resubmissions, a task that one
\* goroutine at a time is busy with shows what it is doing whenever nobody is
\* about to report it.
THEOREM StatusCorrect == Spec => []StatusAgrees
<1>1. AllShown => StatusAgrees
  <2> SUFFICES ASSUME AllShown, NEW t \in Task \ contended,
                      \A n \in Goroutine : step[t][n] \in Ended \cup {"executing"}
               PROVE  status[t] =
                        CASE Busy(t) # {} -> "running"
                          [] Busy(t) = {} /\ t \in queue -> "pending"
                          [] Busy(t) = {} /\ t \notin queue ->
                               [idle |-> "absent", completed |-> "completed",
                                dead |-> "failed",
                                retried |-> "failed"][step[t][Last(t)]]
    BY DEF StatusAgrees
  <2>1. Shown(t)
    BY DEF AllShown
  <2>2. CASE Busy(t) # {}
    <3>1. PICK n \in Goroutine : n \in Busy(t)
      BY <2>2 DEF Busy
    <3>2. step[t][n] = "executing"
      BY <3>1 DEF Busy
    <3>3. status[t] = "running"
      BY <2>1, <3>1, <3>2 DEF Shown
    <3>4. QED BY <2>2, <3>3
  <2>3. CASE Busy(t) = {} /\ t \in queue
    BY <2>1, <2>3 DEF Shown
  <2>4. CASE Busy(t) = {} /\ t \notin queue
    <3>1. PICK n \in Goroutine :
            /\ IsLast(t, n)
            /\ \/ step[t][n] = "idle" /\ status[t] = "absent"
               \/ step[t][n] = "completed" /\ status[t] = "completed"
               \/ step[t][n] = "dead" /\ status[t] = "failed"
      BY <2>1, <2>4 DEF Shown
    <3>2. Last(t) = n
      <4>1. Last(t) = CHOOSE m \in Goroutine : IsLast(t, m)
        BY DEF Last, IsLast
      <4>2. \A m \in Goroutine : IsLast(t, m) <=> m = n
        BY <3>1, LastIsUnique
      <4>3. QED BY <4>1, <4>2
    <3>3. QED BY <2>4, <3>1, <3>2
  <2>5. QED BY <2>2, <2>3, <2>4
<1>2. QED BY <1>1, ShownHolds, PTL

-------------------------------------------------------------------------------
(* The pending tasks *)

\* Reports between their two sections that take a task out of the pending ones,
\* as the new ones do that find a place there.
TakingPlace == Leaving("pending") \cup Leaving("slot")

Known == Task \ With("absent")

LEMMA SurplusIs ==
  Surplus = count["pending"] -
              (TotalTasks - Cardinality(Known) + Cardinality(With("pending"))
                 + Cardinality(TakingPlace) - Cardinality(Entering("pending")))
BY DEF Surplus, Known, TakingPlace

\* The sets it is compared with.
LEMMA FinitePending ==
  /\ IsFiniteSet(Known) /\ Cardinality(Known) \in Nat
  /\ Cardinality(Known) <= Cardinality(Task) /\ Cardinality(Task) \in Nat
  /\ IsFiniteSet(TakingPlace) /\ Cardinality(TakingPlace) \in Nat
  /\ Cardinality(Leaving("slot")) <= Cardinality(TakingPlace)
<1>1. IsFiniteSet(Known) /\ Cardinality(Known) <= Cardinality(Task)
  BY ProgressAssumption, FS_Subset DEF Known
<1>2. IsFiniteSet(TakingPlace)
  BY FiniteCounts, FS_Union DEF TakingPlace
<1>3. Cardinality(Leaving("slot")) <= Cardinality(TakingPlace)
  BY <1>2, FS_Subset DEF TakingPlace
<1>4. QED BY <1>1, <1>2, <1>3, ProgressAssumption, FS_CardinalityType

\* The surplus is an integer, and no greater than the reported tasks whose first
\* report has been counted.
PendingInv ==
  /\ Surplus \in Nat
  /\ Surplus + Cardinality(Leaving("slot")) <= Cardinality(Known)
  /\ contended = {} /\ Cardinality(Task) <= TotalTasks => Surplus = 0

\* As long as one goroutine at a time is busy with each task, every report that
\* makes a task pending is about a task of its own, which is pending.
LEMMA EnteringIsPending ==
  ASSUME TypeOK, InReport, AllShown, contended = {}
  PROVE  Cardinality(Entering("pending")) <= Cardinality(With("pending"))
<1> DEFINE f == [r \in Entering("pending") |-> r[1]]
<1>1. ASSUME NEW r \in Entering("pending")
      PROVE  /\ r = <<r[1], r[2]>> /\ r[1] \in Task /\ Shown(r[1])
             /\ r[2] \in Busy(r[1])
             /\ from[r[1]][r[2]] # "none"
             /\ Reported[step[r[1]][r[2]]] = "pending"
  <2>1. /\ r = <<r[1], r[2]>> /\ r[1] \in Task /\ r[2] \in Goroutine
        /\ from[r[1]][r[2]] # "none"
        /\ Reported[step[r[1]][r[2]]] = "pending"
    BY DEF Entering
  <2>2. r[2] \in Busy(r[1])
    BY <2>1, BusySteps DEF InReport, Busy
  <2>3. QED BY <2>1, <2>2 DEF AllShown
<1>2. \A r \in Entering("pending") : r[1] \in With("pending")
  BY <1>1 DEF Shown, With
<1>3. \A r, q \in Entering("pending") : r[1] = q[1] => r = q
  BY <1>1 DEF Shown
<1>4. f \in Injection(Entering("pending"), With("pending"))
  BY <1>2, <1>3 DEF Injection, IsInjective
<1>5. QED BY <1>4, FiniteCounts, FS_Injection

\* Nothing that is counted changes.
LEMMA MovesKeepPending ==
  ASSUME TypeOK, NEW t, NEW n, NEW to, Moves(t, n, to)
  PROVE  /\ Surplus' = Surplus /\ Known' = Known
         /\ Leaving("slot")' = Leaving("slot")
<1>1. ASSUME NEW s
      PROVE  /\ With(s)' = With(s)
             /\ Leaving(s)' = Leaving(s)
             /\ Entering(s)' = Entering(s)
  BY DEF Moves, MoveTo, TypeOK, With, Leaving, Entering
<1>2. Known' = Known /\ TakingPlace' = TakingPlace
  BY <1>1 DEF Known, TakingPlace
<1>3. QED BY <1>1, <1>2 DEF Moves, Surplus, Known

\* The section under pa.mu: a task that leaves the pending ones, or is new, is
\* still counted among them by its report.
LEMMA UpdateStatusKeepsPending ==
  ASSUME TypeOK, NEW t \in Task, NEW n \in Goroutine, UpdateStatus(t, n)
  PROVE  /\ Surplus' = Surplus
         /\ Cardinality(Known') - Cardinality(Leaving("slot")')
              = Cardinality(Known) - Cardinality(Leaving("slot"))
         /\ Cardinality(Known') \in Nat
         /\ Cardinality(Leaving("slot")') \in Nat
<1> DEFINE new == Reported[step[t][n]]
           was == Previous(t)
           r == <<t, n>>
<1>1. r \notin TakingPlace /\ (t \in Known <=> was # "slot")
  BY DEF UpdateStatus, Leaving, With, Previous, Status, Known, TakingPlace,
     TypeOK
<1>2. new \in Status
  BY ReportTypes DEF UpdateStatus
<1>3. Known' = Known \cup {t}
  BY <1>2 DEF UpdateStatus, TypeOK, With, Known, Status
<1>4. TakingPlace' = IF was \in {"pending", "slot"} THEN TakingPlace \cup {r}
                     ELSE TakingPlace
  BY DEF UpdateStatus, TypeOK, Leaving, TakingPlace
<1>5. /\ Cardinality(With("pending")') =
           Cardinality(With("pending")) + (IF new = "pending" THEN 1 ELSE 0)
             - (IF was = "pending" THEN 1 ELSE 0)
      /\ Cardinality(Entering("pending")') =
           Cardinality(Entering("pending"))
             + (IF new = "pending" THEN 1 ELSE 0)
  BY UpdateStatusSets DEF Status
<1> HIDE DEF new, was, r
<1>6. Cardinality(Known') = Cardinality(Known) + (IF was = "slot" THEN 1 ELSE 0)
  BY <1>1, <1>3, FinitePending, CardinalityChange
<1>7. Cardinality(TakingPlace') =
        Cardinality(TakingPlace)
          + (IF was \in {"pending", "slot"} THEN 1 ELSE 0)
  BY <1>1, <1>4, FinitePending, CardinalityChange
<1>8. count' = count /\ count["pending"] \in Int
  BY DEF UpdateStatus, TypeOK, Status
<1>9. Surplus' = count'["pending"] -
        (TotalTasks - Cardinality(Known') + Cardinality(With("pending")')
           + Cardinality(TakingPlace') - Cardinality(Entering("pending")'))
  BY DEF Surplus, Known, TakingPlace
<1>10. Surplus' = Surplus
  BY <1>5, <1>6, <1>7, <1>8, <1>9, SurplusIs, FiniteCounts, FinitePending,
     ProgressAssumption
<1>11. Cardinality(Leaving("slot")')
         = Cardinality(Leaving("slot")) + (IF was = "slot" THEN 1 ELSE 0)
  <2>1. r \notin Leaving("slot")
    BY <1>1 DEF TakingPlace
  <2>2. Leaving("slot")' = IF was = "slot" THEN Leaving("slot") \cup {r}
                           ELSE Leaving("slot")
    BY DEF UpdateStatus, TypeOK, Leaving, was, r
  <2>3. QED BY <2>1, <2>2, FiniteCounts, CardinalityChange
<1>12. QED BY <1>6, <1>10, <1>11, FiniteCounts, FinitePending

\* The section under commission.mu: a new task that finds no place left is one too
\* many. While no task is contended it finds one, for its own is still counted.
LEMMA UpdateCountsKeepsPending ==
  ASSUME TypeOK, InReport, AllShown, NEW t \in Task, NEW n \in Goroutine,
         UpdateCounts(t, n), PendingInv
  PROVE  PendingInv'
<1> DEFINE new == Reported[step[t][n]]
           was == from[t][n]
           r == <<t, n>>
<1>1. new \in Status /\ was \in Status \cup {"slot"}
  BY ReportTypes DEF UpdateCounts, InReport, TypeOK
<1>2. r \in TakingPlace <=> was \in {"pending", "slot"}
  BY DEF UpdateCounts, Leaving, TakingPlace
<1>3. /\ With("pending")' = With("pending")
      /\ Known' = Known
      /\ TakingPlace' = TakingPlace \ {r}
      /\ Cardinality(Entering("pending")') =
           Cardinality(Entering("pending"))
             - (IF new = "pending" THEN 1 ELSE 0)
  <2>1. Known' = Known
    BY DEF UpdateCounts, With, Known
  <2>2. TakingPlace' = TakingPlace \ {r}
    BY DEF UpdateCounts, TypeOK, Leaving, TakingPlace
  <2>3. QED BY <2>1, <2>2, UpdateCountsSets DEF Status
<1>4. Cardinality(TakingPlace') =
        Cardinality(TakingPlace)
          - (IF was \in {"pending", "slot"} THEN 1 ELSE 0)
  <2> HIDE DEF was, r
  <2>1. Cardinality(TakingPlace \ {r})
          = Cardinality(TakingPlace) - (IF r \in TakingPlace THEN 1 ELSE 0)
    BY FinitePending, CardinalityChange
  <2>2. QED BY <1>2, <1>3, <2>1
<1>5. /\ Cardinality(Leaving("slot")')
           = Cardinality(Leaving("slot")) - (IF was = "slot" THEN 1 ELSE 0)
      /\ was = "slot" => Cardinality(Leaving("slot")) >= 1
  <2>1. r \in Leaving("slot") <=> was = "slot"
    BY DEF UpdateCounts, Leaving
  <2>2. Leaving("slot")' = Leaving("slot") \ {r}
    BY DEF UpdateCounts, TypeOK, Leaving
  <2> HIDE DEF was, r
  <2>3. /\ Cardinality(Leaving("slot") \ {r})
             = Cardinality(Leaving("slot"))
                 - (IF r \in Leaving("slot") THEN 1 ELSE 0)
        /\ Cardinality(Leaving("slot") \ {r}) \in Nat
    BY FiniteCounts, CardinalityChange, FS_RemoveElement, FS_CardinalityType
  <2>4. QED BY <2>1, <2>2, <2>3, FiniteCounts
<1> DEFINE lacks == was = "slot" /\ ~(count["pending"] > 0)
<1>6. count'["pending"] =
        count["pending"] - (IF was \in {"pending", "slot"} THEN 1 ELSE 0)
          + (IF new = "pending" THEN 1 ELSE 0) + (IF lacks THEN 1 ELSE 0)
  BY <1>1 DEF UpdateCounts, Leaves, TypeOK, Status
<1> HIDE DEF new, was, r
<1>7. count["pending"] \in Int
  BY DEF TypeOK, Status
<1>8. Surplus' = count'["pending"] -
        (TotalTasks - Cardinality(Known') + Cardinality(With("pending")')
           + Cardinality(TakingPlace') - Cardinality(Entering("pending")'))
  BY DEF Surplus, Known, TakingPlace
<1>9. Surplus' = Surplus + (IF lacks THEN 1 ELSE 0)
  <2> HIDE DEF lacks
  <2> QED BY <1>3, <1>4, <1>6, <1>7, <1>8, SurplusIs, FiniteCounts,
             FinitePending, ProgressAssumption
<1>10. contended = {} /\ Cardinality(Task) <= TotalTasks => ~lacks
  <2>1. SUFFICES ASSUME contended = {}, Cardinality(Task) <= TotalTasks,
                        was = "slot"
                 PROVE  count["pending"] > 0
    BY DEF lacks
  <2>2. Cardinality(TakingPlace) >= 1
    BY <1>5, <2>1, FinitePending, FiniteCounts
  <2>3. Cardinality(Entering("pending")) <= Cardinality(With("pending"))
    BY <2>1, EnteringIsPending
  <2>4. Surplus = 0
    BY <2>1 DEF PendingInv
  <2>5. QED
    BY <1>7, <2>1, <2>2, <2>3, <2>4, SurplusIs, FinitePending, FiniteCounts,
       ProgressAssumption
<1>11. contended' = contended /\ Known' = Known
  BY <1>3 DEF UpdateCounts
<1>12. lacks => was = "slot"
  BY DEF lacks
<1> HIDE DEF lacks
<1>13. Surplus' \in Nat
  BY <1>9 DEF PendingInv
<1>14. Surplus' + Cardinality(Leaving("slot")') <= Cardinality(Known')
  BY <1>5, <1>9, <1>11, <1>12, FiniteCounts, FinitePending DEF PendingInv
<1>15. QED BY <1>9, <1>10, <1>11, <1>13, <1>14 DEF PendingInv

\* For any number of tasks, attempts and resubmissions, and in whatever order the
\* reports come, the tasks counted as pending are never too few, and at most one
\* too many for each task reported. As long as no task is reported by two
\* goroutines at a time, every new task finds its place.
THEOREM PendingCorrect == Spec => []PendingAgrees
<1>1. Init => PendingInv
  <2> SUFFICES ASSUME Init PROVE PendingInv
    OBVIOUS
  <2>1. /\ Known = {} /\ With("pending") = {} /\ TakingPlace = {}
        /\ Entering("pending") = {} /\ Leaving("slot") = {}
    BY DEF Init, With, Leaving, Entering, Known, TakingPlace
  <2>2. count["pending"] = TotalTasks
    BY DEF Init, Status
  <2>3. Surplus = 0
    BY <2>1, <2>2, SurplusIs, FS_EmptySet, ProgressAssumption
  <2>4. QED BY <2>1, <2>3, FS_EmptySet DEF PendingInv
<1>2. TypeOK /\ InReport /\ AllShown /\ PendingInv /\ [Next]_vars => PendingInv'
  <2> SUFFICES ASSUME TypeOK, InReport, AllShown, PendingInv, [Next]_vars
               PROVE  PendingInv'
    OBVIOUS
  <2>1. contended' = {} => contended = {}
    BY DEF Next, vars, SubmitTask, StartTaskExecution, ExecuteTask,
       HandleTaskError, UpdateStatus, UpdateCounts, Joins
  <2>2. CASE UNCHANGED vars
    <3>1. Surplus' = Surplus /\ Known' = Known /\ Leaving("slot")' = Leaving("slot")
      BY <2>2 DEF vars, Surplus, Known, With, Leaving, Entering
    <3>2. QED BY <2>1, <3>1 DEF PendingInv
  <2>3. CASE \E t \in Task :
               \/ SubmitTask(t)
               \/ \E n \in Goroutine :
                    \/ StartTaskExecution(t, n)
                    \/ ExecuteTask(t, n)
                    \/ HandleTaskError(t, n)
    <3>1. Surplus' = Surplus /\ Known' = Known /\ Leaving("slot")' = Leaving("slot")
      BY <2>3, SchedulerMoves, MovesKeepPending
    <3>2. QED BY <2>1, <3>1 DEF PendingInv
  <2>4. ASSUME NEW t \in Task, NEW n \in Goroutine, UpdateStatus(t, n)
        PROVE  PendingInv'
    <3>1. /\ Surplus' = Surplus
          /\ Cardinality(Known') - Cardinality(Leaving("slot")')
               = Cardinality(Known) - Cardinality(Leaving("slot"))
          /\ Cardinality(Known') \in Nat
          /\ Cardinality(Leaving("slot")') \in Nat
      BY <2>4, UpdateStatusKeepsPending
    <3>2. QED BY <2>1, <3>1, FinitePending, FiniteCounts DEF PendingInv
  <2>5. ASSUME NEW t \in Task, NEW n \in Goroutine, UpdateCounts(t, n)
        PROVE  PendingInv'
    BY <2>5, UpdateCountsKeepsPending
  <2>6. QED BY <2>2, <2>3, <2>4, <2>5 DEF Next
<1>3. PendingInv => PendingAgrees
  <2> SUFFICES ASSUME PendingInv PROVE PendingAgrees
    OBVIOUS
  <2>1. Surplus \in 0 .. Cardinality(Known)
    BY FinitePending, FiniteCounts DEF PendingInv
  <2>2. QED BY <2>1 DEF PendingInv, PendingAgrees, Known
<1>4. QED BY <1>1, <1>2, <1>3, TypeCorrect, ShownHolds, PTL DEF Spec
=============================================================================
