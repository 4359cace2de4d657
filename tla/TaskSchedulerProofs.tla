------------------------- MODULE TaskSchedulerProofs -------------------------
(* What holds of the task scheduler for every set of tasks and agents, every  *)
(* dependency graph and configuration, and every bound on the environment.    *)
EXTENDS TaskScheduler, SequenceTheorems, FiniteSetTheorems, TLAPS

-------------------------------------------------------------------------------
(* Type correctness *)

\* The configuration as the lemmas use it.
LEMMA Constants ==
  /\ NoTask \notin Task /\ NoAgent \notin Agent
  /\ MaxTaskRetries \in Nat /\ ResultCap \in Nat \ {0}
  /\ MaxAttempts \in Nat \ {0}
  /\ Outcomes \subseteq {"ok", "retryable", "fatal"}
  /\ Limit \in [EnvironmentStep -> Nat]
  /\ Deps \in [Task -> SUBSET Task]
BY NullsAssumption, DepsAssumption, ConfigAssumption, BoundsAssumption

\* Spending one step of the environment keeps the counters counters.
LEMMA SpendType ==
  ASSUME used \in [EnvironmentStep -> Nat],
         NEW k \in EnvironmentStep, Spend(k)
  PROVE  /\ used' \in [EnvironmentStep -> Nat]
         /\ used'[k] = used[k] + 1
         /\ \A j \in EnvironmentStep \ {k} : used'[j] = used[j]
BY DEF Spend

\* An attempt that moves from one place in executeTask to another.
LEMMA MoveToType ==
  ASSUME pc \in [Task -> [Attempt -> PC]],
         NEW t \in Task, NEW n \in Attempt, NEW to \in PC, MoveTo(t, n, to)
  PROVE  /\ pc' \in [Task -> [Attempt -> PC]]
         /\ pc'[t][n] = to
         /\ \A u \in Task, m \in Attempt :
              u # t \/ m # n => pc'[u][m] = pc[u][m]
BY DEF MoveTo

\* The denominator of an error rate stays positive.
LEMMA PositiveProduct ==
  ASSUME NEW x \in Nat \ {0}, NEW y \in Nat \ {0}
  PROVE  x * y \in Nat \ {0}
BY SMT

\* The board's row and the fault counter after a status update.
LEMMA UpdateKanbanType ==
  ASSUME used \in [EnvironmentStep -> Nat], kanban \in [Task -> KanbanTask],
         NEW t \in Task, NEW status \in {"done", "blocked"},
         UpdateKanban(t, status)
  PROVE  /\ used' \in [EnvironmentStep -> Nat]
         /\ used'["unassign"] = used["unassign"]
         /\ kanban' \in [Task -> KanbanTask]
         /\ \A u \in Task : kanban'[u].assignee = kanban[u].assignee
<1>1. used' \in [EnvironmentStep -> Nat] /\ used'["unassign"] = used["unassign"]
  BY SpendType DEF UpdateKanban, EnvironmentStep
<1>2. /\ kanban' \in [Task -> KanbanTask]
      /\ \A u \in Task : kanban'[u].assignee = kanban[u].assignee
  BY DEF UpdateKanban, KanbanTask
<1>3. QED BY <1>1, <1>2

\* Releasing an agent, marking it busy and making it unknown give AgentInfo.
LEMMA AgentsType ==
  ASSUME agents \in [Agent -> AgentInfo]
  PROVE  /\ Absent \in AgentInfo
         /\ \A a, t : t \in Task \cup {NoTask} =>
              MarkBusy(a, t) \in [Agent -> AgentInfo]
         /\ \A a : \A ok \in BOOLEAN : Release(a, ok) \in [Agent -> AgentInfo]
<1>1. Absent \in AgentInfo
  BY DEF Absent, AgentInfo
<1>2. ASSUME NEW a, NEW t \in Task \cup {NoTask}
      PROVE  MarkBusy(a, t) \in [Agent -> AgentInfo]
  <2>1. CASE a \in Agent
    <3>1. [agents[a] EXCEPT !.available = FALSE, !.current = t] \in AgentInfo
      BY <1>2, <2>1 DEF AgentInfo
    <3>2. QED BY <2>1, <3>1 DEF MarkBusy
  <2>2. CASE a \notin Agent
    BY <2>2 DEF MarkBusy
  <2>3. QED BY <2>1, <2>2
<1>3. ASSUME NEW a, NEW ok \in BOOLEAN
      PROVE  Release(a, ok) \in [Agent -> AgentInfo]
  <2>1. CASE ~CtxAlive \/ a = NoAgent \/ ~agents[a].present
    BY <2>1 DEF Release
  <2>2. CASE ~(~CtxAlive \/ a = NoAgent \/ ~agents[a].present) /\ a \notin Agent
    BY <2>2 DEF Release
  <2>3. CASE ~(~CtxAlive \/ a = NoAgent \/ ~agents[a].present) /\ a \in Agent
    <3> DEFINE i == agents[a]
               h == i.handled + 1
               r == [i EXCEPT !.available = TRUE, !.current = NoTask,
                              !.handled = h,
                              !.errNum = IF ok THEN @
                                         ELSE @ * i.handled + i.errDen,
                              !.errDen = IF ok THEN @ ELSE @ * h]
    <3>1. i \in AgentInfo
      BY <2>3
    <3>2. /\ i.handled \in Nat /\ i.errNum \in Nat /\ i.errDen \in Nat \ {0}
          /\ i.present \in BOOLEAN
      BY <3>1 DEF AgentInfo
    <3>3. h \in Nat \ {0}
      BY <3>2
    <3>4. i.errNum * i.handled + i.errDen \in Nat /\ i.errDen * h \in Nat \ {0}
      BY <3>2, <3>3, PositiveProduct, SMT
    <3>5. r \in AgentInfo
      BY <3>1, <3>2, <3>3, <3>4 DEF AgentInfo
    <3>6. Release(a, ok) = [agents EXCEPT ![a] = r]
      BY <2>3 DEF Release
    <3>7. QED BY <3>5, <3>6
  <2>4. QED BY <2>1, <2>2, <2>3
<1>4. QED BY <1>1, <1>2, <1>3

\* Taking an entry out of the dead letter queue leaves the others.
LEMMA RemovedAtType ==
  ASSUME NEW S, dlq \in Seq(S), NEW i \in DOMAIN dlq
  PROVE  /\ dlq[i] \in S
         /\ RemovedAt(i) \in Seq(S)
         /\ \A j \in DOMAIN dlq : j # i =>
              \E k \in DOMAIN RemovedAt(i) : RemovedAt(i)[k] = dlq[j]
<1> DEFINE front == SubSeq(dlq, 1, i - 1)
           back == SubSeq(dlq, i + 1, Len(dlq))
<1>1. i \in 1 .. Len(dlq) /\ Len(dlq) \in Nat /\ DOMAIN dlq = 1 .. Len(dlq)
  OBVIOUS
<1>2. /\ front \in Seq(S) /\ Len(front) = i - 1
      /\ \A k \in 1 .. i - 1 : front[k] = dlq[k]
  BY <1>1, SubSeqProperties
<1>3. /\ back \in Seq(S) /\ Len(back) = Len(dlq) - i
      /\ \A k \in 1 .. Len(dlq) - i : back[k] = dlq[i + k]
  <2>1. \A k \in i + 1 .. Len(dlq) : dlq[k] \in S
    BY <1>1
  <2>2. /\ back \in Seq(S)
        /\ Len(back) = IF i + 1 <= Len(dlq) THEN Len(dlq) - (i + 1) + 1 ELSE 0
        /\ \A k \in 1 .. Len(dlq) - (i + 1) + 1 : back[k] = dlq[(i + 1) + k - 1]
    BY <1>1, <2>1, SubSeqProperties
  <2>3. Len(back) = Len(dlq) - i
    BY <1>1, <2>2
  <2>4. ASSUME NEW k \in 1 .. Len(dlq) - i PROVE back[k] = dlq[i + k]
    <3>1. Len(dlq) - (i + 1) + 1 = Len(dlq) - i /\ (i + 1) + k - 1 = i + k
      BY <1>1
    <3>2. QED BY <2>2, <3>1
  <2>5. QED BY <2>2, <2>3, <2>4
<1> HIDE DEF front, back
<1>4. RemovedAt(i) = front \o back
  BY DEF RemovedAt, front, back
<1>5. /\ front \o back \in Seq(S)
      /\ Len(front \o back) = Len(front) + Len(back)
      /\ \A k \in 1 .. Len(front) + Len(back) :
           (front \o back)[k] = IF k <= Len(front) THEN front[k]
                                ELSE back[k - Len(front)]
  BY <1>2, <1>3, ConcatProperties
<1>6. /\ RemovedAt(i) \in Seq(S)
      /\ DOMAIN RemovedAt(i) = 1 .. Len(dlq) - 1
      /\ \A k \in 1 .. Len(dlq) - 1 :
           RemovedAt(i)[k] = IF k <= i - 1 THEN dlq[k] ELSE dlq[k + 1]
  <2>1. /\ RemovedAt(i) \in Seq(S) /\ Len(RemovedAt(i)) = Len(dlq) - 1
        /\ DOMAIN RemovedAt(i) = 1 .. Len(dlq) - 1
    <3>1. RemovedAt(i) \in Seq(S)
      BY <1>4, <1>5
    <3>2. Len(RemovedAt(i)) = Len(dlq) - 1
      <4>1. Len(front) + Len(back) = Len(dlq) - 1
        BY <1>1, <1>2, <1>3
      <4>2. QED BY <1>4, <1>5, <4>1
    <3> HIDE DEF RemovedAt
    <3>3. DOMAIN RemovedAt(i) = 1 .. Len(RemovedAt(i))
      BY <3>1
    <3>4. QED BY <3>1, <3>2, <3>3
  <2>2. ASSUME NEW k \in 1 .. Len(dlq) - 1
        PROVE  RemovedAt(i)[k] = IF k <= i - 1 THEN dlq[k] ELSE dlq[k + 1]
    <3>1. CASE k <= i - 1
      BY <1>4, <1>1, <1>2, <1>3, <1>5, <3>1
    <3>2. CASE ~(k <= i - 1)
      <4>1. /\ k - (i - 1) \in 1 .. Len(dlq) - i
            /\ i + (k - (i - 1)) = k + 1
        BY <1>1, <3>2
      <4>2. RemovedAt(i)[k] = back[k - (i - 1)]
        <5>1. k \in 1 .. Len(front) + Len(back) /\ Len(front) = i - 1
          BY <1>1, <1>2, <1>3
        <5>2. QED BY <1>4, <1>5, <3>2, <5>1
      <4>3. back[k - (i - 1)] = dlq[i + (k - (i - 1))]
        BY <1>3, <4>1
      <4>4. QED BY <3>2, <4>1, <4>2, <4>3
    <3>3. QED BY <3>1, <3>2
  <2>3. QED BY <2>1, <2>2
<1>7. ASSUME NEW j \in DOMAIN dlq, j # i
      PROVE  \E k \in DOMAIN RemovedAt(i) : RemovedAt(i)[k] = dlq[j]
  <2>1. CASE j < i
    <3>1. j \in 1 .. Len(dlq) - 1 /\ j <= i - 1
      BY <1>1, <2>1
    <3>2. QED BY <1>6, <3>1
  <2>2. CASE j > i
    <3>1. j - 1 \in 1 .. Len(dlq) - 1 /\ ~(j - 1 <= i - 1) /\ (j - 1) + 1 = j
      BY <1>1, <2>2
    <3>2. QED BY <1>6, <3>1
  <2>3. QED BY <1>1, <1>7, <2>1, <2>2
<1>8. QED BY <1>1, <1>6, <1>7

\* Every variable keeps its type, whatever happens.
THEOREM TypeCorrect == Spec => []TypeOK
<1>1. Init => TypeOK
  BY Constants DEF Init, TypeOK, Life, PC, AgentInfo, Absent, KanbanTask,
     SchedState, SchedIdle, Attempt, EnvironmentStep
<1>2. TypeOK /\ [Next]_vars => TypeOK'
  <2> SUFFICES ASSUME TypeOK, [Next]_vars
               PROVE  TypeOK'
    OBVIOUS
  <2>1. CASE UNCHANGED vars
    BY <2>1 DEF TypeOK, vars
  <2>2. ASSUME NEW t \in Task, SubmitTask(t)
        PROVE  TypeOK'
    BY <2>2, SpendType DEF SubmitTask, TypeOK, EnvironmentStep
  <2>3. ASSUME NEW i \in DOMAIN dlq, ResubmitDeadLetterTask(i)
        PROVE  TypeOK'
    <3>1. dlq[i] \in Task /\ RemovedAt(i) \in Seq(Task)
      BY <2>3, RemovedAtType DEF TypeOK
    <3>2. QED BY <2>3, <3>1, SpendType DEF ResubmitDeadLetterTask, TypeOK,
       EnvironmentStep
  <2>37. ASSUME NEW i \in DOMAIN dlq, ResubmitRefused(i)
         PROVE  TypeOK'
    <3>1. RemovedAt(i) \in Seq(Task)
      BY <2>37, RemovedAtType DEF TypeOK
    <3>2. QED BY <2>37, <3>1, SpendType DEF ResubmitRefused, TypeOK,
       EnvironmentStep
  <2>4. ASSUME NEW a \in Agent, RegisterAgent(a)
        PROVE  TypeOK'
    BY <2>4, SpendType, AgentsType DEF RegisterAgent, TypeOK,
       EnvironmentStep, AgentInfo
  <2>5. ASSUME NEW a \in Agent, UnregisterAgent(a)
        PROVE  TypeOK'
    BY <2>5, SpendType, AgentsType DEF UnregisterAgent, TypeOK,
       EnvironmentStep
  <2>6. ASSUME ReadResult
        PROVE  TypeOK'
    BY <2>6, Constants DEF ReadResult, TypeOK
  <2>7. ASSUME NEW t \in Task, KanbanUnassign(t)
        PROVE  TypeOK'
    <3>1. kanban' \in [Task -> KanbanTask]
      BY <2>7 DEF KanbanUnassign, TypeOK, KanbanTask
    <3>2. QED BY <2>7, <3>1, SpendType DEF KanbanUnassign, TypeOK,
       EnvironmentStep
  <2>8. ASSUME NEW tracked \in BOOLEAN, ScheduleNext(tracked)
        PROVE  TypeOK'
    <3>1. ReadyTasks \in SUBSET Task
      BY DEF ReadyTasks, TypeOK
    <3>2. sched' \in SchedState
      BY <2>8, <3>1 DEF ScheduleNext, SchedIdle, SchedState
    <3>3. kicks' \in Nat
      BY <2>8 DEF ScheduleNext, TypeOK
    <3>4. QED
      BY <2>8, <3>2, <3>3 DEF ScheduleNext, TypeOK
  <2>9. ASSUME ScheduleNothing
        PROVE  TypeOK'
    BY <2>9 DEF ScheduleNothing, TypeOK
  <2>10. ASSUME NEW t \in Task, RequestTaskAssignment(t)
        PROVE  TypeOK'
    <3>1. PICK a \in AvailableAgents :
            sched' = [sched EXCEPT !.at = "assign", !.todo = @ \ {t},
                                   !.task = t, !.agent = a]
      BY <2>10 DEF RequestTaskAssignment
    <3>2. a \in Agent
      BY DEF AvailableAgents
    <3>3. sched' \in SchedState
      BY <3>1, <3>2 DEF TypeOK, SchedState
    <3>4. QED
      BY <2>10, <3>3 DEF RequestTaskAssignment, TypeOK
  <2>11. ASSUME NEW t \in Task, RequestFails(t)
        PROVE  TypeOK'
    BY <2>11, SpendType DEF RequestFails, TypeOK, EnvironmentStep,
       SchedState
  <2>12. ASSUME ScheduleDone
        PROVE  TypeOK'
    BY <2>12 DEF ScheduleDone, TypeOK, SchedIdle, SchedState
  <2>13. ASSUME AssignTask
        PROVE  TypeOK'
    BY <2>13, AgentsType DEF AssignTask, TypeOK, SchedState, KanbanTask
  <2>14. ASSUME AssignConflict
        PROVE  TypeOK'
    BY <2>14 DEF AssignConflict, TypeOK, Continue, SchedState
  <2>15. ASSUME AssignFault
        PROVE  TypeOK'
    <3>1. sched' \in SchedState
      BY <2>15 DEF AssignFault, Continue, SchedState, TypeOK
    <3>2. agents' \in [Agent -> AgentInfo]
      BY <2>15, AgentsType DEF AssignFault, SchedState, TypeOK
    <3>3. used' \in [EnvironmentStep -> Nat]
      BY <2>15, SpendType DEF AssignFault, TypeOK, EnvironmentStep
    <3>4. QED
      BY <2>15, <3>1, <3>2, <3>3 DEF AssignFault, TypeOK
  <2>16. ASSUME NEW n \in Attempt, StartTaskExecution(n)
        PROVE  TypeOK'
    <3>1. sched' \in SchedState
      <4>1. sched' = SchedIdle \/ Continue
        BY <2>16 DEF StartTaskExecution
      <4>2. CASE sched' = SchedIdle
        BY <4>2 DEF SchedIdle, SchedState
      <4>3. CASE Continue
        BY <4>3 DEF Continue, SchedState, TypeOK
      <4>4. QED BY <4>1, <4>2, <4>3
    <3>2. pc' \in [Task -> [Attempt -> PC]]
      BY <2>16 DEF StartTaskExecution, MoveTo, TypeOK, PC
    <3>3. taskAgent' \in [Task -> Agent \cup {NoAgent}]
      BY <2>16 DEF StartTaskExecution, TypeOK, SchedState
    <3>4. running' \in [Task -> 0 .. MaxAttempts]
      <4>1. running' = [running EXCEPT ![sched.task] = n]
        BY <2>16 DEF StartTaskExecution
      <4>2. n \in 0 .. MaxAttempts
        BY <2>16, Constants DEF Attempt
      <4>3. QED BY <4>1, <4>2 DEF TypeOK
    <3>5. queue' \in SUBSET Task
      BY <2>16 DEF StartTaskExecution, TypeOK
    <3>6. QED
      BY <2>16, <3>1, <3>2, <3>3, <3>4, <3>5 DEF StartTaskExecution, TypeOK
  <2>17. ASSUME ExecutorMissing
        PROVE  TypeOK'
    BY <2>17 DEF ExecutorMissing, TypeOK, Continue, SchedState
  <2>18. ASSUME NEW t \in Task, NEW n \in Attempt, ExecuteTask(t, n)
        PROVE  TypeOK'
    BY <2>18, MoveToType DEF ExecuteTask, TypeOK, PC
  <2>19. ASSUME NEW t \in Task, NEW n \in Attempt, NEW outcome \in Outcomes, ExecuteReturns(t, n, outcome)
        PROVE  TypeOK'
    BY <2>19, MoveToType, Constants DEF ExecuteReturns, TypeOK, PC
  <2>20. ASSUME NEW t \in Task, NEW n \in Attempt, MarkComplete(t, n)
        PROVE  TypeOK'
    BY <2>20, MoveToType DEF MarkComplete, TypeOK, PC
  <2>21. ASSUME NEW t \in Task, NEW n \in Attempt, HandleTaskSuccess(t, n)
        PROVE  TypeOK'
    BY <2>21, MoveToType, UpdateKanbanType DEF HandleTaskSuccess, TypeOK, PC
  <2>22. ASSUME NEW t \in Task, NEW n \in Attempt, HandleFailedTask(t, n)
        PROVE  TypeOK'
    <3>1. MoveTo(t, n, "block") \/ MoveTo(t, n, "requeue")
      BY <2>22 DEF HandleFailedTask
    <3>2. pc' \in [Task -> [Attempt -> PC]]
      BY <3>1, MoveToType DEF TypeOK, PC
    <3>3. dlq' \in Seq(Task)
      <4>1. dlq' = dlq \/ dlq' = Append(dlq, t)
        BY <2>22 DEF HandleFailedTask
      <4>2. dlq \in Seq(Task)
        BY DEF TypeOK
      <4>3. Append(dlq, t) \in Seq(Task)
        BY <4>2, AppendProperties
      <4>4. QED BY <4>1, <4>2, <4>3
    <3>4. QED
      BY <2>22, <3>2, <3>3 DEF HandleFailedTask, TypeOK
  <2>23. ASSUME NEW t \in Task, NEW n \in Attempt, Requeue(t, n)
        PROVE  TypeOK'
    BY <2>23, MoveToType DEF Requeue, TypeOK, PC
  <2>24. ASSUME NEW t \in Task, NEW n \in Attempt, MarkFailed(t, n)
        PROVE  TypeOK'
    BY <2>24, MoveToType DEF MarkFailed, TypeOK, PC
  <2>38. ASSUME NEW t \in Task, NEW n \in Attempt, BlockTask(t, n)
         PROVE  TypeOK'
    BY <2>38, MoveToType, UpdateKanbanType DEF BlockTask, TypeOK, PC
  <2>25. ASSUME NEW t \in Task, NEW n \in Attempt, ReleaseFailed(t, n)
        PROVE  TypeOK'
    BY <2>25, MoveToType, AgentsType DEF ReleaseFailed, TypeOK, PC
  <2>26. ASSUME NEW t \in Task, NEW n \in Attempt, SendResult(t, n)
        PROVE  TypeOK'
    BY <2>26, MoveToType, Constants DEF SendResult, TypeOK, RoomForResult,
       PC
  <2>27. ASSUME NEW t \in Task, NEW n \in Attempt, DeleteRunning(t, n)
        PROVE  TypeOK'
    BY <2>27, MoveToType, Constants DEF DeleteRunning, TypeOK, PC
  <2>28. ASSUME NEW t \in Task, NEW n \in Attempt, ReleaseDeferred(t, n)
        PROVE  TypeOK'
    BY <2>28, MoveToType, AgentsType DEF ReleaseDeferred, TypeOK, PC
  <2>29. ASSUME NEW t \in Task, NEW n \in Attempt, ContextExpires(t, n)
        PROVE  TypeOK'
    BY <2>29, MoveToType, SpendType DEF ContextExpires, TypeOK,
       EnvironmentStep, PC
  <2>30. ASSUME Start
        PROVE  TypeOK'
    BY <2>30 DEF Start, TypeOK, Life
  <2>31. ASSUME StopTasks
        PROVE  TypeOK'
    BY <2>31, SpendType DEF StopTasks, TypeOK, EnvironmentStep, Life, PC
  <2>32. ASSUME StopCancel
        PROVE  TypeOK'
    BY <2>32 DEF StopCancel, TypeOK, Life
  <2>33. ASSUME StopReturns
        PROVE  TypeOK'
    BY <2>33 DEF StopReturns, TypeOK, Life
  <2>34. ASSUME StopTimesOut
        PROVE  TypeOK'
    BY <2>34, SpendType DEF StopTimesOut, TypeOK, EnvironmentStep, Life
  <2>35. ASSUME Crash
        PROVE  TypeOK'
    <3>1. sched' \in SchedState
      BY <2>35 DEF Crash, SchedState, SchedIdle
    <3>2. pc' \in [Task -> [Attempt -> PC]]
      BY <2>35 DEF Crash, PC
    <3>3. agents' \in [Agent -> AgentInfo]
      BY <2>35, AgentsType DEF Crash, TypeOK
    <3>4. used' \in [EnvironmentStep -> Nat]
      BY <2>35, SpendType DEF Crash, TypeOK, EnvironmentStep
    <3>5. life' \in Life /\ results' \in 0 .. ResultCap
      BY <2>35, Constants DEF Crash, Life
    <3>6. running' \in [Task -> 0 .. MaxAttempts]
      BY <2>35, Constants DEF Crash
    <3>7. QED
      BY <2>35, <3>1, <3>2, <3>3, <3>4, <3>5, <3>6 DEF Crash, TypeOK
  <2>36. QED
    BY <2>1, <2>2, <2>3, <2>4, <2>5, <2>6, <2>7, <2>8, <2>9, <2>10, <2>11,
       <2>12, <2>13, <2>14, <2>15, <2>16, <2>17, <2>18, <2>19, <2>20, <2>21,
       <2>22, <2>23, <2>24, <2>25, <2>26, <2>27, <2>28, <2>29, <2>30, <2>31,
       <2>32, <2>33, <2>34, <2>35, <2>37, <2>38 DEF Next, Client, Scheduling,
       Execution, Lifecycle
<1>3. QED
  BY <1>1, <1>2, PTL DEF Spec

-------------------------------------------------------------------------------
(* What each step may change, one variable at a time *)

\* The environment's counters never go back.
LEMMA UsedGrows ==
  ASSUME TypeOK, [Next]_vars, NEW j \in EnvironmentStep
  PROVE  used[j] \in Nat /\ used'[j] \in Nat /\ used[j] <= used'[j]
<1>1. used' = used \/ \E k \in EnvironmentStep : Spend(k)
  <2>1. CASE UNCHANGED vars
    BY <2>1 DEF vars
  <2>2. CASE Client
    BY <2>2 DEF Client, SubmitTask, ResubmitDeadLetterTask, ResubmitRefused, RegisterAgent,
       UnregisterAgent, ReadResult, KanbanUnassign, EnvironmentStep
  <2>3. CASE Scheduling
    BY <2>3 DEF Scheduling, ScheduleNext, ScheduleNothing,
       RequestTaskAssignment, RequestFails, ScheduleDone, AssignTask,
       AssignConflict, AssignFault, StartTaskExecution, ExecutorMissing,
       EnvironmentStep
  <2>4. ASSUME NEW t \in Task, NEW n \in Attempt,
               Execution(t, n) \/ ContextExpires(t, n)
        PROVE  used' = used \/ \E k \in EnvironmentStep : Spend(k)
    BY <2>4 DEF Execution, ContextExpires, ExecuteTask, ExecuteReturns,
       MarkComplete, HandleTaskSuccess, HandleFailedTask, Requeue, MarkFailed, BlockTask,
       ReleaseFailed, SendResult, DeleteRunning, ReleaseDeferred,
       UpdateKanban, EnvironmentStep
  <2>5. CASE Lifecycle
    BY <2>5 DEF Lifecycle, Start, StopTasks, StopCancel, StopReturns,
       StopTimesOut, Crash, EnvironmentStep
  <2>6. QED BY <2>1, <2>2, <2>3, <2>4, <2>5 DEF Next
<1>2. used[j] \in Nat
  BY DEF TypeOK
<1>3. CASE used' = used
  BY <1>2, <1>3
<1>4. ASSUME NEW k \in EnvironmentStep, Spend(k)
      PROVE  used'[j] = used[j] \/ used'[j] = used[j] + 1
  <2>1. /\ used'[k] = used[k] + 1
        /\ \A i \in EnvironmentStep \ {k} : used'[i] = used[i]
    BY <1>4, SpendType DEF TypeOK
  <2>2. QED BY <2>1
<1>5. QED BY <1>1, <1>2, <1>3, <1>4

\* While a step leaves no assignee cleared, none was before it.
LEMMA NoneCleared ==
  ASSUME TypeOK, [Next]_vars, used'["unassign"] = 0
  PROVE  used["unassign"] = 0
<1>1. "unassign" \in EnvironmentStep
  BY DEF EnvironmentStep
<1>2. QED BY <1>1, UsedGrows

\* Where an attempt is changes only by its own steps, by its start, or by the
\* step that cancels, or kills, every attempt.
LEMMA PcChanges ==
  ASSUME TypeOK, [Next]_vars, NEW t \in Task, NEW n \in Attempt,
         pc'[t][n] # pc[t][n]
  PROVE  \/ StartTaskExecution(n) /\ t = sched.task
         \/ Execution(t, n)
         \/ ContextExpires(t, n)
         \/ StopTasks
         \/ Crash
<1>1. CASE UNCHANGED vars
  BY <1>1 DEF vars
<1>2. CASE Client
  BY <1>2 DEF Client, SubmitTask, ResubmitDeadLetterTask, ResubmitRefused, RegisterAgent,
     UnregisterAgent, ReadResult, KanbanUnassign
<1>3. CASE Scheduling
  <2>1. PICK m \in Attempt : StartTaskExecution(m)
    BY <1>3 DEF Scheduling, ScheduleNext, ScheduleNothing,
       RequestTaskAssignment, RequestFails, ScheduleDone, AssignTask,
       AssignConflict, AssignFault, ExecutorMissing
  <2>2. t = sched.task /\ n = m
    BY <2>1 DEF StartTaskExecution, MoveTo, TypeOK
  <2>3. QED BY <2>1, <2>2
<1>4. ASSUME NEW u \in Task, NEW m \in Attempt,
             Execution(u, m) \/ ContextExpires(u, m)
      PROVE  Execution(t, n) \/ ContextExpires(t, n)
  <2>1. \E to : MoveTo(u, m, to)
    BY <1>4 DEF Execution, ContextExpires, ExecuteTask, ExecuteReturns,
       MarkComplete, HandleTaskSuccess, HandleFailedTask, Requeue, MarkFailed, BlockTask,
       ReleaseFailed, SendResult, DeleteRunning, ReleaseDeferred
  <2>2. t = u /\ n = m
    BY <2>1 DEF MoveTo, TypeOK
  <2>3. QED BY <1>4, <2>2
<1>5. CASE Lifecycle
  BY <1>5 DEF Lifecycle, Start, StopCancel, StopReturns, StopTimesOut
<1>6. QED BY <1>1, <1>2, <1>3, <1>4, <1>5 DEF Next

\* Only an attempt at the task, or the end of the process, changes what the
\* dependency graph says of it.
LEMMA DepStatusChanges ==
  ASSUME TypeOK, [Next]_vars, NEW t \in Task, depStatus'[t] # depStatus[t]
  PROVE  \/ \E n \in Attempt : MarkComplete(t, n) \/ MarkFailed(t, n)
         \/ Crash
<1>1. CASE UNCHANGED vars
  BY <1>1 DEF vars
<1>2. CASE Client
  BY <1>2 DEF Client, SubmitTask, ResubmitDeadLetterTask, ResubmitRefused, RegisterAgent,
     UnregisterAgent, ReadResult, KanbanUnassign
<1>3. CASE Scheduling
  BY <1>3 DEF Scheduling, ScheduleNext, ScheduleNothing,
     RequestTaskAssignment, RequestFails, ScheduleDone, AssignTask,
     AssignConflict, AssignFault, StartTaskExecution, ExecutorMissing
<1>4. ASSUME NEW u \in Task, NEW m \in Attempt,
             Execution(u, m) \/ ContextExpires(u, m)
      PROVE  MarkComplete(t, m) \/ MarkFailed(t, m)
  <2>1. MarkComplete(u, m) \/ MarkFailed(u, m)
    BY <1>4 DEF Execution, ContextExpires, ExecuteTask, ExecuteReturns,
       HandleTaskSuccess, HandleFailedTask, Requeue, BlockTask,
       ReleaseFailed, SendResult, DeleteRunning, ReleaseDeferred
  <2>2. t = u
    BY <2>1 DEF MarkComplete, MarkFailed, TypeOK
  <2>3. QED BY <2>1, <2>2
<1>5. CASE Lifecycle
  BY <1>5 DEF Lifecycle, Start, StopTasks, StopCancel, StopReturns,
     StopTimesOut
<1>6. QED BY <1>1, <1>2, <1>3, <1>4, <1>5 DEF Next

\* An entry of runningTasks is written by startTaskExecution, deleted by the
\* cleanup of an attempt at the task, and lost with the process.
LEMMA RunningChanges ==
  ASSUME TypeOK, [Next]_vars, NEW t \in Task, running'[t] # running[t]
  PROVE  \/ sched.at = "start" /\ t = sched.task
              /\ \E n \in Attempt : StartTaskExecution(n)
         \/ \E n \in Attempt : DeleteRunning(t, n)
         \/ Crash
<1>1. CASE UNCHANGED vars
  BY <1>1 DEF vars
<1>2. CASE Client
  BY <1>2 DEF Client, SubmitTask, ResubmitDeadLetterTask, ResubmitRefused, RegisterAgent,
     UnregisterAgent, ReadResult, KanbanUnassign
<1>3. CASE Scheduling
  <2>1. PICK m \in Attempt : StartTaskExecution(m)
    BY <1>3 DEF Scheduling, ScheduleNext, ScheduleNothing,
       RequestTaskAssignment, RequestFails, ScheduleDone, AssignTask,
       AssignConflict, AssignFault, ExecutorMissing
  <2>2. QED BY <2>1 DEF StartTaskExecution, TypeOK
<1>4. ASSUME NEW u \in Task, NEW m \in Attempt,
             Execution(u, m) \/ ContextExpires(u, m)
      PROVE  DeleteRunning(t, m)
  <2>1. DeleteRunning(u, m)
    BY <1>4 DEF Execution, ContextExpires, ExecuteTask, ExecuteReturns,
       MarkComplete, HandleTaskSuccess, HandleFailedTask, Requeue, MarkFailed, BlockTask,
       ReleaseFailed, SendResult, ReleaseDeferred
  <2>2. QED BY <2>1 DEF DeleteRunning, TypeOK
<1>5. CASE Lifecycle
  BY <1>5 DEF Lifecycle, Start, StopTasks, StopCancel, StopReturns,
     StopTimesOut
<1>6. QED BY <1>1, <1>2, <1>3, <1>4, <1>5 DEF Next

\* scheduleNext takes ts.mu only when there is a free slot.
LEMMA SchedStarts ==
  ASSUME [Next]_vars, sched.at = "idle", sched'.at # "idle"
  PROVE  HasCapacity /\ running' = running
<1>1. CASE UNCHANGED vars
  BY <1>1 DEF vars
<1>2. CASE Client
  BY <1>2 DEF Client, SubmitTask, ResubmitDeadLetterTask, ResubmitRefused, RegisterAgent,
     UnregisterAgent, ReadResult, KanbanUnassign
<1>3. CASE Scheduling
  BY <1>3 DEF Scheduling, ScheduleNext, ScheduleNothing, IsNext,
     RequestTaskAssignment, RequestFails, ScheduleDone, AssignTask,
     AssignConflict, AssignFault, StartTaskExecution, ExecutorMissing
<1>4. ASSUME NEW t \in Task, NEW n \in Attempt,
             Execution(t, n) \/ ContextExpires(t, n)
      PROVE  FALSE
  BY <1>4 DEF Execution, ContextExpires, ExecuteTask, ExecuteReturns,
     MarkComplete, HandleTaskSuccess, HandleFailedTask, Requeue, MarkFailed, BlockTask,
     ReleaseFailed, SendResult, DeleteRunning, ReleaseDeferred
<1>5. CASE Lifecycle
  BY <1>5 DEF Lifecycle, Start, StopTasks, StopCancel, StopReturns,
     StopTimesOut, Crash, SchedIdle
<1>6. QED BY <1>1, <1>2, <1>3, <1>4, <1>5 DEF Next

\* The dependency graph gets a node when a task is submitted, and loses its
\* nodes with the process.
LEMMA NodesChange ==
  ASSUME TypeOK, [Next]_vars, NEW t \in Task, (t \in nodes') # (t \in nodes)
  PROVE  SubmitTask(t) \/ Crash
<1>1. CASE UNCHANGED vars
  BY <1>1 DEF vars
<1>2. CASE Client
  BY <1>2 DEF Client, SubmitTask, ResubmitDeadLetterTask, ResubmitRefused, RegisterAgent,
     UnregisterAgent, ReadResult, KanbanUnassign
<1>3. CASE Scheduling
  BY <1>3 DEF Scheduling, ScheduleNext, ScheduleNothing,
     RequestTaskAssignment, RequestFails, ScheduleDone, AssignTask,
     AssignConflict, AssignFault, StartTaskExecution, ExecutorMissing
<1>4. ASSUME NEW u \in Task, NEW n \in Attempt,
             Execution(u, n) \/ ContextExpires(u, n)
      PROVE  FALSE
  BY <1>4 DEF Execution, ContextExpires, ExecuteTask, ExecuteReturns,
     MarkComplete, HandleTaskSuccess, HandleFailedTask, Requeue, MarkFailed, BlockTask,
     ReleaseFailed, SendResult, DeleteRunning, ReleaseDeferred
<1>5. CASE Lifecycle
  BY <1>5 DEF Lifecycle, Start, StopTasks, StopCancel, StopReturns,
     StopTimesOut
<1>6. QED BY <1>1, <1>2, <1>3, <1>4, <1>5 DEF Next

\* A task leaves the queue when it is started, or with the process.
LEMMA QueueShrinks ==
  ASSUME [Next]_vars, NEW t \in Task, t \in queue, t \notin queue'
  PROVE  \/ \E n \in Attempt : StartTaskExecution(n) /\ t = sched.task
         \/ Crash
<1>1. CASE UNCHANGED vars
  BY <1>1 DEF vars
<1>2. CASE Client
  BY <1>2 DEF Client, SubmitTask, ResubmitDeadLetterTask, ResubmitRefused, RegisterAgent,
     UnregisterAgent, ReadResult, KanbanUnassign
<1>3. CASE Scheduling
  BY <1>3 DEF Scheduling, ScheduleNext, ScheduleNothing,
     RequestTaskAssignment, RequestFails, ScheduleDone, AssignTask,
     AssignConflict, AssignFault, StartTaskExecution, ExecutorMissing
<1>4. ASSUME NEW u \in Task, NEW n \in Attempt,
             Execution(u, n) \/ ContextExpires(u, n)
      PROVE  FALSE
  BY <1>4 DEF Execution, ContextExpires, ExecuteTask, ExecuteReturns,
     MarkComplete, HandleTaskSuccess, HandleFailedTask, Requeue, MarkFailed, BlockTask,
     ReleaseFailed, SendResult, DeleteRunning, ReleaseDeferred
<1>5. CASE Lifecycle
  BY <1>5 DEF Lifecycle, Start, StopTasks, StopCancel, StopReturns,
     StopTimesOut
<1>6. QED BY <1>1, <1>2, <1>3, <1>4, <1>5 DEF Next

\* The dead letter queue is written by HandleFailedTask and by resubmission.
LEMMA DeadLettersChange ==
  ASSUME [Next]_vars, dlq' # dlq
  PROVE  \/ \E i \in DOMAIN dlq :
              ResubmitDeadLetterTask(i) \/ ResubmitRefused(i)
         \/ \E t \in Task, n \in Attempt :
              /\ HandleFailedTask(t, n)
              /\ dlq' = Append(dlq, t) /\ MoveTo(t, n, "block")
         \/ Crash
<1>1. CASE UNCHANGED vars
  BY <1>1 DEF vars
<1>2. CASE Client
  BY <1>2 DEF Client, SubmitTask, RegisterAgent, UnregisterAgent, ReadResult,
     KanbanUnassign
<1>3. CASE Scheduling
  BY <1>3 DEF Scheduling, ScheduleNext, ScheduleNothing,
     RequestTaskAssignment, RequestFails, ScheduleDone, AssignTask,
     AssignConflict, AssignFault, StartTaskExecution, ExecutorMissing
<1>4. ASSUME NEW u \in Task, NEW n \in Attempt,
             Execution(u, n) \/ ContextExpires(u, n)
      PROVE  /\ HandleFailedTask(u, n)
             /\ dlq' = Append(dlq, u) /\ MoveTo(u, n, "block")
  <2>1. HandleFailedTask(u, n)
    BY <1>4 DEF Execution, ContextExpires, ExecuteTask, ExecuteReturns,
       MarkComplete, HandleTaskSuccess, Requeue, MarkFailed, BlockTask, ReleaseFailed,
       SendResult, DeleteRunning, ReleaseDeferred
  <2>2. QED BY <2>1 DEF HandleFailedTask
<1>5. CASE Lifecycle
  BY <1>5 DEF Lifecycle, Start, StopTasks, StopCancel, StopReturns,
     StopTimesOut
<1>6. QED BY <1>1, <1>2, <1>3, <1>4, <1>5 DEF Next

\* The status of a row of the board is written by the assignment and by the two
\* ends of an attempt.
LEMMA BoardChanges ==
  ASSUME TypeOK, [Next]_vars, NEW t \in Task,
         kanban'[t].status # kanban[t].status
  PROVE  \/ kanban'[t].status = "in_progress"
         \/ kanban'[t].status = "done" /\ \E n \in Attempt : HandleTaskSuccess(t, n)
         \/ kanban'[t].status = "blocked" /\ \E n \in Attempt : BlockTask(t, n)
<1>1. CASE UNCHANGED vars
  BY <1>1 DEF vars
<1>2. CASE Client
  <2>1. PICK u \in Task : KanbanUnassign(u)
    BY <1>2 DEF Client, SubmitTask, ResubmitDeadLetterTask, ResubmitRefused, RegisterAgent,
       UnregisterAgent, ReadResult
  <2>2. QED BY <2>1 DEF KanbanUnassign, TypeOK, KanbanTask
<1>3. CASE Scheduling
  <2>1. AssignTask
    BY <1>3 DEF Scheduling, ScheduleNext, ScheduleNothing,
       RequestTaskAssignment, RequestFails, ScheduleDone, AssignConflict,
       AssignFault, StartTaskExecution, ExecutorMissing
  <2>2. QED BY <2>1 DEF AssignTask, TypeOK
<1>4. ASSUME NEW u \in Task, NEW n \in Attempt,
             Execution(u, n) \/ ContextExpires(u, n)
      PROVE  \/ kanban'[t].status = "done" /\ HandleTaskSuccess(t, n)
             \/ kanban'[t].status = "blocked" /\ BlockTask(t, n)
  <2>1. \/ HandleTaskSuccess(u, n) /\ UpdateKanban(u, "done")
        \/ BlockTask(u, n) /\ UpdateKanban(u, "blocked")
    BY <1>4 DEF Execution, ContextExpires, ExecuteTask, ExecuteReturns,
       MarkComplete, HandleTaskSuccess, HandleFailedTask, Requeue, MarkFailed, BlockTask,
       ReleaseFailed, SendResult, DeleteRunning, ReleaseDeferred
  <2>2. t = u
    BY <2>1 DEF UpdateKanban, TypeOK
  <2>3. \A status : UpdateKanban(t, status) => kanban'[t].status = status
    BY DEF UpdateKanban, TypeOK, KanbanTask
  <2>4. QED BY <2>1, <2>2, <2>3
<1>5. CASE Lifecycle
  BY <1>5 DEF Lifecycle, Start, StopTasks, StopCancel, StopReturns,
     StopTimesOut, Crash
<1>6. QED BY <1>1, <1>2, <1>3, <1>4, <1>5 DEF Next

-------------------------------------------------------------------------------
(* A task is executed at most once more than its assignee is cleared *)

\* The board counts one attempt for a task that has an assignee.
Assigned(t) == IF kanban[t].assignee = NoAgent THEN 0 ELSE 1

\* scheduleNext has assigned the task and not yet started it.
Due(t) == IF sched.at = "start" /\ sched.task = t THEN 1 ELSE 0

\* Every attempt, and the one that is due, has its own assignment on the board:
\* the one there is now, or one a user of the board has cleared. The property
\* alone is not inductive: an attempt that is due must be counted before it is
\* started, or a second one could be assigned in its place.
Charged ==
  \A t \in Task :
    /\ Due(t) <= used["unassign"] + Assigned(t)
    /\ \A n \in Attempt :
         pc[t][n] # "unused" => n + Due(t) <= used["unassign"] + Assigned(t)

\* Steps that start no attempt, clear no assignee and do not touch what is due.
Neutral ==
  /\ \A t \in Task : Assigned(t) <= Assigned(t)' /\ Due(t)' <= Due(t)
  /\ used'["unassign"] = used["unassign"]
  /\ \A t \in Task, n \in Attempt : pc'[t][n] # "unused" => pc[t][n] # "unused"

\* They cannot make a task owe more attempts than it is charged for.
LEMMA NeutralKeepsCharged ==
  ASSUME TypeOK, TypeOK', Charged, Neutral
  PROVE  Charged'
<1> SUFFICES ASSUME NEW t \in Task
             PROVE  /\ Due(t)' <= used'["unassign"] + Assigned(t)'
                    /\ \A n \in Attempt : pc'[t][n] # "unused" =>
                         n + Due(t)' <= used'["unassign"] + Assigned(t)'
  BY DEF Charged
<1>1. /\ used["unassign"] \in Nat
      /\ Assigned(t) \in Nat /\ Assigned(t)' \in Nat
      /\ Due(t) \in Nat /\ Due(t)' \in Nat
      /\ \A n \in Attempt : n \in Nat
  BY BoundsAssumption DEF TypeOK, Assigned, Due, EnvironmentStep, Attempt
<1>2. /\ Assigned(t) <= Assigned(t)' /\ Due(t)' <= Due(t)
      /\ used'["unassign"] = used["unassign"]
  BY DEF Neutral
<1>3. Due(t) <= used["unassign"] + Assigned(t)
  BY DEF Charged
<1>4. ASSUME NEW n \in Attempt, pc'[t][n] # "unused"
      PROVE  n + Due(t)' <= used'["unassign"] + Assigned(t)'
  <2>1. n + Due(t) <= used["unassign"] + Assigned(t)
    BY <1>4 DEF Neutral, Charged
  <2>2. QED BY <1>1, <1>2, <2>1
<1>5. QED BY <1>1, <1>2, <1>3, <1>4

\* A step that changes neither the board nor what is due nor an attempt.
LEMMA QuietIsNeutral ==
  ASSUME kanban' = kanban, sched' = sched, pc' = pc,
         used'["unassign"] = used["unassign"]
  PROVE  Neutral
BY DEF Neutral, Assigned, Due

\* A step of scheduleNext after which no task is due.
LEMMA SchedIsNeutral ==
  ASSUME kanban' = kanban, sched'.at # "start", pc' = pc,
         used'["unassign"] = used["unassign"]
  PROVE  Neutral
BY DEF Neutral, Assigned, Due

\* A step of an attempt that has started before.
LEMMA AttemptIsNeutral ==
  ASSUME TypeOK, NEW t \in Task, NEW n \in Attempt, NEW to,
         pc[t][n] # "unused", MoveTo(t, n, to), sched' = sched,
         used'["unassign"] = used["unassign"],
         \A u \in Task : kanban'[u].assignee = kanban[u].assignee
  PROVE  Neutral
<1>1. \A u \in Task, m \in Attempt : pc'[u][m] # "unused" => pc[u][m] # "unused"
  BY DEF TypeOK, MoveTo
<1>2. \A u \in Task : Assigned(u) <= Assigned(u)' /\ Due(u)' <= Due(u)
  BY DEF Assigned, Due
<1>3. QED BY <1>1, <1>2 DEF Neutral

\* The environment's other steps leave the count of cleared assignees alone.
LEMMA SpendNeutral ==
  ASSUME TypeOK, NEW k \in EnvironmentStep \ {"unassign"}, Spend(k)
  PROVE  used'["unassign"] = used["unassign"]
BY SpendType DEF TypeOK, EnvironmentStep

\* However often a task is submitted, retried or resubmitted, and across crashes
\* and faults, it is executed at most once more than its assignee is cleared.
THEOREM AtMostOnce == Spec => []ExecutedAtMostOnce
<1>1. Init => Charged
  BY BoundsAssumption DEF Init, Charged, Due, Assigned, SchedIdle, EnvironmentStep
<1>2. TypeOK /\ TypeOK' /\ Charged /\ [Next]_vars => Charged'
  <2> SUFFICES ASSUME TypeOK, TypeOK', Charged, [Next]_vars
               PROVE  Charged'
    OBVIOUS
  <2>1. CASE UNCHANGED vars
    BY <2>1, QuietIsNeutral, NeutralKeepsCharged DEF vars
  <2>2. ASSUME NEW t \in Task, SubmitTask(t)
        PROVE  Charged'
    BY <2>2, SpendNeutral, QuietIsNeutral, NeutralKeepsCharged DEF
       SubmitTask, EnvironmentStep
  <2>3. ASSUME NEW i \in DOMAIN dlq, ResubmitDeadLetterTask(i)
        PROVE  Charged'
    BY <2>3, SpendNeutral, QuietIsNeutral, NeutralKeepsCharged DEF
       ResubmitDeadLetterTask, EnvironmentStep
  <2>37. ASSUME NEW i \in DOMAIN dlq, ResubmitRefused(i)
         PROVE  Charged'
    BY <2>37, SpendNeutral, QuietIsNeutral, NeutralKeepsCharged DEF
       ResubmitRefused, EnvironmentStep
  <2>4. ASSUME NEW a \in Agent, RegisterAgent(a)
        PROVE  Charged'
    BY <2>4, SpendNeutral, QuietIsNeutral, NeutralKeepsCharged DEF
       RegisterAgent, EnvironmentStep
  <2>5. ASSUME NEW a \in Agent, UnregisterAgent(a)
        PROVE  Charged'
    BY <2>5, SpendNeutral, QuietIsNeutral, NeutralKeepsCharged DEF
       UnregisterAgent, EnvironmentStep
  <2>6. ASSUME ReadResult
        PROVE  Charged'
    BY <2>6, QuietIsNeutral, NeutralKeepsCharged DEF ReadResult
  <2>7. ASSUME NEW tracked \in BOOLEAN, ScheduleNext(tracked)
        PROVE  Charged'
    BY <2>7, SchedIsNeutral, NeutralKeepsCharged DEF ScheduleNext, SchedIdle
  <2>8. ASSUME ScheduleNothing
        PROVE  Charged'
    BY <2>8, QuietIsNeutral, NeutralKeepsCharged DEF ScheduleNothing
  <2>9. ASSUME NEW t \in Task, RequestTaskAssignment(t)
        PROVE  Charged'
    BY <2>9, SchedIsNeutral, NeutralKeepsCharged DEF RequestTaskAssignment,
       TypeOK, SchedState
  <2>10. ASSUME NEW t \in Task, RequestFails(t)
        PROVE  Charged'
    BY <2>10, SpendNeutral, SchedIsNeutral, NeutralKeepsCharged DEF
       RequestFails, EnvironmentStep, IsNext, TypeOK, SchedState
  <2>11. ASSUME ScheduleDone
        PROVE  Charged'
    BY <2>11, SchedIsNeutral, NeutralKeepsCharged DEF ScheduleDone,
       SchedIdle
  <2>12. ASSUME AssignConflict
        PROVE  Charged'
    BY <2>12, SchedIsNeutral, NeutralKeepsCharged DEF AssignConflict,
       Continue, TypeOK, SchedState
  <2>13. ASSUME AssignFault
        PROVE  Charged'
    BY <2>13, SpendNeutral, SchedIsNeutral, NeutralKeepsCharged DEF
       AssignFault, EnvironmentStep, Continue, TypeOK, SchedState
  <2>14. ASSUME ExecutorMissing
        PROVE  Charged'
    BY <2>14, SchedIsNeutral, NeutralKeepsCharged DEF ExecutorMissing,
       Continue, TypeOK, SchedState
  <2>15. ASSUME NEW t \in Task, NEW n \in Attempt, ExecuteTask(t, n)
        PROVE  Charged'
    BY <2>15, AttemptIsNeutral, NeutralKeepsCharged DEF ExecuteTask
  <2>16. ASSUME NEW t \in Task, NEW n \in Attempt, MarkComplete(t, n)
        PROVE  Charged'
    BY <2>16, AttemptIsNeutral, NeutralKeepsCharged DEF MarkComplete
  <2>17. ASSUME NEW t \in Task, NEW n \in Attempt, HandleFailedTask(t, n)
        PROVE  Charged'
    BY <2>17, AttemptIsNeutral, NeutralKeepsCharged DEF HandleFailedTask
  <2>18. ASSUME NEW t \in Task, NEW n \in Attempt, Requeue(t, n)
        PROVE  Charged'
    BY <2>18, AttemptIsNeutral, NeutralKeepsCharged DEF Requeue
  <2>19. ASSUME NEW t \in Task, NEW n \in Attempt, ReleaseFailed(t, n)
        PROVE  Charged'
    BY <2>19, AttemptIsNeutral, NeutralKeepsCharged DEF ReleaseFailed
  <2>20. ASSUME NEW t \in Task, NEW n \in Attempt, SendResult(t, n)
        PROVE  Charged'
    BY <2>20, AttemptIsNeutral, NeutralKeepsCharged DEF SendResult
  <2>21. ASSUME NEW t \in Task, NEW n \in Attempt, DeleteRunning(t, n)
        PROVE  Charged'
    BY <2>21, AttemptIsNeutral, NeutralKeepsCharged DEF DeleteRunning
  <2>22. ASSUME NEW t \in Task, NEW n \in Attempt, ReleaseDeferred(t, n)
        PROVE  Charged'
    BY <2>22, AttemptIsNeutral, NeutralKeepsCharged DEF ReleaseDeferred
  <2>23. ASSUME NEW t \in Task, NEW n \in Attempt, NEW outcome,
         ExecuteReturns(t, n, outcome)
        PROVE  Charged'
    BY <2>23, AttemptIsNeutral, NeutralKeepsCharged DEF ExecuteReturns
  <2>24. ASSUME NEW t \in Task, NEW n \in Attempt, ContextExpires(t, n)
        PROVE  Charged'
    BY <2>24, AttemptIsNeutral, SpendNeutral, NeutralKeepsCharged DEF
       ContextExpires, EnvironmentStep
  <2>25. ASSUME NEW t \in Task, NEW n \in Attempt, HandleTaskSuccess(t, n)
        PROVE  Charged'
    BY <2>25, AttemptIsNeutral, UpdateKanbanType, NeutralKeepsCharged DEF
       HandleTaskSuccess, TypeOK
  <2>26. ASSUME NEW t \in Task, NEW n \in Attempt, MarkFailed(t, n)
        PROVE  Charged'
    BY <2>26, AttemptIsNeutral, NeutralKeepsCharged DEF MarkFailed
  <2>38. ASSUME NEW t \in Task, NEW n \in Attempt, BlockTask(t, n)
         PROVE  Charged'
    BY <2>38, AttemptIsNeutral, UpdateKanbanType, NeutralKeepsCharged DEF
       BlockTask, TypeOK
  <2>27. ASSUME Start
        PROVE  Charged'
    BY <2>27, QuietIsNeutral, NeutralKeepsCharged DEF Start
  <2>28. ASSUME StopCancel
        PROVE  Charged'
    BY <2>28, QuietIsNeutral, NeutralKeepsCharged DEF StopCancel
  <2>29. ASSUME StopReturns
        PROVE  Charged'
    BY <2>29, QuietIsNeutral, NeutralKeepsCharged DEF StopReturns
  <2>30. ASSUME StopTimesOut
        PROVE  Charged'
    BY <2>30, SpendNeutral, QuietIsNeutral, NeutralKeepsCharged DEF
       StopTimesOut, EnvironmentStep
  <2>31. ASSUME StopTasks
        PROVE  Charged'
    <3>1. used'["unassign"] = used["unassign"]
      BY <2>31, SpendNeutral DEF StopTasks, EnvironmentStep
    <3>2. \A t \in Task, m \in Attempt :
            pc'[t][m] # "unused" => pc[t][m] # "unused"
      BY <2>31 DEF StopTasks
    <3>3. Neutral
      BY <2>31, <3>1, <3>2 DEF StopTasks, Neutral, Assigned, Due
    <3>4. QED BY <3>3, NeutralKeepsCharged
  <2>32. ASSUME Crash
        PROVE  Charged'
    <3>1. used'["unassign"] = used["unassign"]
      BY <2>32, SpendNeutral DEF Crash, EnvironmentStep
    <3>2. \A t \in Task, m \in Attempt :
            pc'[t][m] # "unused" => pc[t][m] # "unused"
      BY <2>32 DEF Crash
    <3>3. Neutral
      BY <2>32, <3>1, <3>2 DEF Crash, Neutral, Assigned, Due, SchedIdle
    <3>4. QED BY <3>3, NeutralKeepsCharged
  <2>33. ASSUME NEW t \in Task, KanbanUnassign(t)
        PROVE  Charged'
    <3>1. used'["unassign"] = used["unassign"] + 1 /\ used["unassign"] \in Nat
      BY <2>33, SpendType DEF KanbanUnassign, TypeOK, EnvironmentStep
    <3>2. \A u \in Task : Assigned(u) <= 1 + Assigned(u)'
      BY DEF Assigned
    <3>3. /\ \A u \in Task : Due(u)' = Due(u)
          /\ pc' = pc
      BY <2>33 DEF KanbanUnassign, Due
    <3>4. /\ \A u \in Task : /\ Due(u) \in Nat
                             /\ Assigned(u) \in Nat /\ Assigned(u)' \in Nat
          /\ \A m \in Attempt : m \in Nat
      BY DEF Due, Assigned, Attempt
    <3>5. QED BY <3>1, <3>2, <3>3, <3>4 DEF Charged
  <2>34. ASSUME AssignTask
        PROVE  Charged'
    <3>1. \A t \in Task :
            IF t = sched.task
            THEN Assigned(t) = 0 /\ Due(t) = 0 /\ Assigned(t)' = 1 /\ Due(t)' = 1
            ELSE Assigned(t)' = Assigned(t) /\ Due(t)' = Due(t)
      <4>1. /\ sched.at = "assign" /\ sched'.at = "start"
            /\ sched'.task = sched.task
            /\ sched.task \in Task /\ sched.agent # NoAgent
        BY <2>34, Constants DEF AssignTask, TypeOK, SchedState
      <4>2. /\ kanban[sched.task].assignee = NoAgent
            /\ kanban'[sched.task].assignee = sched.agent
            /\ \A t \in Task \ {sched.task} : kanban'[t] = kanban[t]
        BY <2>34, <4>1 DEF AssignTask, Unassigned, TypeOK
      <4>3. QED BY <4>1, <4>2 DEF Assigned, Due
    <3>2. pc' = pc /\ used' = used /\ used["unassign"] \in Nat
      BY <2>34 DEF AssignTask, TypeOK, EnvironmentStep
    <3>3. \A m \in Attempt : m \in Nat
      BY DEF Attempt
    <3>4. QED BY <3>1, <3>2, <3>3 DEF Charged
  <2>35. ASSUME NEW n \in Attempt, StartTaskExecution(n)
        PROVE  Charged'
    <3> DEFINE s == sched.task
    <3>1. /\ sched.at = "start" /\ s \in Task
          /\ \A m \in Attempt : m < n => pc[s][m] # "unused"
      BY <2>35 DEF StartTaskExecution, TypeOK, SchedState
    <3>2. sched'.at # "start"
      <4>1. sched' = SchedIdle \/ Continue
        BY <2>35 DEF StartTaskExecution
      <4>2. CASE sched' = SchedIdle
        BY <4>2 DEF SchedIdle
      <4>3. CASE Continue
        <5>1. sched'.at = "next"
          BY <4>3 DEF Continue, TypeOK, SchedState
        <5>2. QED BY <5>1
      <4>4. QED BY <4>1, <4>2, <4>3
    <3>3. /\ kanban' = kanban /\ used' = used /\ used["unassign"] \in Nat
          /\ \A t \in Task, m \in Attempt :
               t # s \/ m # n => pc'[t][m] = pc[t][m]
      BY <2>35 DEF StartTaskExecution, MoveTo, TypeOK, EnvironmentStep
    <3>4. \A t \in Task : /\ Assigned(t)' = Assigned(t) /\ Assigned(t) \in Nat
                         /\ Due(t)' = 0 /\ Due(t) \in Nat
      BY <3>2, <3>3 DEF Assigned, Due
    <3>5. Due(s) = 1
      BY <3>1 DEF Due
    <3>6. n <= used["unassign"] + Assigned(s)
      <4>1. CASE n = 1
        BY <4>1, <3>1, <3>5 DEF Charged
      <4>2. CASE n # 1
        <5>1. n \in Nat /\ n - 1 \in Attempt /\ n - 1 < n
          BY <4>2, BoundsAssumption DEF Attempt
        <5>2. (n - 1) + Due(s) <= used["unassign"] + Assigned(s)
          BY <5>1, <3>1 DEF Charged
        <5>3. QED BY <5>1, <5>2, <3>3, <3>4, <3>5
      <4>3. QED BY <4>1, <4>2
    <3>7. ASSUME NEW t \in Task
          PROVE  /\ Due(t)' <= used'["unassign"] + Assigned(t)'
                 /\ \A m \in Attempt : pc'[t][m] # "unused" =>
                      m + Due(t)' <= used'["unassign"] + Assigned(t)'
      <4>1. Due(t)' <= used'["unassign"] + Assigned(t)'
        BY <3>3, <3>4
      <4>2. ASSUME NEW m \in Attempt, pc'[t][m] # "unused"
            PROVE  m + Due(t)' <= used'["unassign"] + Assigned(t)'
        <5>1. m \in Nat
          BY DEF Attempt
        <5>2. CASE t = s /\ m = n
          BY <5>1, <5>2, <3>3, <3>4, <3>6
        <5>3. CASE ~(t = s /\ m = n)
          <6>1. pc[t][m] # "unused"
            BY <4>2, <5>3, <3>3
          <6>2. m + Due(t) <= used["unassign"] + Assigned(t)
            BY <6>1 DEF Charged
          <6>3. QED BY <5>1, <6>2, <3>3, <3>4
        <5>4. QED BY <5>2, <5>3
      <4>3. QED BY <4>1, <4>2
    <3>8. QED BY <3>7 DEF Charged
  <2>36. QED
    BY <2>1, <2>2, <2>3, <2>4, <2>5, <2>6, <2>7, <2>8, <2>9, <2>10, <2>11,
       <2>12, <2>13, <2>14, <2>15, <2>16, <2>17, <2>18, <2>19, <2>20, <2>21,
       <2>22, <2>23, <2>24, <2>25, <2>26, <2>27, <2>28, <2>29, <2>30, <2>31,
       <2>32, <2>33, <2>34, <2>35, <2>37, <2>38 DEF Next, Client, Scheduling,
       Execution, Lifecycle
<1>3. TypeOK /\ Charged => ExecutedAtMostOnce
  <2> SUFFICES ASSUME TypeOK, Charged, NEW t \in Task, NEW n \in Attempt,
                      pc[t][n] # "unused"
               PROVE  n <= 1 + used["unassign"]
    BY DEF ExecutedAtMostOnce
  <2>1. n + Due(t) <= used["unassign"] + Assigned(t)
    BY DEF Charged
  <2>2. /\ n \in Nat /\ used["unassign"] \in Nat
        /\ Due(t) \in Nat /\ Assigned(t) \in 0 .. 1
    BY DEF TypeOK, Due, Assigned, Attempt, EnvironmentStep
  <2>3. QED BY <2>1, <2>2
<1>4. QED
  BY <1>1, <1>2, <1>3, TypeCorrect, PTL DEF Spec

\* While nobody clears an assignee, an attempt that has started is the first.
LEMMA OnlyAttempt ==
  ASSUME ExecutedAtMostOnce, used["unassign"] = 0,
         NEW t \in Task, NEW n \in Attempt, pc[t][n] # "unused"
  PROVE  n = 1
BY DEF ExecutedAtMostOnce, Attempt

-------------------------------------------------------------------------------
(* runningTasks and the number of executors at work *)

\* Once the scheduler's context is done an attempt that has not run yet skips its
\* cleanup; every other one that is in executeTask is entered in runningTasks.
\* The property is inductive, since no task has two attempts (AtMostOnce).
THEOREM EntryIsOwn == Spec => []RunningEntryIsOwn
<1>1. Init => RunningEntryIsOwn
  BY DEF Init, RunningEntryIsOwn, Entered, Live
<1>2. TypeOK /\ ExecutedAtMostOnce /\ ExecutedAtMostOnce'
        /\ RunningEntryIsOwn /\ [Next]_vars => RunningEntryIsOwn'
  <2> SUFFICES ASSUME TypeOK, ExecutedAtMostOnce, ExecutedAtMostOnce',
                      RunningEntryIsOwn, [Next]_vars, used'["unassign"] = 0,
                      NEW t \in Task, NEW n \in Attempt,
                      pc'[t][n] \in Entered \cup {"leaked"}
               PROVE  running'[t] = n
    BY DEF RunningEntryIsOwn
  <2>1. used["unassign"] = 0
    BY NoneCleared
  <2>2. n = 1
    BY DEF ExecutedAtMostOnce, Attempt, Entered, Live
  <2>3. ~Crash
    BY DEF Crash, Entered, Live, PC
  <2>4. CASE pc'[t][n] = pc[t][n]
    <3>1. running[t] = n
      BY <2>1, <2>4 DEF RunningEntryIsOwn
    <3>2. ASSUME NEW m \in Attempt, StartTaskExecution(m), t = sched.task
          PROVE  FALSE
      <4>1. pc[t][m] = "unused" /\ pc'[t][m] = "spawned"
        BY <3>2 DEF StartTaskExecution, MoveTo, TypeOK
      <4>2. m = 1
        BY <4>1 DEF ExecutedAtMostOnce, Attempt
      <4>3. QED BY <2>2, <2>4, <4>1, <4>2
    <3>3. ASSUME NEW m \in Attempt, DeleteRunning(t, m)
          PROVE  FALSE
      <4>1. pc[t][m] = "delete" /\ pc'[t][m] = "release"
        BY <3>3 DEF DeleteRunning, MoveTo, TypeOK
      <4>2. m = 1
        BY <2>1, <4>1, OnlyAttempt
      <4>3. QED BY <2>2, <2>4, <4>1, <4>2
    <3>4. QED BY <2>3, <3>1, <3>2, <3>3, RunningChanges
  <2>5. CASE pc'[t][n] # pc[t][n]
    <3>1. CASE StartTaskExecution(n) /\ t = sched.task
      BY <3>1 DEF StartTaskExecution, TypeOK
    <3>2. ASSUME Execution(t, n) \/ ContextExpires(t, n)
          PROVE  running[t] = n /\ running' = running
      <4>1. pc[t][n] \in Entered /\ ~DeleteRunning(t, n) /\ ~ReleaseDeferred(t, n)
        <5>1. pc[t][n] \in Live
          BY <3>2 DEF Live, PC, Execution, ContextExpires, ExecuteTask,
             ExecuteReturns, MarkComplete, HandleTaskSuccess, HandleFailedTask,
             Requeue, MarkFailed, BlockTask, ReleaseFailed, SendResult, DeleteRunning,
             ReleaseDeferred
        <5>2. ~DeleteRunning(t, n) /\ ~ReleaseDeferred(t, n)
          <6>1. "release" \notin Entered /\ "gone" \notin Entered
            BY DEF Entered, Live
          <6>2. ~MoveTo(t, n, "release") /\ ~MoveTo(t, n, "gone")
            BY <6>1 DEF MoveTo, TypeOK
          <6>3. QED BY <6>2 DEF DeleteRunning, ReleaseDeferred
        <5>3. pc[t][n] # "release"
          BY <3>2, <5>2 DEF Execution, ContextExpires, ExecuteTask,
             ExecuteReturns, MarkComplete, HandleTaskSuccess, HandleFailedTask,
             Requeue, MarkFailed, BlockTask, ReleaseFailed, SendResult
        <5>4. QED BY <5>1, <5>2, <5>3 DEF Entered
      <4>2. running' = running
        BY <3>2, <4>1 DEF Execution, ContextExpires, ExecuteTask,
           ExecuteReturns, MarkComplete, HandleTaskSuccess, HandleFailedTask,
           Requeue, MarkFailed, BlockTask, ReleaseFailed, SendResult
      <4>3. QED BY <2>1, <4>1, <4>2 DEF RunningEntryIsOwn
    <3>3. CASE StopTasks
      BY <2>5, <3>3 DEF StopTasks
    <3>4. QED BY <2>3, <2>5, <3>1, <3>2, <3>3, PcChanges
  <2>6. QED BY <2>4, <2>5
<1>3. QED
  BY <1>1, <1>2, TypeCorrect, AtMostOnce, PTL DEF Spec

\* The map of running tasks never outgrows the limit, and has room for one more
\* while scheduleNext holds ts.mu.
Slots ==
  /\ IsFiniteSet(RunningTasks)
  /\ Cardinality(RunningTasks) <= MaxConcurrentTasks
  /\ sched.at # "idle" => Cardinality(RunningTasks) < MaxConcurrentTasks

\* The limit is checked before the loop and after each start in it.
LEMMA SlotsHold == Spec => []Slots
<1>1. Init => Slots
  <2> SUFFICES ASSUME Init
               PROVE  Slots
    OBVIOUS
  <2>1. RunningTasks = {} /\ sched.at = "idle"
    BY DEF Init, RunningTasks, SchedIdle
  <2>2. QED BY <2>1, FS_EmptySet, ConfigAssumption DEF Slots
<1>2. TypeOK /\ Slots /\ [Next]_vars => Slots'
  <2> SUFFICES ASSUME TypeOK, Slots, [Next]_vars
               PROVE  Slots'
    OBVIOUS
  <2>1. /\ MaxConcurrentTasks \in Nat \ {0}
        /\ Cardinality(RunningTasks) \in Nat
    BY ConfigAssumption, FS_CardinalityType DEF Slots
  <2>2. ASSUME NEW n \in Attempt, StartTaskExecution(n)
        PROVE  Slots'
    <3> DEFINE s == sched.task
    <3>1. RunningTasks' = RunningTasks \cup {s}
      BY <2>2 DEF StartTaskExecution, RunningTasks, TypeOK, SchedState, Attempt
    <3>2. /\ IsFiniteSet(RunningTasks \cup {s})
          /\ Cardinality(RunningTasks \cup {s}) <= Cardinality(RunningTasks) + 1
          /\ Cardinality(RunningTasks \cup {s}) \in Nat
      BY <2>1, FS_AddElement, FS_CardinalityType DEF Slots
    <3>3. Cardinality(RunningTasks) < MaxConcurrentTasks
      BY <2>2 DEF StartTaskExecution, Slots
    <3>4. \/ sched'.at = "idle"
          \/ Cardinality(RunningTasks \cup {s}) < MaxConcurrentTasks
      BY <2>1, <2>2, <3>2 DEF StartTaskExecution, SchedIdle
    <3>5. QED BY <2>1, <3>1, <3>2, <3>3, <3>4 DEF Slots
  <2>3. CASE ~\E n \in Attempt : StartTaskExecution(n)
    <3>1. RunningTasks' \subseteq RunningTasks
      <4> SUFFICES ASSUME NEW t \in Task, running'[t] # 0
                   PROVE  running[t] # 0
        BY DEF RunningTasks
      <4>1. ~Crash /\ \A n \in Attempt : ~DeleteRunning(t, n)
        BY DEF Crash, DeleteRunning, TypeOK
      <4>2. QED BY <2>3, <4>1, RunningChanges
    <3>2. /\ IsFiniteSet(RunningTasks')
          /\ Cardinality(RunningTasks') <= Cardinality(RunningTasks)
          /\ Cardinality(RunningTasks') \in Nat
      BY <3>1, FS_Subset, FS_CardinalityType DEF Slots
    <3>3. CASE sched.at # "idle"
      BY <2>1, <3>2, <3>3 DEF Slots
    <3>4. CASE sched.at = "idle" /\ sched'.at # "idle"
      <4>1. HasCapacity
        BY <3>4, SchedStarts
      <4>2. QED BY <2>1, <3>2, <4>1 DEF Slots, HasCapacity
    <3>5. CASE sched'.at = "idle"
      BY <2>1, <3>2, <3>5 DEF Slots
    <3>6. QED BY <3>3, <3>4, <3>5
  <2>4. QED BY <2>2, <2>3
<1>3. QED
  BY <1>1, <1>2, TypeCorrect, PTL DEF Spec

\* Never more executors at work than MaxConcurrentTasks, for any number of tasks
\* and agents: each one has an entry of its own in the map scheduleNext counts.
THEOREM WithinLimit == Spec => []ExecutingWithinLimit
<1>1. Slots /\ RunningEntryIsOwn => ExecutingWithinLimit
  <2> DEFINE Executing == {r \in Task \X Attempt : pc[r[1]][r[2]] = "exec"}
             f == [r \in Executing |-> r[1]]
  <2> SUFFICES ASSUME Slots, RunningEntryIsOwn, used["unassign"] = 0
               PROVE  Cardinality(Executing) <= MaxConcurrentTasks
    BY DEF ExecutingWithinLimit
  <2>1. \A r \in Executing : /\ r = <<r[1], r[2]>>
                             /\ r[1] \in Task /\ r[2] \in Attempt
                             /\ running[r[1]] = r[2]
    BY DEF RunningEntryIsOwn, Entered, Live, PC
  <2>2. f \in Injection(Executing, RunningTasks)
    <3>1. \A r \in Executing : r[1] \in RunningTasks
      BY <2>1 DEF RunningTasks, Attempt
    <3>2. \A r, q \in Executing : r[1] = q[1] => r = q
      BY <2>1
    <3>3. QED BY <3>1, <3>2 DEF Injection, IsInjective
  <2> HIDE DEF Executing, f
  <2>3. /\ IsFiniteSet(Executing)
        /\ Cardinality(Executing) <= Cardinality(RunningTasks)
    BY <2>2, FS_Injection DEF Slots
  <2>4. /\ Cardinality(Executing) \in Nat /\ Cardinality(RunningTasks) \in Nat
        /\ MaxConcurrentTasks \in Nat
    BY <2>3, FS_CardinalityType, ConfigAssumption DEF Slots
  <2>5. QED BY <2>3, <2>4 DEF Slots
<1>2. QED
  BY <1>1, SlotsHold, EntryIsOwn, PTL

-------------------------------------------------------------------------------
(* Every task is somewhere *)

\* Where an attempt at work is: the places AtWork names.
Working == {"spawned", "expired", "exec", "succeeded", "retryable", "fatal",
            "requeue", "block", "leaked"}

\* Work on a task begins with the start of an attempt at it.
LEMMA WorkStarts ==
  ASSUME TypeOK, [Next]_vars, NEW t \in Task, AtWork(t)', ~AtWork(t)
  PROVE  \E n \in Attempt : StartTaskExecution(n) /\ t = sched.task
<1>1. PICK n \in Attempt : pc'[t][n] \in Working
  BY DEF AtWork, Working
<1>2. pc[t][n] \in PC \ Working
  BY DEF AtWork, Working, TypeOK
<1>3. ~Crash /\ ~StopTasks /\ ~ContextExpires(t, n)
  BY <1>1, <1>2 DEF Crash, StopTasks, ContextExpires, Working
<1>4. ~Execution(t, n)
  <2>1. \A to \in {"release_failed", "send", "delete", "release", "gone"} :
          ~MoveTo(t, n, to)
    BY <1>1 DEF MoveTo, TypeOK, Working
  <2>2. ~\E from \in Working : pc[t][n] = from
    BY <1>2
  <2>3. QED BY <2>1, <2>2 DEF Working, Execution, ExecuteTask, ExecuteReturns,
       MarkComplete, HandleTaskSuccess, HandleFailedTask, Requeue, MarkFailed, BlockTask,
       ReleaseFailed, SendResult, DeleteRunning, ReleaseDeferred
<1>5. QED BY <1>1, <1>2, <1>3, <1>4, PcChanges

\* Work on a task ends when an attempt tells the graph what became of it or puts
\* it back into the queue, or with the process.
LEMMA WorkEnds ==
  ASSUME TypeOK, [Next]_vars, NEW t \in Task, AtWork(t), ~AtWork(t)'
  PROVE  \/ \E n \in Attempt : \/ MarkComplete(t, n)
                               \/ MarkFailed(t, n)
                               \/ Requeue(t, n)
         \/ Crash
<1>1. PICK n \in Attempt : pc[t][n] \in Working
  BY DEF AtWork, Working
<1>2. pc'[t][n] \notin Working
  BY DEF AtWork, Working
<1>3. \A to \in Working : ~MoveTo(t, n, to)
  BY <1>2 DEF MoveTo, TypeOK
<1>4. ~(StartTaskExecution(n) /\ t = sched.task)
  BY <1>1 DEF StartTaskExecution, Working
<1>5. ~StopTasks /\ ~ContextExpires(t, n)
  BY <1>1, <1>2, <1>3 DEF StopTasks, ContextExpires, Working
<1>6. Execution(t, n) => MarkComplete(t, n) \/ MarkFailed(t, n) \/ Requeue(t, n)
  BY <1>1, <1>3, Constants DEF Working, Execution, ExecuteTask, ExecuteReturns,
     HandleTaskSuccess, HandleFailedTask, BlockTask, ReleaseFailed,
     SendResult, DeleteRunning, ReleaseDeferred
<1>7. QED BY <1>1, <1>2, <1>4, <1>5, <1>6, PcChanges

\* A task leaves the queue only to be worked on, and work on it ends only with a
\* report or with its return to the queue. The property is inductive.
LEMMA TasksKeptHolds == Spec => []TasksKept
<1>1. Init => TasksKept
  BY DEF Init, TasksKept
<1>2. TypeOK /\ TypeOK' /\ TasksKept /\ [Next]_vars => TasksKept'
  <2> SUFFICES ASSUME TypeOK, TypeOK', TasksKept, [Next]_vars,
                      NEW t \in nodes'
               PROVE  \/ t \in queue'
                      \/ AtWork(t)'
                      \/ depStatus'[t] # "pending"
    BY DEF TasksKept
  <2>1. ~Crash
    BY DEF Crash
  <2>2. CASE t \notin nodes
    <3>1. \E u \in Task : SubmitTask(u) /\ t = u
      <4>1. t \in Task
        BY DEF TypeOK
      <4>2. QED BY <2>1, <2>2, <4>1, NodesChange
    <3>2. QED BY <3>1 DEF SubmitTask
  <2>3. CASE t \in nodes
    <3>1. t \in Task
      BY <2>3 DEF TypeOK
    <3>2. ASSUME NEW n \in Attempt, StartTaskExecution(n), t = sched.task
          PROVE  AtWork(t)'
      <4>1. pc'[t][n] = "spawned"
        BY <3>1, <3>2 DEF StartTaskExecution, MoveTo, TypeOK
      <4>2. QED BY <4>1 DEF AtWork
    <3>3. ASSUME NEW n \in Attempt, MarkComplete(t, n) \/ MarkFailed(t, n)
          PROVE  depStatus'[t] # "pending"
      BY <3>1, <3>3 DEF MarkComplete, MarkFailed, TypeOK
    <3>4. ASSUME NEW n \in Attempt, Requeue(t, n)
          PROVE  t \in queue'
      BY <3>4 DEF Requeue
    <3>5. CASE t \in queue
      BY <2>1, <3>1, <3>2, <3>5, QueueShrinks
    <3>6. CASE depStatus[t] # "pending"
      BY <2>1, <3>1, <3>3, <3>6, DepStatusChanges
    <3>7. CASE AtWork(t)
      BY <2>1, <3>1, <3>3, <3>4, <3>7, WorkEnds
    <3>8. QED BY <2>3, <3>5, <3>6, <3>7 DEF TasksKept
  <2>4. QED BY <2>2, <2>3
<1>3. QED
  BY <1>1, <1>2, TypeCorrect, PTL DEF Spec

=============================================================================
