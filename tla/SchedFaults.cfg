SPECIFICATION Spec
CONSTANTS
  t1 = t1
  t2 = t2
  t3 = t3
  t4 = t4
  a1 = a1
  a2 = a2
  NoTask = NoTask
  NoAgent = NoAgent
  Task = {t1, t2}
  Agent = {a1, a2}
  Deps <- FreeDeps
  Priority <- FreePriority
  MaxConcurrentTasks = 1
  MaxTaskRetries = 1
  ResultCap = 1
  Outcomes = {"ok", "fatal"}
  MaxAttempts = 2
  Limit <- FaultLimit
CONSTRAINT AtMostTwoFaults
INVARIANTS
  ExecutedAtMostOnce
  NoTaskLost
  ExecutingWithinLimit
  AgentsAccounted
  AssignedTasksRun
  BoardAgrees
  NothingExecutesAfterStop
SYMMETRY AgentSymmetry
CHECK_DEADLOCK FALSE
