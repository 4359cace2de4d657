SPECIFICATION Spec
CONSTANTS
  t1 = t1
  t2 = t2
  t3 = t3
  t4 = t4
  a1 = a1
  a2 = a2
  NoTask = NoTask
  NoAgent = NoAgent
  Task = {t1, t2, t3, t4}
  Agent = {a1}
  Deps <- ListDeps
  Priority <- ListPriority
  MaxConcurrentTasks = 2
  MaxTaskRetries = 2
  ResultCap = 1
  Outcomes = {"ok", "fatal"}
  MaxAttempts = 1
  Limit <- ListLimit
INVARIANT AvailableAgentIsIdle
CHECK_DEADLOCK FALSE
