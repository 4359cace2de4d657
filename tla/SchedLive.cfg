SPECIFICATION FairSpec
CONSTANTS
  t1 = t1
  t2 = t2
  t3 = t3
  t4 = t4
  a1 = a1
  a2 = a2
  NoTask = NoTask
  NoAgent = NoAgent
  Task = {t1, t2, t3}
  Agent = {a1, a2}
  Deps <- ChainDeps
  Priority <- ChainPriority
  MaxConcurrentTasks = 2
  MaxTaskRetries = 2
  ResultCap = 1
  Outcomes = {"ok"}
  MaxAttempts = 1
  Limit <- LiveLimit
PROPERTIES
  AllTasksComplete
  AgentsComeBack
CHECK_DEADLOCK FALSE
