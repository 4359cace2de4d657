SPECIFICATION Spec
CONSTANTS
  t1 = t1
  t2 = t2
  t3 = t3
  t4 = t4
  a1 = a1
  a2 = a2
  NoTask = NoTask
  NoAgent = NoAgent
  Task = {t1, t2, t3}
  Agent = {a1, a2}
  Deps <- ChainDeps
  Priority <- ChainPriority
  MaxConcurrentTasks = 2
  MaxTaskRetries = 2
  ResultCap = 1
  Outcomes = {"ok", "retryable", "fatal"}
  MaxAttempts = 2
  Limit <- CoreLimit
INVARIANTS
  TypeOK
  RunningEntryIsOwn
  WorkFitsAgents
PROPERTIES
  StartsAfterDependencies
  CompletedForGood
  ImplementsLifecycle
SYMMETRY AgentSymmetry
CHECK_DEADLOCK FALSE
