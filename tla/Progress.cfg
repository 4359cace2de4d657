SPECIFICATION Spec
CONSTANTS
  t1 = t1
  t2 = t2
  Task = {t1, t2}
  TotalTasks = 2
  MaxAttempts = 2
  MaxSubmissions = 2
SYMMETRY TaskSymmetry
INVARIANTS
  TypeOK
  CountersAgree
  PendingAgrees
  StatusAgrees
CHECK_DEADLOCK FALSE
