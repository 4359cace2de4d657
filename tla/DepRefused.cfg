SPECIFICATION SearchSpec
CONSTANTS
  t1 = t1
  t2 = t2
  t3 = t3
  Task = {t1, t2, t3}
  MaxSubmits = 2
  MaxRepeated = 3
  MaxExtra = 0
PROPERTY RefusalChangesNothing
CHECK_DEADLOCK FALSE
