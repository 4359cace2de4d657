SPECIFICATION SearchSpec
CONSTANTS
  t1 = t1
  t2 = t2
  t3 = t3
  Task = {t1, t2, t3}
  MaxSubmits = 2
  MaxRepeated = 1
  MaxExtra = 1
INVARIANTS
  SearchTypeOK
  NoCycle
  OrderIsTopological
PROPERTIES
  StartsAfterAccepted
  ImplementsGraph
SYMMETRY TaskSymmetry
CHECK_DEADLOCK FALSE
