SPECIFICATION Spec
CONSTANTS
  c1 = c1
  c2 = c2
  c3 = c3
  Client = {c1, c2, c3}
  MaxOps = 4
INVARIANTS
  TypeOK
  NoInventedStatus
PROPERTIES
  MovesOnPurpose
SYMMETRY ClientSymmetry
CHECK_DEADLOCK FALSE
