SPECIFICATION FairSpec
CONSTANTS
  c1 = c1
  c2 = c2
  c3 = c3
  c4 = c4
  Caller = {c1, c2, c3, c4}
  FailureThreshold = 5
  HalfOpenRequests = 3
INVARIANTS
  TypeOK
  ClosedBelowThreshold
  ProbeUnderWay
PROPERTIES
  HalfOpenEnds
CHECK_DEADLOCK FALSE
