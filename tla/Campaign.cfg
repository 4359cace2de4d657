SPECIFICATION FairSpec
CONSTANTS
  c1 = c1
  c2 = c2
  k1 = k1
  Client = {c1, c2}
  BusWorker = BusWorker
  Nobody = Nobody
  Commission = {k1}
  EventType <- BusEvents
  BufferSize = 1
  MaxSubscriptions = 3
  MaxSubID = 4
  MaxOps = 3
INVARIANTS
  TypeOK
  NoCallAfterLeaving
PROPERTIES
  LegalUnlessOvertaken
  EverythingReturns
CHECK_DEADLOCK FALSE
