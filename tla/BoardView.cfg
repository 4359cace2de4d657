SPECIFICATION FairSpec
CONSTANTS
  EventType <- TaskEvents
  Pattern <- TaskPattern
  BufferSize = 1
  MaxSubscriptions = 3
  MaxSubID = 4
  MaxStreams = 2
  Window = 1
  MaxEvents = 4
  MaxKills = 1
  ChanCap = 1
INVARIANTS
  TypeOK
  NoSendAfterReturn
  SubscriptionsGivenBack
  ListensUntilStopped
PROPERTIES
  DaemonGoesOn
CHECK_DEADLOCK FALSE
