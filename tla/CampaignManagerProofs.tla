----------------------- MODULE CampaignManagerProofs -----------------------
(* What holds of a campaign and its watchers for every number of clients,     *)
(* commissions, operations and subscriptions and every size of the buffer.    *)
EXTENDS CampaignManager, FiniteSetTheorems, SequenceTheorems, TLAPS

\* The constants, as the lemmas use them.
LEMMA Constants ==
  /\ BusWorker \notin Client /\ Nobody \notin Client
  /\ BusWorker \in Process /\ Client \subseteq Process
  /\ {"campaign.updated", "campaign.changed", "commission.completed",
      "commission.status.changed"} = EventType
  /\ "none" \notin EventType
  /\ Updated \in Seq(EventType) /\ Updated # <<>>
  /\ UpdatedAndChanged \in Seq(EventType) /\ UpdatedAndChanged # <<>>
  /\ <<"campaign.changed">> \in Seq(EventType) /\ <<"campaign.changed">> # <<>>
  /\ <<>> \in Seq(EventType)
  /\ MaxSubID \in Nat /\ MaxSubID >= 2 /\ MaxOps \in Nat
  /\ BufferSize \in Nat \ {0} /\ MaxSubscriptions \in Nat /\ MaxSubscriptions >= 2
  /\ NoCampaign \in Campaign
BY ManagerAssumption, BusAssumption DEF Process, Updated, UpdatedAndChanged,
   NoCampaign, Campaign, Status

-------------------------------------------------------------------------------
(* Type correctness, in parts that depend on one another *)

\* The campaign, and the goroutines that read and save it.
MgrTypes ==
  /\ campaign \in Campaign
  /\ at \in [Process -> Place]
  /\ copy \in [Process -> Campaign]
  /\ stale \in SUBSET Process
  /\ listed \in Campaign
  /\ ops \in 0 .. MaxOps

\* A goroutine that is saving has something to publish.
OutTypes ==
  /\ outbox \in [Process -> Seq(EventType)]
  /\ \A p \in Process :
       at[p] \in {"check", "put", "publish"} => outbox[p] # <<>>

\* m.mu is held over the calls to the bus, by one client at a time.
WatchTypes ==
  /\ mu \in Client \cup {Nobody}
  /\ handlers \in SUBSET Client
  /\ subscription \in 0 .. MaxSubID
  /\ watching \in [Client -> {"no", "failed", "yes", "left"}]
  /\ calls \in SUBSET Client
  /\ \A c \in Client :
       at[c] \in {"subscribing", "unsubscribing"} <=> mu = c
  /\ \A c \in Client : at[c] = "subscribing" => nextSubID < MaxSubID
  /\ \A c \in Client : at[c] = "unsubscribing" => subscription # 0
  /\ nextSubID \in 0 .. MaxSubID

\* An event is delivered under b.mu.
BusTypes ==
  /\ closed \in BOOLEAN
  /\ subs \in [SubID -> EventType \cup {"none"}]
  /\ delivery \in Delivery
  /\ delivery.at \in {"received", "locked"} => delivery.event # "none"
  /\ delivery.todo # {} => delivery.at = "locked"

\* The queue.
QueueTypes == eventChan \in Seq(EventType) /\ Len(eventChan) <= BufferSize

\* The limit on subscriptions.
LimitKept == Cardinality(Active) <= MaxSubscriptions

Types ==
  MgrTypes /\ OutTypes /\ WatchTypes /\ BusTypes /\ QueueTypes /\ LimitKept

\* What is left of a sequence of more than one.
LEMMA NotEmpty ==
  ASSUME NEW S, NEW s \in Seq(S), Len(s) > 0
  PROVE  s # <<>>
OBVIOUS

LEMMA TailLeft ==
  ASSUME NEW S, NEW s \in Seq(S), s # <<>>, Len(s) > 1
  PROVE  Tail(s) # <<>>
<1>1. Tail(s) \in Seq(S) /\ Len(Tail(s)) = Len(s) - 1
  BY HeadTailProperties
<1>2. Len(s) \in Nat
  OBVIOUS
<1>3. Len(Tail(s)) > 0
  BY <1>1, <1>2
<1>4. QED BY <1>1, <1>3, NotEmpty

\* Publishing keeps the buffer's bound.
LEMMA PublishType ==
  ASSUME QueueTypes, NEW type \in EventType, Publish(type)
  PROVE  QueueTypes'
BY Constants DEF Publish, QueueTypes

\* A copy that is read from the repository and changed.
LEMMA GetTypes ==
  ASSUME MgrTypes, NEW p \in Process, NEW new \in Campaign, NEW events,
         Get(p, new, events)
  PROVE  /\ at' \in [Process -> Place]
         /\ copy' \in [Process -> Campaign]
         /\ stale' \in SUBSET Process
BY DEF MgrTypes, Get, Place

\* The events that are published after the save.
LEMMA GetOutbox ==
  ASSUME MgrTypes, OutTypes, NEW p \in Process, NEW new,
         NEW events \in {Updated, UpdatedAndChanged}, Get(p, new, events)
  PROVE  OutTypes'
BY Constants DEF MgrTypes, OutTypes, Get

\* Subscriptions that are only taken away keep the limit.
LEMMA FewerSubscriptions ==
  ASSUME LimitKept, Active' \subseteq Active
  PROVE  LimitKept'
<1>1. IsFiniteSet(Active)
  <2>1. IsFiniteSet(SubID)
    BY Constants, FS_Interval DEF SubID
  <2>2. QED BY <2>1, FS_Subset DEF Active
<1>2. /\ Cardinality(Active') <= Cardinality(Active)
      /\ Cardinality(Active') \in Nat /\ Cardinality(Active) \in Nat
  BY <1>1, FS_Subset, FS_CardinalityType
<1>3. QED BY <1>2, Constants DEF LimitKept

\* Every step keeps the campaign's types.
LEMMA MgrTypesStep ==
  ASSUME Types, [Next]_vars
  PROVE  MgrTypes'
<1>1. CASE UNCHANGED vars
  BY <1>1 DEF vars, busVars, mgrVars, Types, MgrTypes, Campaign, Status, Place
<1>2. ASSUME NEW c \in Client,
             Create(c) \/ Delete(c) \/ UpdateCampaign(c)
      PROVE  MgrTypes'
  <2>1. CASE Create(c) \/ Delete(c)
    BY <2>1, Constants DEF Create, Delete, Begins, Overtaken, Types, MgrTypes,
       Campaign, Status, Place
  <2>2. CASE UpdateCampaign(c)
    BY <2>2, GetTypes, Constants DEF UpdateCampaign, Begins, Types, MgrTypes
  <2>3. QED BY <1>2, <2>1, <2>2
<1>3. ASSUME NEW c \in Client, NEW k \in Commission,
             AddCommission(c, k) \/ RemoveCommission(c, k)
      PROVE  MgrTypes'
  <2>1. /\ [campaign EXCEPT !.commissions = @ \cup {k}] \in Campaign
        /\ [campaign EXCEPT !.commissions = @ \ {k}] \in Campaign
    BY DEF Types, MgrTypes, Campaign
  <2>2. QED BY <1>3, <2>1, GetTypes, Constants DEF AddCommission,
        RemoveCommission, Begins, Types, MgrTypes
<1>4. ASSUME NEW c \in Client, NEW s \in Status, TransitionState(c, s)
      PROVE  MgrTypes'
  <2>1. [campaign EXCEPT !.status = s] \in Campaign
    BY DEF Types, MgrTypes, Campaign
  <2>2. QED BY <1>4, <2>1, GetTypes, Constants DEF TransitionState, Begins,
        Types, MgrTypes
<1>5. ASSUME NEW p \in Process, CheckExists(p)
      PROVE  MgrTypes'
  <2>1. CASE Exists
    BY <1>5, <2>1 DEF CheckExists, Types, MgrTypes, Place
  <2>2. CASE ~Exists
    BY <1>5, <2>2, Constants DEF CheckExists, AtEnd, Types, MgrTypes, Place
  <2>3. QED BY <2>1, <2>2
<1>6. ASSUME NEW p \in Process, Put(p)
      PROVE  MgrTypes'
  BY <1>6, Constants DEF Put, Overtaken, busVars, watchVars, Types, MgrTypes,
     Campaign, Status, Place
<1>7. ASSUME NEW p \in Process, PublishNext(p)
      PROVE  MgrTypes'
  BY <1>7, Constants DEF PublishNext, AtEnd, busVars, watchVars, Types,
     MgrTypes, Campaign, Status, Place
<1>8. ASSUME NEW i \in SubID, NEW k \in Commission, ListCampaigns(i, k)
      PROVE  MgrTypes'
  BY <1>8, Constants DEF ListCampaigns, IsNext, Served, busVars, watchVars,
     Types, MgrTypes, Campaign, Status, Place
<1>9. ASSUME UpdateProgress
      PROVE  MgrTypes'
  <2>1. CASE Exists
    BY <1>9, <2>1, GetTypes, Constants DEF UpdateProgress, Types, MgrTypes
  <2>2. CASE ~Exists
    BY <1>9, <2>2, Constants DEF UpdateProgress, Types, MgrTypes, Place
  <2>3. QED BY <2>1, <2>2
<1>10. ASSUME NEW i \in SubID, HandlerReturns(i)
      PROVE  MgrTypes'
  <2>1. [campaign EXCEPT !.status = "completed"] \in Campaign
    BY DEF Types, MgrTypes, Campaign, Status
  <2>2. CASE Get(BusWorker, [campaign EXCEPT !.status = "completed"],
                 UpdatedAndChanged) /\ UNCHANGED listed
    BY <1>10, <2>1, <2>2, GetTypes, Constants DEF HandlerReturns, Types, MgrTypes
  <2>3. CASE /\ at' = [at EXCEPT ![BusWorker] = "idle"]
             /\ listed' = NoCampaign
             /\ UNCHANGED <<copy, outbox, stale>>
    BY <1>10, <2>3, Constants DEF HandlerReturns, Types, MgrTypes, Place
  <2>4. QED BY <1>10, <2>2, <2>3 DEF HandlerReturns
<1>11. ASSUME NEW c \in Client, Subscribe(c)
      PROVE  MgrTypes'
  BY <1>11, Constants, SMTT(30) DEF Subscribe, Begins, busVars, watchVars, Types,
     MgrTypes, Campaign, Status, Place
<1>12. ASSUME NEW c \in Client, BusSubscribe(c)
      PROVE  MgrTypes'
  BY <1>12, Constants DEF BusSubscribe, busVars, watchVars, Types, MgrTypes,
     Campaign, Status, Place
<1>13. ASSUME NEW c \in Client, Unsubscribe(c)
      PROVE  MgrTypes'
  BY <1>13, Constants DEF Unsubscribe, HandlersWithout, Leaves, busVars,
     watchVars, Types, MgrTypes, Campaign, Status, Place
<1>14. ASSUME NEW c \in Client, BusUnsubscribe(c)
      PROVE  MgrTypes'
  BY <1>14, Constants DEF BusUnsubscribe, Leaves, LockFree, busVars,
     watchVars, Types, MgrTypes, Campaign, Status, Place
<1>15. ASSUME NEW i \in SubID, CopyHandlers(i) \/ CallHandlers(i)
      PROVE  MgrTypes'
  BY <1>15, Constants DEF CopyHandlers, CallHandlers, IsNext, Served,
     busVars, watchVars, Types, MgrTypes, Campaign, Status, Place
<1>16. ASSUME ReceiveEvent \/ StopProcessing \/ DeliverEvent \/ DeliveryDone \/ Close,
             UNCHANGED mgrVars
      PROVE  MgrTypes'
  BY <1>16, Constants DEF ReceiveEvent, StopProcessing, DeliverEvent,
     DeliveryDone, Close, Waiting, mgrVars, busVars, watchVars, Types,
     MgrTypes, Campaign, Status, Place
<1>17. ASSUME NEW type \in {"commission.completed", "commission.status.changed"},
             CommissionEvent(type)
      PROVE  MgrTypes'
  BY <1>17, Constants DEF CommissionEvent, busVars, watchVars, Types,
     MgrTypes, Campaign, Status, Place
<1>18. QED
  BY <1>1, <1>2, <1>3, <1>4, <1>5, <1>6, <1>7,
     <1>8, <1>9, <1>10, <1>11, <1>12, <1>13, <1>14, <1>15, <1>16, <1>17
     DEF Next, Saves, Delivers, Requests

\* Every step keeps something to publish.
LEMMA OutTypesStep ==
  ASSUME Types, [Next]_vars
  PROVE  OutTypes'
<1>1. CASE UNCHANGED vars
  BY <1>1 DEF vars, busVars, mgrVars, Types, OutTypes, MgrTypes, Place
<1>2. ASSUME NEW c \in Client,
             Create(c) \/ Delete(c) \/ UpdateCampaign(c)
      PROVE  OutTypes'
  <2>1. CASE Create(c) \/ Delete(c)
    <3>1. /\ at' = [at EXCEPT ![c] = "publish"]
          /\ outbox' = [outbox EXCEPT ![c] = <<"campaign.changed">>]
      BY <2>1 DEF Create, Delete
    <3>2. <<"campaign.changed">> \in Seq(EventType) \ {<<>>}
      BY Constants
    <3>3. c \in Process
      BY DEF Process
    <3>4. QED BY <3>1, <3>2, <3>3 DEF Types, OutTypes, MgrTypes
  <2>2. CASE UpdateCampaign(c)
    <3>1. Get(c, campaign, Updated)
      BY <2>2 DEF UpdateCampaign
    <3>2. c \in Process /\ MgrTypes /\ OutTypes
      BY DEF Process, Types
    <3>3. Updated \in {Updated, UpdatedAndChanged}
      OBVIOUS
    <3>4. QED BY <3>1, <3>2, <3>3, GetOutbox
  <2>3. QED BY <1>2, <2>1, <2>2
<1>3. ASSUME NEW c \in Client, NEW k \in Commission,
             AddCommission(c, k) \/ RemoveCommission(c, k)
      PROVE  OutTypes'
  BY <1>3, GetOutbox, Constants DEF AddCommission, RemoveCommission, Types
<1>4. ASSUME NEW c \in Client, NEW s \in Status, TransitionState(c, s)
      PROVE  OutTypes'
  BY <1>4, GetOutbox, Constants DEF TransitionState, Types
<1>5. ASSUME NEW p \in Process, CheckExists(p)
      PROVE  OutTypes'
  <2>1. CASE Exists
    <3>1. at[p] = "check" /\ at' = [at EXCEPT ![p] = "put"]
      BY <1>5, <2>1 DEF CheckExists
    <3>2. copy' = copy /\ outbox' = outbox
      BY <1>5, <2>1 DEF CheckExists
    <3>3. QED BY <3>1, <3>2 DEF Types, OutTypes, MgrTypes
  <2>2. CASE ~Exists
    <3>1. AtEnd(p) \in {"progressed", "idle"}
      BY DEF AtEnd
    <3>2. /\ at' = [at EXCEPT ![p] = AtEnd(p)]
          /\ outbox' = [outbox EXCEPT ![p] = <<>>]
      BY <1>5, <2>2 DEF CheckExists
    <3>3. QED BY <3>1, <3>2 DEF Types, OutTypes, MgrTypes
  <2>3. QED BY <2>1, <2>2
<1>6. ASSUME NEW p \in Process, Put(p)
      PROVE  OutTypes'
  BY <1>6, Constants DEF Put, Overtaken, busVars, watchVars, Types, OutTypes,
     MgrTypes, Place
<1>7. ASSUME NEW p \in Process, PublishNext(p)
      PROVE  OutTypes'
  <2>1. outbox[p] \in Seq(EventType) /\ outbox[p] # <<>>
    BY <1>7 DEF PublishNext, Types, OutTypes
  <2>2. Tail(outbox[p]) \in Seq(EventType)
    BY <2>1, HeadTailProperties
  <2>3. Len(outbox[p]) > 1 => Tail(outbox[p]) # <<>>
    BY <2>1, TailLeft
  <2>4. QED BY <1>7, <2>2, <2>3 DEF PublishNext, AtEnd, Types, OutTypes, MgrTypes
<1>8. ASSUME NEW i \in SubID, NEW k \in Commission, ListCampaigns(i, k)
      PROVE  OutTypes'
  BY <1>8, Constants DEF ListCampaigns, IsNext, Served, busVars, watchVars,
     Types, OutTypes, MgrTypes, Place
<1>9. ASSUME UpdateProgress
      PROVE  OutTypes'
  <2>1. CASE Exists
    BY <1>9, <2>1, Constants DEF UpdateProgress, Get, Process, Types, OutTypes,
       MgrTypes, Place
  <2>2. CASE ~Exists
    BY <1>9, <2>2, Constants DEF UpdateProgress, Process, Types, OutTypes,
       MgrTypes, Place
  <2>3. QED BY <2>1, <2>2
<1>10. ASSUME NEW i \in SubID, HandlerReturns(i)
      PROVE  OutTypes'
  <2>1. CASE Get(BusWorker, [campaign EXCEPT !.status = "completed"],
                 UpdatedAndChanged)
    BY <2>1, GetOutbox, Constants DEF Process, Types
  <2>2. CASE at' = [at EXCEPT ![BusWorker] = "idle"] /\ outbox' = outbox
    BY <2>2, Constants DEF Process, Types, OutTypes, MgrTypes, Place
  <2>3. QED BY <1>10, <2>1, <2>2 DEF HandlerReturns
<1>11. ASSUME NEW c \in Client, Subscribe(c)
      PROVE  OutTypes'
  BY <1>11, Constants DEF Subscribe, Begins, busVars, watchVars, Types,
     OutTypes, MgrTypes, Place
<1>12. ASSUME NEW c \in Client, BusSubscribe(c)
      PROVE  OutTypes'
  BY <1>12, Constants DEF BusSubscribe, busVars, watchVars, Types, OutTypes,
     MgrTypes, Place
<1>13. ASSUME NEW c \in Client, Unsubscribe(c)
      PROVE  OutTypes'
  BY <1>13, Constants DEF Unsubscribe, HandlersWithout, Leaves, busVars,
     watchVars, Types, OutTypes, MgrTypes, Place
<1>14. ASSUME NEW c \in Client, BusUnsubscribe(c)
      PROVE  OutTypes'
  BY <1>14, Constants DEF BusUnsubscribe, Leaves, LockFree, busVars,
     watchVars, Types, OutTypes, MgrTypes, Place
<1>15. ASSUME NEW i \in SubID, CopyHandlers(i) \/ CallHandlers(i)
      PROVE  OutTypes'
  BY <1>15, Constants DEF CopyHandlers, CallHandlers, IsNext, Served,
     busVars, watchVars, Types, OutTypes, MgrTypes, Place
<1>16. ASSUME ReceiveEvent \/ StopProcessing \/ DeliverEvent \/ DeliveryDone \/ Close,
             UNCHANGED mgrVars
      PROVE  OutTypes'
  BY <1>16, Constants DEF ReceiveEvent, StopProcessing, DeliverEvent,
     DeliveryDone, Close, Waiting, mgrVars, busVars, watchVars, Types,
     OutTypes, MgrTypes, Place
<1>17. ASSUME NEW type \in {"commission.completed", "commission.status.changed"},
             CommissionEvent(type)
      PROVE  OutTypes'
  BY <1>17, Constants DEF CommissionEvent, busVars, watchVars, Types,
     OutTypes, MgrTypes, Place
<1>18. QED
  BY <1>1, <1>2, <1>3, <1>4, <1>5, <1>6, <1>7,
     <1>8, <1>9, <1>10, <1>11, <1>12, <1>13, <1>14, <1>15, <1>16, <1>17
     DEF Next, Saves, Delivers, Requests

\* Every step keeps m.mu exclusive.
LEMMA WatchTypesStep ==
  ASSUME Types, [Next]_vars
  PROVE  WatchTypes'
<1>1. CASE UNCHANGED vars
  BY <1>1 DEF vars, busVars, mgrVars, Types, WatchTypes, MgrTypes, Place
<1>2. ASSUME NEW c \in Client,
             Create(c) \/ Delete(c) \/ UpdateCampaign(c)
      PROVE  WatchTypes'
  BY <1>2, Constants DEF Create, Delete, UpdateCampaign, Begins, Get,
     Overtaken, busVars, watchVars, Types, WatchTypes, MgrTypes, Place
<1>3. ASSUME NEW c \in Client, NEW k \in Commission,
             AddCommission(c, k) \/ RemoveCommission(c, k)
      PROVE  WatchTypes'
  BY <1>3, Constants DEF AddCommission, RemoveCommission, Begins, Get,
     busVars, watchVars, Types, WatchTypes, MgrTypes, Place
<1>4. ASSUME NEW c \in Client, NEW s \in Status, TransitionState(c, s)
      PROVE  WatchTypes'
  BY <1>4, Constants DEF TransitionState, Begins, Get, busVars, watchVars,
     Types, WatchTypes, MgrTypes, Place
<1>5. ASSUME NEW p \in Process, CheckExists(p)
      PROVE  WatchTypes'
  BY <1>5, Constants DEF CheckExists, AtEnd, busVars, watchVars, Types,
     WatchTypes, MgrTypes, Place
<1>6. ASSUME NEW p \in Process, Put(p)
      PROVE  WatchTypes'
  BY <1>6, Constants DEF Put, Overtaken, busVars, watchVars, Types,
     WatchTypes, MgrTypes, Place
<1>7. ASSUME NEW p \in Process, PublishNext(p)
      PROVE  WatchTypes'
  BY <1>7, Constants DEF PublishNext, AtEnd, busVars, watchVars, Types,
     WatchTypes, MgrTypes, Place
<1>8. ASSUME NEW i \in SubID, NEW k \in Commission, ListCampaigns(i, k)
      PROVE  WatchTypes'
  BY <1>8, Constants DEF ListCampaigns, IsNext, Served, busVars, watchVars,
     Types, WatchTypes, MgrTypes, Place
<1>9. ASSUME UpdateProgress
      PROVE  WatchTypes'
  BY <1>9, Constants DEF UpdateProgress, Get, busVars, watchVars, Types,
     WatchTypes, MgrTypes, Place
<1>10. ASSUME NEW i \in SubID, HandlerReturns(i)
      PROVE  WatchTypes'
  BY <1>10, Constants DEF HandlerReturns, IsNext, Served, Get, busVars,
     watchVars, Types, WatchTypes, MgrTypes, Place
<1>11. ASSUME NEW c \in Client, Subscribe(c)
      PROVE  WatchTypes'
  BY <1>11, Constants DEF Subscribe, Begins, busVars, watchVars, Types,
     WatchTypes, MgrTypes, Place
<1>12. ASSUME NEW c \in Client, BusSubscribe(c)
      PROVE  WatchTypes'
  BY <1>12, Constants, SMTT(30) DEF BusSubscribe, busVars, watchVars, Types,
     WatchTypes, MgrTypes, Place
<1>13. ASSUME NEW c \in Client, Unsubscribe(c)
      PROVE  WatchTypes'
  BY <1>13, Constants DEF Unsubscribe, HandlersWithout, Leaves, busVars,
     watchVars, Types, WatchTypes, MgrTypes, Place
<1>14. ASSUME NEW c \in Client, BusUnsubscribe(c)
      PROVE  WatchTypes'
  BY <1>14, Constants DEF BusUnsubscribe, Leaves, LockFree, busVars,
     watchVars, Types, WatchTypes, MgrTypes, Place
<1>15. ASSUME NEW i \in SubID, CopyHandlers(i) \/ CallHandlers(i)
      PROVE  WatchTypes'
  BY <1>15, Constants DEF CopyHandlers, CallHandlers, IsNext, Served,
     busVars, watchVars, Types, WatchTypes, MgrTypes, Place
<1>16. ASSUME ReceiveEvent \/ StopProcessing \/ DeliverEvent \/ DeliveryDone \/ Close,
             UNCHANGED mgrVars
      PROVE  WatchTypes'
  BY <1>16, Constants DEF ReceiveEvent, StopProcessing, DeliverEvent,
     DeliveryDone, Close, Waiting, mgrVars, busVars, watchVars, Types,
     WatchTypes, MgrTypes, Place
<1>17. ASSUME NEW type \in {"commission.completed", "commission.status.changed"},
             CommissionEvent(type)
      PROVE  WatchTypes'
  BY <1>17, Constants DEF CommissionEvent, busVars, watchVars, Types,
     WatchTypes, MgrTypes, Place
<1>18. QED
  BY <1>1, <1>2, <1>3, <1>4, <1>5, <1>6, <1>7,
     <1>8, <1>9, <1>10, <1>11, <1>12, <1>13, <1>14, <1>15, <1>16, <1>17
     DEF Next, Saves, Delivers, Requests

\* Every step keeps deliveries under the lock.
LEMMA BusTypesStep ==
  ASSUME Types, [Next]_vars
  PROVE  BusTypes'
<1>1. CASE UNCHANGED vars
  BY <1>1 DEF vars, busVars, mgrVars, Types, BusTypes, MgrTypes, Delivery, SubID
<1>2. ASSUME NEW c \in Client,
             Create(c) \/ Delete(c) \/ UpdateCampaign(c)
      PROVE  BusTypes'
  BY <1>2, Constants DEF Create, Delete, UpdateCampaign, Begins, Get,
     Overtaken, busVars, watchVars, Types, BusTypes, MgrTypes, Delivery,
     SubID
<1>3. ASSUME NEW c \in Client, NEW k \in Commission,
             AddCommission(c, k) \/ RemoveCommission(c, k)
      PROVE  BusTypes'
  BY <1>3, Constants DEF AddCommission, RemoveCommission, Begins, Get,
     busVars, watchVars, Types, BusTypes, MgrTypes, Delivery, SubID
<1>4. ASSUME NEW c \in Client, NEW s \in Status, TransitionState(c, s)
      PROVE  BusTypes'
  BY <1>4, Constants DEF TransitionState, Begins, Get, busVars, watchVars,
     Types, BusTypes, MgrTypes, Delivery, SubID
<1>5. ASSUME NEW p \in Process, CheckExists(p)
      PROVE  BusTypes'
  BY <1>5, Constants DEF CheckExists, AtEnd, busVars, watchVars, Types,
     BusTypes, MgrTypes, Delivery, SubID
<1>6. ASSUME NEW p \in Process, Put(p)
      PROVE  BusTypes'
  BY <1>6, Constants DEF Put, Overtaken, busVars, watchVars, Types, BusTypes,
     MgrTypes, Delivery, SubID
<1>7. ASSUME NEW p \in Process, PublishNext(p)
      PROVE  BusTypes'
  BY <1>7, Constants DEF PublishNext, AtEnd, busVars, watchVars, Types,
     BusTypes, MgrTypes, Delivery, SubID
<1>8. ASSUME NEW i \in SubID, NEW k \in Commission, ListCampaigns(i, k)
      PROVE  BusTypes'
  <2>1. CASE UNCHANGED delivery
    BY <1>8, <2>1 DEF ListCampaigns, Types, BusTypes
  <2>2. CASE Served(i)
    <3>1. delivery' = [delivery EXCEPT !.todo = delivery.todo \ {i}]
      BY <2>2 DEF Served
    <3>2. closed' = closed /\ subs' = subs
      BY <1>8 DEF ListCampaigns
    <3>3. QED BY <3>1, <3>2 DEF Types, BusTypes, Delivery
  <2>3. QED BY <1>8, <2>1, <2>2 DEF ListCampaigns
<1>9. ASSUME UpdateProgress
      PROVE  BusTypes'
  BY <1>9, Constants DEF UpdateProgress, Get, busVars, watchVars, Types,
     BusTypes, MgrTypes, Delivery, SubID
<1>10. ASSUME NEW i \in SubID, HandlerReturns(i)
      PROVE  BusTypes'
  BY <1>10, Constants DEF HandlerReturns, IsNext, Served, Get, busVars,
     watchVars, Types, BusTypes, MgrTypes, Delivery, SubID
<1>11. ASSUME NEW c \in Client, Subscribe(c)
      PROVE  BusTypes'
  BY <1>11, Constants DEF Subscribe, Begins, busVars, watchVars, Types,
     BusTypes, MgrTypes, Delivery, SubID
<1>12. ASSUME NEW c \in Client, BusSubscribe(c)
      PROVE  BusTypes'
  BY <1>12, Constants DEF BusSubscribe, busVars, watchVars, Types, BusTypes,
     MgrTypes, Delivery, SubID
<1>13. ASSUME NEW c \in Client, Unsubscribe(c)
      PROVE  BusTypes'
  BY <1>13, Constants DEF Unsubscribe, HandlersWithout, Leaves, busVars,
     watchVars, Types, BusTypes, MgrTypes, Delivery, SubID
<1>14. ASSUME NEW c \in Client, BusUnsubscribe(c)
      PROVE  BusTypes'
  BY <1>14, Constants DEF BusUnsubscribe, Leaves, LockFree, busVars,
     watchVars, Types, BusTypes, MgrTypes, Delivery, SubID
<1>15. ASSUME NEW i \in SubID, CopyHandlers(i) \/ CallHandlers(i)
      PROVE  BusTypes'
  BY <1>15, Constants DEF CopyHandlers, CallHandlers, IsNext, Served,
     busVars, watchVars, Types, BusTypes, MgrTypes, Delivery, SubID
<1>16. ASSUME ReceiveEvent \/ StopProcessing \/ DeliverEvent \/ DeliveryDone \/ Close,
             UNCHANGED mgrVars
      PROVE  BusTypes'
  <2>1. CASE ReceiveEvent
    <3>1. eventChan # <<>> /\ eventChan \in Seq(EventType)
      BY <2>1 DEF ReceiveEvent, Types, QueueTypes
    <3>2. Head(eventChan) \in EventType
      BY <3>1
    <3>3. Head(eventChan) # "none"
      BY <3>2, Constants
    <3>4. QED BY <2>1, <3>2, <3>3 DEF ReceiveEvent, Types, BusTypes, Delivery
  <2>2. CASE StopProcessing
    BY <1>16, <2>2, Constants DEF StopProcessing, mgrVars, Types, BusTypes, QueueTypes,
       Delivery, SubID
  <2>3. CASE DeliverEvent
    BY <1>16, <2>3, Constants DEF DeliverEvent, mgrVars, Types, BusTypes, QueueTypes,
       Delivery, SubID
  <2>4. CASE DeliveryDone
    BY <1>16, <2>4, Constants DEF DeliveryDone, mgrVars, Types, BusTypes, QueueTypes,
       Delivery, SubID, Waiting
  <2>5. CASE Close
    BY <1>16, <2>5, Constants DEF Close, mgrVars, Types, BusTypes, QueueTypes,
       Delivery, SubID
  <2>6. QED BY <1>16, <2>1, <2>2, <2>3, <2>4, <2>5
<1>17. ASSUME NEW type \in {"commission.completed", "commission.status.changed"},
             CommissionEvent(type)
      PROVE  BusTypes'
  BY <1>17, Constants DEF CommissionEvent, busVars, watchVars, Types,
     BusTypes, MgrTypes, Delivery, SubID
<1>18. QED
  BY <1>1, <1>2, <1>3, <1>4, <1>5, <1>6, <1>7,
     <1>8, <1>9, <1>10, <1>11, <1>12, <1>13, <1>14, <1>15, <1>16, <1>17
     DEF Next, Saves, Delivers, Requests

\* Events are published one at a time; nothing else fills the queue.
LEMMA QueueTypesStep ==
  ASSUME Types, [Next]_vars
  PROVE  QueueTypes'
<1>1. CASE UNCHANGED eventChan
  BY <1>1 DEF Types, QueueTypes
<1>2. ASSUME NEW type \in EventType, Publish(type) PROVE QueueTypes'
  BY <1>2, PublishType DEF Types
<1>3. ASSUME ReceiveEvent PROVE QueueTypes'
  BY <1>3, Constants DEF ReceiveEvent, Types, QueueTypes
<1>4. ASSUME NEW p \in Process, PublishNext(p)
      PROVE  \E type \in EventType : Publish(type)
  <2>1. Head(outbox[p]) \in EventType
    BY <1>4 DEF PublishNext, Types, OutTypes
  <2>2. QED BY <1>4, <2>1 DEF PublishNext
<1>5. ASSUME NEW type \in {"commission.completed", "commission.status.changed"},
             CommissionEvent(type)
      PROVE  \E t \in EventType : Publish(t)
  BY <1>5, Constants DEF CommissionEvent
<1>6. \/ UNCHANGED eventChan \/ ReceiveEvent
      \/ \E p \in Process : PublishNext(p)
      \/ \E type \in {"commission.completed", "commission.status.changed"} :
           CommissionEvent(type)
  BY DEF Next, Saves, Delivers, Requests, vars, busVars, Create, Delete,
     UpdateCampaign, AddCommission, RemoveCommission, TransitionState,
     CheckExists, Put, ListCampaigns, UpdateProgress, HandlerReturns, Subscribe,
     BusSubscribe, Unsubscribe, BusUnsubscribe, CopyHandlers, CallHandlers,
     StopProcessing, DeliverEvent, DeliveryDone, Close
<1>7. QED BY <1>1, <1>2, <1>3, <1>4, <1>5, <1>6

\* Only a subscription within the limit is added.
LEMMA LimitStep ==
  ASSUME Types, [Next]_vars
  PROVE  LimitKept'
<1>1. CASE UNCHANGED subs
  BY <1>1 DEF Types, LimitKept, Active
<1>2. ASSUME NEW c \in Client, BusSubscribe(c) PROVE LimitKept'
  <2>1. CASE UNCHANGED subs
    BY <2>1 DEF Types, LimitKept, Active
  <2>2. CASE MaySubscribe /\ subs' = [subs EXCEPT ![nextSubID + 1] =
                                        "campaign.updated"]
    <3>1. Active' \subseteq Active \cup {nextSubID + 1}
      BY <2>2 DEF Active, Types, BusTypes
    <3>2. IsFiniteSet(Active)
      <4>1. IsFiniteSet(SubID)
        BY Constants, FS_Interval DEF SubID
      <4>2. QED BY <4>1, FS_Subset DEF Active
    <3>3. /\ IsFiniteSet(Active \cup {nextSubID + 1})
          /\ Cardinality(Active \cup {nextSubID + 1}) <= Cardinality(Active) + 1
          /\ Cardinality(Active) \in Nat
      <4>1. Cardinality(Active) \in Nat
        BY <3>2, FS_CardinalityType
      <4>2. /\ IsFiniteSet(Active \cup {nextSubID + 1})
            /\ \/ Cardinality(Active \cup {nextSubID + 1}) = Cardinality(Active)
               \/ Cardinality(Active \cup {nextSubID + 1}) = Cardinality(Active) + 1
        BY <3>2, FS_AddElement, Zenon
      <4>3. QED BY <4>1, <4>2
    <3>4. /\ Cardinality(Active') <= Cardinality(Active \cup {nextSubID + 1})
          /\ Cardinality(Active') \in Nat
          /\ Cardinality(Active \cup {nextSubID + 1}) \in Nat
      BY <3>1, <3>3, FS_Subset, FS_CardinalityType
    <3>5. Cardinality(Active) < MaxSubscriptions
      BY <2>2 DEF MaySubscribe
    <3>6. QED BY <3>3, <3>4, <3>5, Constants DEF LimitKept
  <2>3. QED BY <1>2, <2>1, <2>2 DEF BusSubscribe
<1>3. ASSUME NEW c \in Client, BusUnsubscribe(c) PROVE LimitKept'
  <2>1. Active' \subseteq Active
    BY <1>3 DEF BusUnsubscribe, Active, Types, BusTypes
  <2>2. QED BY <2>1, FewerSubscriptions DEF Types
<1>4. \/ UNCHANGED subs
      \/ \E c \in Client : BusSubscribe(c) \/ BusUnsubscribe(c)
  BY DEF Next, Saves, Delivers, Requests, vars, busVars, Create, Delete,
     UpdateCampaign, AddCommission, RemoveCommission, TransitionState,
     CheckExists, Put, PublishNext, CommissionEvent, ListCampaigns,
     UpdateProgress, HandlerReturns, Subscribe, Unsubscribe, CopyHandlers,
     CallHandlers, ReceiveEvent, StopProcessing, DeliverEvent, DeliveryDone,
     Close
<1>5. QED BY <1>1, <1>2, <1>3, <1>4

\* The first state.
LEMMA TypesInit == Init => Types
<1> SUFFICES ASSUME Init PROVE Types
  OBVIOUS
<1>1. MgrTypes /\ OutTypes /\ QueueTypes
  BY Constants DEF Init, MgrTypes, OutTypes, QueueTypes, Campaign, Status, Place
<1>2. WatchTypes
  BY Constants DEF Init, WatchTypes, Process
<1>3. BusTypes
  BY Constants DEF Init, BusTypes, Waiting, Delivery, SubID, CompletedSub,
     StatusSub
<1>4. LimitKept
  <2>1. Active = {1} \cup {2}
    BY Constants DEF Init, Active, CompletedSub, StatusSub, SubID
  <2>2. Cardinality({1}) = 1 /\ IsFiniteSet({1})
    BY FS_Singleton
  <2>3. Cardinality({1} \cup {2}) = 2
    BY <2>2, FS_AddElement
  <2>4. QED BY <2>1, <2>3, Constants DEF LimitKept
<1>5. QED BY <1>1, <1>2, <1>3, <1>4 DEF Types

\* Every step keeps all of it.
LEMMA TypesStep == Types /\ [Next]_vars => Types'
<1> SUFFICES ASSUME Types, [Next]_vars PROVE Types'
  OBVIOUS
<1>1. MgrTypes' /\ OutTypes' /\ WatchTypes'
  BY MgrTypesStep, OutTypesStep, WatchTypesStep
<1>2. BusTypes' /\ QueueTypes' /\ LimitKept'
  BY BusTypesStep, QueueTypesStep, LimitStep
<1>3. QED BY <1>1, <1>2 DEF Types

\* Every state is well typed: the queue and the subscriptions keep their limits
\* and m.mu has at most one holder.
THEOREM TypeCorrect == Spec => []TypeOK
<1>1. Types => TypeOK
  BY DEF Types, MgrTypes, OutTypes, WatchTypes, BusTypes, QueueTypes,
     LimitKept, TypeOK, BusTypeOK
<1>2. QED BY <1>1, TypesInit, TypesStep, PTL DEF Spec

-------------------------------------------------------------------------------
(* The campaign *)

\* Somebody about to save a copy that no save has overtaken saves what one
\* operation may make of the campaign as it is.
FreshCopies ==
  \A p \in Process :
    at[p] \in {"check", "put"} /\ p \notin stale =>
      Exists /\ Legal(campaign, copy[p])

\* A copy that is just read, and changed as one operation may.
LEMMA GetKeepsFresh ==
  ASSUME MgrTypes, FreshCopies, NEW p \in Process, NEW new, NEW events,
         Legal(campaign, new), Get(p, new, events), UNCHANGED campaign
  PROVE  FreshCopies'
<1> SUFFICES ASSUME NEW q \in Process, at'[q] \in {"check", "put"},
                    q \notin stale'
             PROVE  Exists' /\ Legal(campaign', copy'[q])
  BY DEF FreshCopies
<1>1. Exists' /\ campaign' = campaign
  BY DEF Get, Exists
<1>2. CASE q = p
  BY <1>1, <1>2 DEF Get, MgrTypes
<1>3. CASE q # p
  <2>1. at[q] \in {"check", "put"} /\ q \notin stale /\ copy'[q] = copy[q]
    BY <1>3 DEF Get, MgrTypes
  <2>2. QED BY <2>1, <1>1 DEF FreshCopies
<1>4. QED BY <1>2, <1>3

\* Every step keeps fresh copies legal.
LEMMA FreshCopiesStep ==
  ASSUME Types, FreshCopies, [Next]_vars
  PROVE  FreshCopies'
<1>1. CASE UNCHANGED vars
  BY <1>1 DEF vars, busVars, mgrVars, Types, FreshCopies, MgrTypes, Exists, Legal, CanTransition, NoCampaign
<1>2. ASSUME NEW c \in Client,
             Create(c) \/ Delete(c) \/ UpdateCampaign(c)
      PROVE  FreshCopies'
  <2>1. CASE Create(c)
    BY <2>1 DEF Create, Types, FreshCopies, MgrTypes, Exists, NoCampaign
  <2>2. CASE Delete(c)
    BY <2>2 DEF Delete, Overtaken, Types, FreshCopies, MgrTypes
  <2>3. CASE UpdateCampaign(c)
    <3>1. Legal(campaign, campaign)
      BY DEF Legal
    <3>2. QED BY <2>3, <3>1, GetKeepsFresh, Constants DEF UpdateCampaign, Types
  <2>4. QED BY <1>2, <2>1, <2>2, <2>3
<1>3. ASSUME NEW c \in Client, NEW k \in Commission,
             AddCommission(c, k) \/ RemoveCommission(c, k)
      PROVE  FreshCopies'
  <2>1. /\ Legal(campaign, [campaign EXCEPT !.commissions = @ \cup {k}])
        /\ Legal(campaign, [campaign EXCEPT !.commissions = @ \ {k}])
    BY DEF Legal, Types, MgrTypes, Campaign
  <2>2. QED BY <1>3, <2>1, GetKeepsFresh, Constants DEF AddCommission,
        RemoveCommission, Types
<1>4. ASSUME NEW c \in Client, NEW s \in Status, TransitionState(c, s)
      PROVE  FreshCopies'
  <2>1. CanTransition(campaign.status, s) =>
          Legal(campaign, [campaign EXCEPT !.status = s])
    BY DEF Legal, CanTransition, Types, MgrTypes, Campaign
  <2>2. QED BY <1>4, <2>1, GetKeepsFresh, Constants DEF TransitionState, Types
<1>5. ASSUME NEW p \in Process, CheckExists(p)
      PROVE  FreshCopies'
  <2>1. CASE Exists
    BY <1>5, <2>1 DEF CheckExists, Types, FreshCopies, MgrTypes, Exists, Legal
  <2>2. CASE ~Exists
    BY <1>5, <2>2, Constants DEF CheckExists, AtEnd, Types, FreshCopies,
       MgrTypes, Exists, Legal
  <2>3. QED BY <2>1, <2>2
<1>6. ASSUME NEW p \in Process, Put(p)
      PROVE  FreshCopies'
  BY <1>6, Constants DEF Put, Overtaken, busVars, watchVars, Types,
     FreshCopies, MgrTypes, Exists, Legal, CanTransition, NoCampaign
<1>7. ASSUME NEW p \in Process, PublishNext(p)
      PROVE  FreshCopies'
  BY <1>7, Constants DEF PublishNext, AtEnd, busVars, watchVars, Types,
     FreshCopies, MgrTypes, Exists, Legal, CanTransition, NoCampaign
<1>8. ASSUME NEW i \in SubID, NEW k \in Commission, ListCampaigns(i, k)
      PROVE  FreshCopies'
  BY <1>8, Constants DEF ListCampaigns, IsNext, Served, busVars, watchVars,
     Types, FreshCopies, MgrTypes, Exists, Legal, CanTransition, NoCampaign
<1>9. ASSUME UpdateProgress
      PROVE  FreshCopies'
  <2>1. Legal(campaign, campaign)
    BY DEF Legal
  <2>2. CASE Exists
    BY <1>9, <2>1, <2>2, GetKeepsFresh, Constants DEF UpdateProgress, Types
  <2>3. CASE ~Exists
    BY <1>9, <2>3 DEF UpdateProgress, Types, FreshCopies, MgrTypes, Exists, Legal
  <2>4. QED BY <2>2, <2>3
<1>10. ASSUME NEW i \in SubID, HandlerReturns(i)
      PROVE  FreshCopies'
  <2>1. CanTransition(campaign.status, "completed") =>
          Legal(campaign, [campaign EXCEPT !.status = "completed"])
    BY DEF Legal, CanTransition, Types, MgrTypes, Campaign
  <2>2. CASE /\ CanTransition(campaign.status, "completed")
             /\ Get(BusWorker, [campaign EXCEPT !.status = "completed"],
                    UpdatedAndChanged)
    BY <1>10, <2>1, <2>2, GetKeepsFresh, Constants DEF HandlerReturns, Types
  <2>3. CASE /\ at' = [at EXCEPT ![BusWorker] = "idle"]
             /\ UNCHANGED <<copy, outbox, stale>>
    BY <1>10, <2>3 DEF HandlerReturns, Types, FreshCopies, MgrTypes, Exists, Legal
  <2>4. QED BY <1>10, <2>2, <2>3 DEF HandlerReturns
<1>11. ASSUME NEW c \in Client, Subscribe(c)
      PROVE  FreshCopies'
  BY <1>11, Constants DEF Subscribe, Begins, busVars, watchVars, Types,
     FreshCopies, MgrTypes, Exists, Legal, CanTransition, NoCampaign
<1>12. ASSUME NEW c \in Client, BusSubscribe(c)
      PROVE  FreshCopies'
  BY <1>12, Constants DEF BusSubscribe, busVars, watchVars, Types,
     FreshCopies, MgrTypes, Exists, Legal, CanTransition, NoCampaign
<1>13. ASSUME NEW c \in Client, Unsubscribe(c)
      PROVE  FreshCopies'
  BY <1>13, Constants DEF Unsubscribe, HandlersWithout, Leaves, busVars,
     watchVars, Types, FreshCopies, MgrTypes, Exists, Legal, CanTransition,
     NoCampaign
<1>14. ASSUME NEW c \in Client, BusUnsubscribe(c)
      PROVE  FreshCopies'
  BY <1>14, Constants DEF BusUnsubscribe, Leaves, LockFree, busVars,
     watchVars, Types, FreshCopies, MgrTypes, Exists, Legal, CanTransition,
     NoCampaign
<1>15. ASSUME NEW i \in SubID, CopyHandlers(i) \/ CallHandlers(i)
      PROVE  FreshCopies'
  <2>1. /\ campaign' = campaign /\ copy' = copy /\ stale' = stale
        /\ \E to \in {"calling", "idle"} : at' = [at EXCEPT ![BusWorker] = to]
    BY <1>15 DEF CopyHandlers, CallHandlers
  <2>2. QED BY <2>1 DEF Types, FreshCopies, MgrTypes, Exists, Legal
<1>16. ASSUME ReceiveEvent \/ StopProcessing \/ DeliverEvent \/ DeliveryDone \/ Close,
             UNCHANGED mgrVars
      PROVE  FreshCopies'
  BY <1>16, Constants DEF ReceiveEvent, StopProcessing, DeliverEvent,
     DeliveryDone, Close, Waiting, mgrVars, busVars, watchVars, Types,
     FreshCopies, MgrTypes, Exists, Legal, CanTransition, NoCampaign
<1>17. ASSUME NEW type \in {"commission.completed", "commission.status.changed"},
             CommissionEvent(type)
      PROVE  FreshCopies'
  BY <1>17, Constants DEF CommissionEvent, busVars, watchVars, Types,
     FreshCopies, MgrTypes, Exists, Legal, CanTransition, NoCampaign
<1>18. QED
  BY <1>1, <1>2, <1>3, <1>4, <1>5, <1>6, <1>7,
     <1>8, <1>9, <1>10, <1>11, <1>12, <1>13, <1>14, <1>15, <1>16, <1>17
     DEF Next, Saves, Delivers, Requests

\* For any number of clients: the campaign leaves the edges of its state
\* machine, comes back after its deletion or loses a commission that was added
\* only by a save that another save has overtaken.
THEOREM OnlyLostUpdatesAreIllegal == Spec => LegalUnlessOvertaken
<1> DEFINE Fine ==
      \/ Legal(campaign, campaign')
      \/ campaign = NoCampaign /\ campaign'.status = "dream"
      \/ Exists /\ campaign'.status = "deleted"
      \/ \E p \in stale : at[p] = "put" /\ at'[p] = "publish"
<1>1. Init => FreshCopies
  BY DEF Init, FreshCopies
<1>2. Types /\ FreshCopies /\ [Next]_vars => FreshCopies'
  BY FreshCopiesStep
<1>3. Types /\ FreshCopies /\ [Next]_vars => [Fine]_vars
  <2> SUFFICES ASSUME Types, FreshCopies, [Next]_vars PROVE Fine
    OBVIOUS
  <2>1. ASSUME NEW p \in Process, Put(p) PROVE Fine
    BY <2>1 DEF Put, FreshCopies, Types, MgrTypes
  <2>2. ASSUME NEW c \in Client, Create(c) \/ Delete(c) PROVE Fine
    BY <2>2 DEF Create, Delete
  <2>3. CASE UNCHANGED campaign
    BY <2>3 DEF Legal
  <2>4. \/ UNCHANGED campaign
        \/ \E p \in Process : Put(p)
        \/ \E c \in Client : Create(c) \/ Delete(c)
    BY DEF Next, Saves, Delivers, Requests, vars, mgrVars,
       UpdateCampaign, AddCommission, RemoveCommission, TransitionState,
       CheckExists, PublishNext, CommissionEvent, ListCampaigns,
       UpdateProgress, HandlerReturns, Subscribe, BusSubscribe, Unsubscribe,
       BusUnsubscribe, CopyHandlers, CallHandlers
  <2>5. QED BY <2>1, <2>2, <2>3, <2>4
<1>4. QED
  BY <1>1, <1>2, <1>3, TypesInit, TypesStep, PTL DEF Spec, LegalUnlessOvertaken

-------------------------------------------------------------------------------
(* The watchers *)

\* The bus's goroutine calls handlers under b.mu.
CallsUnderLock ==
  /\ calls # {} => at[BusWorker] = "calling"
  /\ at[BusWorker] = "calling" => delivery.at = "locked" /\ delivery.todo # {}

\* While the bus is open a client whose handler may be called and who has left
\* is entering it again, under m.mu; a client who watches has a subscription of
\* the manager's to wait for.
Watched ==
  /\ CallsUnderLock
  /\ \A c \in Client : at[c] = "unsubscribing" => handlers = {}
  /\ ~closed =>
       /\ \A c \in calls : watching[c] # "left"
       /\ \A c \in handlers : watching[c] = "left" => at[c] = "subscribing"
       /\ subscription = 0 =>
            \A c \in handlers \cup calls : watching[c] # "yes"

\* Every step keeps that.
LEMMA WatchedStep ==
  ASSUME Types, Watched, [Next]_vars
  PROVE  Watched'
<1>1. CASE UNCHANGED vars
  BY <1>1 DEF vars, busVars, mgrVars, Types, Watched, CallsUnderLock, MgrTypes, WatchTypes, BusTypes
<1>2. ASSUME NEW c \in Client,
             Create(c) \/ Delete(c) \/ UpdateCampaign(c)
      PROVE  Watched'
  BY <1>2, Constants DEF Create, Delete, UpdateCampaign, Begins, Get,
     Overtaken, busVars, watchVars, Types, Watched, CallsUnderLock, MgrTypes,
     WatchTypes, BusTypes
<1>3. ASSUME NEW c \in Client, NEW k \in Commission,
             AddCommission(c, k) \/ RemoveCommission(c, k)
      PROVE  Watched'
  BY <1>3, Constants DEF AddCommission, RemoveCommission, Begins, Get,
     busVars, watchVars, Types, Watched, CallsUnderLock, MgrTypes,
     WatchTypes, BusTypes
<1>4. ASSUME NEW c \in Client, NEW s \in Status, TransitionState(c, s)
      PROVE  Watched'
  BY <1>4, Constants DEF TransitionState, Begins, Get, busVars, watchVars,
     Types, Watched, CallsUnderLock, MgrTypes, WatchTypes, BusTypes
<1>5. ASSUME NEW p \in Process, CheckExists(p)
      PROVE  Watched'
  BY <1>5, Constants DEF CheckExists, AtEnd, busVars, watchVars, Types,
     Watched, CallsUnderLock, MgrTypes, WatchTypes, BusTypes
<1>6. ASSUME NEW p \in Process, Put(p)
      PROVE  Watched'
  BY <1>6, Constants DEF Put, Overtaken, busVars, watchVars, Types, Watched,
     CallsUnderLock, MgrTypes, WatchTypes, BusTypes
<1>7. ASSUME NEW p \in Process, PublishNext(p)
      PROVE  Watched'
  BY <1>7, Constants, SMTT(30) DEF PublishNext, AtEnd, busVars, watchVars, Types,
     Watched, CallsUnderLock, MgrTypes, WatchTypes, BusTypes
<1>8. ASSUME NEW i \in SubID, NEW k \in Commission, ListCampaigns(i, k)
      PROVE  Watched'
  BY <1>8, Constants, SMTT(30) DEF ListCampaigns, IsNext, Served, busVars,
     watchVars, Types, Watched, CallsUnderLock, MgrTypes, WatchTypes, BusTypes
<1>9. ASSUME UpdateProgress
      PROVE  Watched'
  BY <1>9, Constants DEF UpdateProgress, Get, busVars, watchVars, Types,
     Watched, CallsUnderLock, MgrTypes, WatchTypes, BusTypes
<1>10. ASSUME NEW i \in SubID, HandlerReturns(i)
      PROVE  Watched'
  BY <1>10, Constants DEF HandlerReturns, IsNext, Served, Get, busVars,
     watchVars, Types, Watched, CallsUnderLock, MgrTypes, WatchTypes,
     BusTypes
<1>11. ASSUME NEW c \in Client, Subscribe(c)
      PROVE  Watched'
  BY <1>11, Constants DEF Subscribe, Begins, busVars, watchVars, Types,
     Watched, CallsUnderLock, MgrTypes, WatchTypes, BusTypes
<1>12. ASSUME NEW c \in Client, BusSubscribe(c)
      PROVE  Watched'
  BY <1>12, Constants DEF BusSubscribe, busVars, watchVars, Types, Watched,
     CallsUnderLock, MgrTypes, WatchTypes, BusTypes
<1>13. ASSUME NEW c \in Client, Unsubscribe(c)
      PROVE  Watched'
  BY <1>13, Constants DEF Unsubscribe, HandlersWithout, Leaves, busVars,
     watchVars, Types, Watched, CallsUnderLock, MgrTypes, WatchTypes,
     BusTypes
<1>14. ASSUME NEW c \in Client, BusUnsubscribe(c)
      PROVE  Watched'
  BY <1>14, Constants DEF BusUnsubscribe, Leaves, LockFree, busVars,
     watchVars, Types, Watched, CallsUnderLock, MgrTypes, WatchTypes,
     BusTypes
<1>15. ASSUME NEW i \in SubID, CopyHandlers(i) \/ CallHandlers(i)
      PROVE  Watched'
  BY <1>15, Constants DEF CopyHandlers, CallHandlers, IsNext, Served,
     busVars, watchVars, Types, Watched, CallsUnderLock, MgrTypes,
     WatchTypes, BusTypes
<1>16. ASSUME ReceiveEvent \/ StopProcessing \/ DeliverEvent \/ DeliveryDone \/ Close,
             UNCHANGED mgrVars
      PROVE  Watched'
  BY <1>16, Constants DEF ReceiveEvent, StopProcessing, DeliverEvent,
     DeliveryDone, Close, Waiting, mgrVars, busVars, watchVars, Types,
     Watched, CallsUnderLock, MgrTypes, WatchTypes, BusTypes
<1>17. ASSUME NEW type \in {"commission.completed", "commission.status.changed"},
             CommissionEvent(type)
      PROVE  Watched'
  BY <1>17, Constants DEF CommissionEvent, busVars, watchVars, Types,
     Watched, CallsUnderLock, MgrTypes, WatchTypes, BusTypes
<1>18. QED
  BY <1>1, <1>2, <1>3, <1>4, <1>5, <1>6, <1>7,
     <1>8, <1>9, <1>10, <1>11, <1>12, <1>13, <1>14, <1>15, <1>16, <1>17
     DEF Next, Saves, Delivers, Requests

\* For any number of watchers: none whose subscription succeeded is called after
\* its Unsubscribe returned, while the bus is open.
THEOREM NoLateCall == Spec => []NoCallAfterLeaving
<1>1. Init => Watched
  BY Constants DEF Init, Watched, CallsUnderLock, Waiting
<1>2. Types /\ Watched /\ [Next]_vars => Watched'
  BY WatchedStep
<1>3. Watched => NoCallAfterLeaving
  BY DEF Watched, NoCallAfterLeaving
<1>4. QED BY <1>1, <1>2, <1>3, TypesInit, TypesStep, PTL DEF Spec
==============================================================================
