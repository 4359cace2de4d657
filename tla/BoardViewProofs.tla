-------------------------- MODULE BoardViewProofs --------------------------
(* What holds of the event service and the board view for every number of     *)
(* streams, types of event and subscriptions, every capacity of the buffers,  *)
(* and however often connections break and the daemon is killed.              *)
EXTENDS BoardView, FiniteSetTheorems, SequenceTheorems, TLAPS

\* The constants, as the lemmas use them.
LEMMA Constants ==
  /\ "none" \notin EventType
  /\ Pattern \in Seq(EventType) /\ Len(Pattern) \in Nat /\ Len(Pattern) > 0
  /\ MaxSubID \in Nat /\ MaxSubscriptions \in Nat \ {0}
  /\ BufferSize \in Nat \ {0} /\ Window \in Nat \ {0} /\ ChanCap \in Nat \ {0}
  /\ MaxStreams \in Nat \ {0} /\ 0 \notin Stream
  /\ MaxEvents \in Nat /\ MaxKills \in Nat
<1>1. Len(Pattern) \in Nat /\ Len(Pattern) > 0
  BY StreamAssumption, EmptySeq, LenProperties
<1>2. QED BY <1>1, StreamAssumption, BusAssumption, ViewAssumption DEF Stream

-------------------------------------------------------------------------------
(* The parts of the inductive invariant *)

\* The bus, with an event in the hands of its goroutine.
BusTypes ==
  /\ closed \in BOOLEAN
  /\ eventChan \in Seq(EventType) /\ Len(eventChan) <= BufferSize
  /\ subs \in [SubID -> EventType \cup {"none"}]
  /\ nextSubID \in 0 .. MaxSubID
  /\ delivery \in Delivery
  /\ delivery.at \in {"received", "locked"} => delivery.event \in EventType
  /\ delivery.todo # {} => delivery.at = "locked"

\* The limit on subscriptions.
LimitKept == Cardinality(Active) <= MaxSubscriptions

\* The calls of StreamEvents, which ask for one pattern after the other.
StreamTypes ==
  /\ server \in {"serving", "stopping", "stopped"}
  /\ handler \in [Stream -> Handler]
  /\ ids \in [Stream -> Seq(SubID)]
  /\ owner \in [SubID -> Stream \cup {0}]
  /\ alive \in SUBSET Stream
  /\ sending \in Stream \cup {0}
  /\ published \in 0 .. MaxEvents
  /\ kills \in 0 .. MaxKills
  /\ \A s \in Stream : handler[s] = "subscribe" => Len(ids[s]) < Len(Pattern)
  /\ \A s \in Stream : handler[s] = "none" => ids[s] = <<>>

\* What is on the way to a client.
WireTypes ==
  /\ wire \in [Stream -> Seq(EventType)]
  /\ \A s \in Stream : Len(wire[s]) <= Window

\* The goroutine that receives from stream s has not returned.
Receiving(s) == recv[s] \notin {"none", "returned"}

\* The view.
ViewTypes ==
  /\ link \in {"starting", "started", "failed", "quit"}
  /\ current \in Stream \cup {0}
  /\ recv \in [Stream -> {"none", "receiving", "returned"} \cup Message]
  /\ msgChan \in Seq(Message) /\ Len(msgChan) <= ChanCap
  /\ listener \in {"waiting", "none"} \cup Message

Types ==
  BusTypes /\ LimitKept /\ StreamTypes /\ WireTypes /\ ViewTypes

\* A subscription belongs to a stream that has not returned and has its ID still
\* to be given back.
Owned ==
  \A i \in SubID :
    subs[i] # "none" =>
      /\ owner[i] \in Stream
      /\ handler[owner[i]] \in {"subscribe", "streaming", "unsubscribe"}
      /\ \E k \in 1 .. Len(ids[owner[i]]) : ids[owner[i]][k] = i

\* The subscriptions that are served stay while b.mu is held, and an event is
\* sent for one of them.
Serving ==
  /\ \A i \in delivery.todo : subs[i] # "none"
  /\ sending # 0 => \E i \in delivery.todo : owner[i] = sending

\* The bus is closed when no stream is left.
ClosedLast ==
  /\ closed => server = "stopped"
  /\ server = "stopped" =>
       \A s \in Stream : handler[s] \in {"none", "returned"}

\* A stream that stopped is still to be heard of.
StopPending ==
  listener = "stopped" \/ \E k \in 1 .. Len(msgChan) : msgChan[k] = "stopped"

\* One stream is received at a time, and the next is started when the message
\* that the one before has stopped, the last of m.eventChan, has arrived.
OneStream ==
  /\ \A s \in Stream : s > current => recv[s] = "none"
  /\ \A s \in Stream : Receiving(s) => s = current /\ link = "started"
  /\ StopPending => /\ link = "started"
                    /\ \A s \in Stream : ~Receiving(s)
                    /\ \E s \in Stream : recv[s] = "returned"
  /\ \A k \in 1 .. Len(msgChan) : msgChan[k] = "stopped" => k = Len(msgChan)
  /\ listener = "stopped" => msgChan = <<>>
  /\ Deaf => \E s \in Stream : recv[s] = "returned"

-------------------------------------------------------------------------------
(* Facts about the steps *)

\* Every step is one of these.
LEMMA Steps ==
  ASSUME [Next]_vars
  PROVE  \/ UNCHANGED vars
         \/ /\ UNCHANGED viewVars
            /\ \/ /\ ReceiveEvent \/ StopProcessing \/ DeliverEvent \/ DeliveryDone
                  /\ UNCHANGED <<streamVars, server, published, kills>>
               \/ \E i \in SubID : HandleEvent(i) \/ Send(i)
               \/ \E s \in Stream : \/ Subscribe(s) \/ ContextDone(s)
                                    \/ Unsubscribe(s) \/ Return(s)
                                    \/ ConnectionBreaks(s)
               \/ \E type \in EventType : PublishEvent(type)
               \/ GracefulStop \/ Stopped \/ Killed
         \/ StartEventStream \/ StartFails \/ Quit
         \/ WaitForEvent \/ TaskEvent \/ StreamStopped
         \/ \E s \in Stream : Receive(s) \/ SendMessage(s)
BY DEF Next, Work, Listens, Delivers, Surroundings, StreamEvents

\* A subscription taken when there is room keeps the limit.
LEMMA OneMore ==
  ASSUME LimitKept, NEW n \in SubID, Active' \subseteq Active \cup {n},
         MaySubscribe
  PROVE  LimitKept'
<1>1. IsFiniteSet(Active)
  <2>1. IsFiniteSet(SubID)
    BY Constants, FS_Interval DEF SubID
  <2>2. QED BY <2>1, FS_Subset DEF Active
<1>2. Cardinality(Active) \in Nat
  BY <1>1, FS_CardinalityType
<1>3. /\ IsFiniteSet(Active \cup {n})
      /\ \/ Cardinality(Active \cup {n}) = Cardinality(Active)
         \/ Cardinality(Active \cup {n}) = Cardinality(Active) + 1
  BY <1>1, FS_AddElement, Zenon
<1>4. /\ Cardinality(Active') <= Cardinality(Active \cup {n})
      /\ Cardinality(Active') \in Nat
  BY <1>3, FS_Subset, FS_CardinalityType
<1>5. Cardinality(Active) < MaxSubscriptions
  BY DEF MaySubscribe
<1>6. QED BY <1>2, <1>3, <1>4, <1>5, Constants DEF LimitKept

\* Subscriptions that are only taken away keep the limit.
LEMMA Fewer ==
  ASSUME LimitKept, Active' \subseteq Active
  PROVE  LimitKept'
<1>1. IsFiniteSet(Active)
  <2>1. IsFiniteSet(SubID)
    BY Constants, FS_Interval DEF SubID
  <2>2. QED BY <2>1, FS_Subset DEF Active
<1>2. /\ Cardinality(Active') <= Cardinality(Active)
      /\ Cardinality(Active') \in Nat /\ Cardinality(Active) \in Nat
  BY <1>1, FS_Subset, FS_CardinalityType
<1>3. QED BY <1>2, Constants DEF LimitKept

\* A new subscription and its ID.
LEMMA SubscribedTypes ==
  ASSUME BusTypes, StreamTypes, NEW s \in Stream, handler[s] = "subscribe",
         Subscribed(s)
  PROVE  /\ nextSubID + 1 \in SubID
         /\ Pattern[Len(ids[s]) + 1] \in EventType
         /\ ids'[s] = Append(ids[s], nextSubID + 1)
         /\ ids'[s] \in Seq(SubID)
         /\ Len(ids'[s]) = Len(ids[s]) + 1
<1>1. nextSubID + 1 \in SubID
  BY Constants DEF Subscribed, BusTypes, SubID
<1>2. Len(ids[s]) \in Nat /\ Len(ids[s]) < Len(Pattern) /\ ids[s] \in Seq(SubID)
  BY LenProperties DEF StreamTypes
<1>3. Pattern[Len(ids[s]) + 1] \in EventType
  BY <1>2, Constants, ElementOfSeq
<1>4. ids'[s] = Append(ids[s], nextSubID + 1)
  BY DEF Subscribed, StreamTypes
<1>5. QED BY <1>1, <1>2, <1>3, <1>4, AppendProperties

-------------------------------------------------------------------------------
(* Types *)

\* Steps of the bus.
BusSteps ==
  /\ UNCHANGED viewVars
  /\ \/ /\ ReceiveEvent \/ StopProcessing \/ DeliverEvent \/ DeliveryDone
        /\ UNCHANGED <<streamVars, server, published, kills>>
     \/ \E i \in SubID : HandleEvent(i) \/ Send(i)

\* Steps of the calls of StreamEvents.
StreamSteps ==
  /\ UNCHANGED viewVars
  /\ \E s \in Stream : \/ Subscribe(s) \/ ContextDone(s) \/ Unsubscribe(s)
                       \/ Return(s) \/ ConnectionBreaks(s)

\* Steps of the daemon.
ServerSteps ==
  /\ UNCHANGED viewVars
  /\ \/ \E type \in EventType : PublishEvent(type)
     \/ GracefulStop \/ Stopped \/ Killed

\* Steps of the view.
ViewSteps ==
  \/ StartEventStream \/ StartFails \/ Quit
  \/ WaitForEvent \/ TaskEvent \/ StreamStopped
  \/ \E s \in Stream : Receive(s) \/ SendMessage(s)

LEMMA AllSteps ==
  ASSUME [Next]_vars
  PROVE  UNCHANGED vars \/ BusSteps \/ StreamSteps \/ ServerSteps \/ ViewSteps
BY Steps DEF BusSteps, StreamSteps, ServerSteps, ViewSteps

\* Every step keeps the types of the bus.
LEMMA BusTypesStep ==
  ASSUME Types, [Next]_vars
  PROVE  BusTypes'
<1>1. CASE UNCHANGED busVars
  BY <1>1 DEF busVars, Types, BusTypes
<1>2. CASE BusSteps
  <2>1. CASE ReceiveEvent
    <3>1. Head(eventChan) \in EventType /\ Tail(eventChan) \in Seq(EventType)
          /\ Len(Tail(eventChan)) = Len(eventChan) - 1
      BY <2>1, HeadTailProperties DEF ReceiveEvent, Types, BusTypes
    <3>2. /\ delivery' \in Delivery /\ delivery'.event = Head(eventChan)
          /\ delivery'.todo = {}
      BY <2>1, <3>1 DEF ReceiveEvent, Types, BusTypes, Delivery
    <3>3. Len(eventChan) \in Nat
      BY LenProperties DEF Types, BusTypes
    <3>4. Len(Tail(eventChan)) <= BufferSize
      BY <3>1, <3>3, Constants DEF Types, BusTypes
    <3>5. QED BY <2>1, <3>1, <3>2, <3>4 DEF ReceiveEvent, Types, BusTypes
  <2>2. CASE StopProcessing
    BY <2>2 DEF StopProcessing, Types, BusTypes, Delivery
  <2>3. CASE DeliverEvent
    BY <2>3 DEF DeliverEvent, Types, BusTypes, Delivery
  <2>4. CASE DeliveryDone
    BY <2>4 DEF DeliveryDone, Waiting, Types, BusTypes, Delivery
  <2>5. ASSUME NEW i \in SubID, HandleEvent(i) \/ Send(i)
        PROVE  BusTypes'
    <3>1. delivery' = delivery \/ Served(i)
      BY <2>5 DEF HandleEvent, Send
    <3>2. /\ delivery' \in Delivery
          /\ delivery'.at = delivery.at /\ delivery'.event = delivery.event
          /\ delivery'.todo \subseteq delivery.todo
      BY <3>1 DEF Served, Types, BusTypes, Delivery
    <3>3. UNCHANGED <<closed, eventChan, subs, nextSubID>>
      BY <2>5 DEF HandleEvent, Send
    <3>4. QED BY <3>2, <3>3 DEF Types, BusTypes
  <2>6. QED BY <1>2, <2>1, <2>2, <2>3, <2>4, <2>5 DEF BusSteps
<1>3. CASE StreamSteps
  <2>1. ASSUME NEW s \in Stream, Subscribe(s)
        PROVE  BusTypes'
    <3>1. CASE UNCHANGED <<nextSubID, subs>>
      BY <2>1, <3>1 DEF Subscribe, Types, BusTypes
    <3>2. CASE Subscribed(s)
      <4>1. /\ nextSubID + 1 \in SubID
            /\ Pattern[Len(ids[s]) + 1] \in EventType
        BY <2>1, <3>2, SubscribedTypes DEF Subscribe, Types
      <4>2. nextSubID' \in 0 .. MaxSubID
        BY <3>2, <4>1 DEF Subscribed, SubID
      <4>3. subs' \in [SubID -> EventType \cup {"none"}]
        BY <3>2, <4>1 DEF Subscribed, Types, BusTypes
      <4>4. UNCHANGED <<closed, eventChan, delivery>>
        BY <2>1 DEF Subscribe
      <4>5. QED BY <4>2, <4>3, <4>4 DEF Types, BusTypes
    <3>3. QED BY <2>1, <3>1, <3>2 DEF Subscribe
  <2>2. ASSUME NEW s \in Stream, Unsubscribe(s)
        PROVE  BusTypes'
    BY <2>2 DEF Unsubscribe, Types, BusTypes
  <2>3. ASSUME NEW s \in Stream,
               ContextDone(s) \/ Return(s) \/ ConnectionBreaks(s)
        PROVE  UNCHANGED busVars
    BY <2>3 DEF ContextDone, Return, ConnectionBreaks
  <2>4. QED BY <1>1, <1>3, <2>1, <2>2, <2>3 DEF StreamSteps
<1>4. CASE ServerSteps
  <2>1. ASSUME NEW type \in EventType, PublishEvent(type)
        PROVE  BusTypes'
    <3>1. eventChan' \in Seq(EventType) /\ Len(eventChan') <= BufferSize
      BY <2>1, Constants DEF PublishEvent, Publish, Types, BusTypes
    <3>2. QED BY <2>1, <3>1 DEF PublishEvent, Types, BusTypes
  <2>2. CASE GracefulStop
    BY <1>1, <2>2 DEF GracefulStop
  <2>3. CASE Stopped
    BY <2>3 DEF Stopped, Close, Types, BusTypes
  <2>4. CASE Killed
    <3>1. /\ closed' = FALSE /\ nextSubID' = 0
          /\ eventChan' = <<>> /\ delivery' = Waiting
          /\ subs' = [i \in SubID |-> "none"]
      BY <2>4 DEF Killed
    <3>2. <<>> \in Seq(EventType) /\ Len(<<>>) = 0
      BY EmptySeq
    <3>3. Waiting \in Delivery /\ Waiting.at = "waiting" /\ Waiting.todo = {}
      BY DEF Waiting, Delivery
    <3>4. eventChan' \in Seq(EventType) /\ Len(eventChan') <= BufferSize
      BY <3>1, <3>2, Constants
    <3>5. subs' \in [SubID -> EventType \cup {"none"}]
      BY <3>1
    <3>6. nextSubID' \in 0 .. MaxSubID
      BY <3>1, Constants
    <3>7. closed' \in BOOLEAN
      BY <3>1, Zenon
    <3>8. /\ delivery' \in Delivery
          /\ delivery'.at = "waiting" /\ delivery'.todo = {}
      BY <3>1, <3>3
    <3>9. QED BY <3>4, <3>5, <3>6, <3>7, <3>8 DEF BusTypes
  <2>5. QED BY <1>4, <2>1, <2>2, <2>3, <2>4 DEF ServerSteps
<1>5. CASE ViewSteps
  <2>1. UNCHANGED busVars
    BY <1>5 DEF ViewSteps, StartEventStream, StartFails, Quit, WaitForEvent,
       TaskEvent, StreamStopped, Receive, SendMessage, serviceVars
  <2>2. QED BY <1>1, <2>1
<1>6. QED BY <1>1, <1>2, <1>3, <1>4, <1>5, AllSteps DEF vars, serviceVars

\* Every step keeps the limit on subscriptions.
LEMMA LimitStep ==
  ASSUME Types, [Next]_vars
  PROVE  LimitKept'
<1>1. CASE UNCHANGED subs
  BY <1>1 DEF Types, LimitKept, Active
<1>2. ASSUME NEW s \in Stream, Subscribe(s), ~UNCHANGED subs
      PROVE  LimitKept'
  <2>1. MaySubscribe /\ Subscribed(s) /\ handler[s] = "subscribe"
    BY <1>2 DEF Subscribe
  <2>2. nextSubID + 1 \in SubID
    BY <2>1, SubscribedTypes DEF Types
  <2>3. Active' \subseteq Active \cup {nextSubID + 1}
    BY <2>1, <2>2 DEF Active, Subscribed, Types, BusTypes
  <2>4. QED BY <2>1, <2>2, <2>3, OneMore DEF Types
<1>3. ASSUME NEW s \in Stream, Unsubscribe(s)
      PROVE  LimitKept'
  <2>1. Active' \subseteq Active
    BY <1>3 DEF Unsubscribe, Active, Types, BusTypes
  <2>2. QED BY <2>1, Fewer DEF Types
<1>4. CASE Killed
  <2>1. Active' \subseteq Active
    BY <1>4 DEF Killed, Active
  <2>2. QED BY <2>1, Fewer DEF Types
<1>5. \/ UNCHANGED subs \/ Killed
      \/ \E s \in Stream : Subscribe(s) \/ Unsubscribe(s)
  <2>1. CASE UNCHANGED vars
    BY <2>1 DEF vars, serviceVars, busVars
  <2>2. CASE BusSteps
    BY <2>2 DEF BusSteps, ReceiveEvent, StopProcessing, DeliverEvent,
       DeliveryDone, HandleEvent, Send
  <2>3. CASE StreamSteps
    BY <2>3 DEF StreamSteps, ContextDone, Return, ConnectionBreaks, busVars
  <2>4. CASE ServerSteps
    BY <2>4 DEF ServerSteps, PublishEvent, GracefulStop, Stopped, Close, busVars
  <2>5. CASE ViewSteps
    BY <2>5 DEF ViewSteps, StartEventStream, StartFails, Quit, WaitForEvent,
       TaskEvent, StreamStopped, Receive, SendMessage, serviceVars, busVars
  <2>6. QED BY <2>1, <2>2, <2>3, <2>4, <2>5, AllSteps
<1>6. QED BY <1>1, <1>2, <1>3, <1>4, <1>5

\* Every step keeps the types of the streams.
LEMMA StreamTypesStep ==
  ASSUME Types, [Next]_vars
  PROVE  StreamTypes'
<1>1. CASE UNCHANGED <<server, handler, ids, owner, alive, sending, published,
                       kills>>
  BY <1>1 DEF Types, StreamTypes
<1>2. CASE BusSteps
  <2>1. CASE UNCHANGED streamVars /\ UNCHANGED <<server, published, kills>>
    BY <1>1, <2>1 DEF streamVars
  <2>2. ASSUME NEW i \in SubID, HandleEvent(i) \/ Send(i)
        PROVE  StreamTypes'
    <3>1. sending' \in Stream \cup {0}
      BY <2>2 DEF HandleEvent, Send, Types, StreamTypes
    <3>2. UNCHANGED <<server, handler, ids, owner, alive, published, kills>>
      BY <2>2 DEF HandleEvent, Send
    <3>3. QED BY <3>1, <3>2 DEF Types, StreamTypes
  <2>3. QED BY <1>2, <2>1, <2>2 DEF BusSteps
<1>3. CASE StreamSteps
  <2>1. ASSUME NEW s \in Stream, Subscribe(s)
        PROVE  StreamTypes'
    <3>1. CASE Goes(s, "unsubscribe") /\ UNCHANGED <<ids, owner>>
      BY <2>1, <3>1 DEF Subscribe, Goes, Types, StreamTypes, Handler
    <3>2. CASE Subscribed(s)
      <4>1. /\ nextSubID + 1 \in SubID
            /\ ids'[s] \in Seq(SubID) /\ Len(ids'[s]) = Len(ids[s]) + 1
        BY <2>1, <3>2, SubscribedTypes DEF Subscribe, Types
      <4>2. ids' \in [Stream -> Seq(SubID)]
        BY <3>2, <4>1 DEF Subscribed, Types, StreamTypes
      <4>3. owner' \in [SubID -> Stream \cup {0}]
        BY <3>2, <4>1 DEF Subscribed, Types, StreamTypes
      <4>4. DEFINE to == IF Len(ids'[s]) = Len(Pattern)
                         THEN "streaming" ELSE "subscribe"
      <4>5. handler' = [handler EXCEPT ![s] = to]
        BY <3>2 DEF Subscribed, Goes
      <4>6. handler' \in [Stream -> Handler]
        BY <4>5 DEF Types, StreamTypes, Handler
      <4>7. /\ Len(ids[s]) \in Nat /\ Len(ids[s]) < Len(Pattern)
        BY <2>1, LenProperties DEF Subscribe, Types, StreamTypes
      <4>8. /\ handler'[s] # "none"
            /\ handler'[s] = "subscribe" => Len(ids'[s]) < Len(Pattern)
        BY <4>1, <4>5, <4>7, Constants DEF Types, StreamTypes
      <4>9. \A r \in Stream : r # s => handler'[r] = handler[r] /\ ids'[r] = ids[r]
        BY <3>2, <4>5 DEF Subscribed, Types, StreamTypes
      <4>10. UNCHANGED <<server, alive, sending, published, kills>>
        BY <2>1 DEF Subscribe
      <4>11. \A r \in Stream :
               /\ handler'[r] = "subscribe" => Len(ids'[r]) < Len(Pattern)
               /\ handler'[r] = "none" => ids'[r] = <<>>
        <5> SUFFICES ASSUME NEW r \in Stream
                     PROVE  /\ handler'[r] = "subscribe" =>
                                 Len(ids'[r]) < Len(Pattern)
                            /\ handler'[r] = "none" => ids'[r] = <<>>
          OBVIOUS
        <5>1. CASE r = s
          BY <4>8, <5>1
        <5>2. CASE r # s
          BY <4>9, <5>2 DEF Types, StreamTypes
        <5>3. QED BY <5>1, <5>2
      <4>12. QED BY <4>2, <4>3, <4>6, <4>10, <4>11 DEF Types, StreamTypes
    <3>3. QED BY <2>1, <3>1, <3>2 DEF Subscribe
  <2>2. ASSUME NEW s \in Stream, Unsubscribe(s)
        PROVE  StreamTypes'
    <3>1. Tail(ids[s]) \in Seq(SubID)
      BY <2>2, HeadTailProperties DEF Unsubscribe, Types, StreamTypes
    <3>2. QED BY <2>2, <3>1 DEF Unsubscribe, Types, StreamTypes
  <2>3. ASSUME NEW s \in Stream, ContextDone(s) \/ Return(s)
        PROVE  StreamTypes'
    BY <2>3 DEF ContextDone, Return, Goes, Types, StreamTypes, Handler
  <2>4. ASSUME NEW s \in Stream, ConnectionBreaks(s)
        PROVE  StreamTypes'
    BY <2>4 DEF ConnectionBreaks, Broken, Types, StreamTypes
  <2>5. QED BY <1>3, <2>1, <2>2, <2>3, <2>4 DEF StreamSteps
<1>4. CASE ServerSteps
  <2>1. ASSUME NEW type \in EventType, PublishEvent(type)
        PROVE  StreamTypes'
    BY <2>1, Constants DEF PublishEvent, streamVars, Types, StreamTypes
  <2>2. CASE GracefulStop \/ Stopped
    BY <2>2 DEF GracefulStop, Stopped, Close, streamVars, Types, StreamTypes
  <2>3. CASE Killed
    <3>1. /\ server' = "serving" /\ alive' = {} /\ sending' = 0
          /\ handler' = [s \in Stream |-> IF handler[s] = "none" THEN "none"
                                          ELSE "returned"]
          /\ ids' = [s \in Stream |-> <<>>]
          /\ owner' = [i \in SubID |-> 0]
          /\ published' = published
      BY <2>3 DEF Killed
    <3>2. kills' \in 0 .. MaxKills
      BY <2>3, Constants DEF Killed, Types, StreamTypes
    <3>3. <<>> \in Seq(SubID)
      BY EmptySeq
    <3>4. QED BY <3>1, <3>2, <3>3 DEF Types, StreamTypes, Handler
  <2>4. QED BY <1>4, <2>1, <2>2, <2>3 DEF ServerSteps
<1>5. CASE ViewSteps
  <2>1. CASE StartEventStream
    <3>1. PICK s \in Stream : Call(s)
      BY <2>1 DEF StartEventStream
    <3>2. /\ handler' = [handler EXCEPT ![s] = "subscribe"]
          /\ handler[s] = "none" /\ alive' = alive \cup {s}
      BY <3>1 DEF Call, Goes
    <3>3. ids[s] = <<>> /\ Len(ids[s]) < Len(Pattern)
      BY <3>2, EmptySeq, Constants DEF Types, StreamTypes
    <3>4. UNCHANGED <<server, ids, owner, sending, published, kills>>
      BY <2>1 DEF StartEventStream
    <3>5. QED BY <3>2, <3>3, <3>4 DEF Types, StreamTypes, Handler
  <2>2. CASE Quit
    BY <2>2 DEF Quit, Broken, Types, StreamTypes
  <2>3. CASE ~(StartEventStream \/ Quit)
    BY <1>1, <1>5, <2>3 DEF ViewSteps, StartFails, WaitForEvent, TaskEvent,
       StreamStopped, Receive, SendMessage, serviceVars, streamVars
  <2>4. QED BY <2>1, <2>2, <2>3
<1>6. QED
  BY <1>1, <1>2, <1>3, <1>4, <1>5, AllSteps DEF vars, serviceVars, streamVars

\* Every step keeps what is on the wire within the window.
LEMMA WireTypesStep ==
  ASSUME Types, OneStream, [Next]_vars
  PROVE  WireTypes'
<1>1. CASE UNCHANGED wire
  BY <1>1 DEF Types, WireTypes
<1>2. ASSUME NEW s \in Stream, wire' = [wire EXCEPT ![s] = <<>>]
      PROVE  WireTypes'
  BY <1>2, EmptySeq, Constants DEF Types, WireTypes
<1>3. ASSUME NEW i \in SubID, Send(i), wire' # wire
      PROVE  WireTypes'
  <2>1. /\ sending \in Stream /\ Len(wire[sending]) < Window
        /\ wire' = [wire EXCEPT ![sending] = Append(@, delivery.event)]
    BY <1>3 DEF Send, Types, StreamTypes
  <2>2. delivery.event \in EventType
    BY <1>3 DEF Send, IsNext, Types, BusTypes
  <2>3. wire[sending] \in Seq(EventType) /\ Len(wire[sending]) \in Nat
    BY <2>1, LenProperties DEF Types, WireTypes
  <2>4. /\ Append(wire[sending], delivery.event) \in Seq(EventType)
        /\ Len(Append(wire[sending], delivery.event)) = Len(wire[sending]) + 1
    BY <2>2, <2>3, AppendProperties
  <2>5. Len(Append(wire[sending], delivery.event)) <= Window
    BY <2>1, <2>3, <2>4, Constants
  <2>6. QED BY <2>1, <2>4, <2>5 DEF Types, WireTypes
<1>4. ASSUME NEW s \in Stream, Receive(s), wire' # wire
      PROVE  WireTypes'
  <2>1. /\ wire[current] # <<>>
        /\ wire' = [wire EXCEPT ![current] = Tail(@)]
    BY <1>4 DEF Receive
  <2>2. current \in Stream
    BY <1>4 DEF Receive, OneStream, Receiving
  <2>3. wire[current] \in Seq(EventType) /\ Len(wire[current]) \in Nat
    BY <2>2, LenProperties DEF Types, WireTypes
  <2>4. /\ Tail(wire[current]) \in Seq(EventType)
        /\ Len(Tail(wire[current])) = Len(wire[current]) - 1
    BY <2>1, <2>3, HeadTailProperties
  <2>5. Len(Tail(wire[current])) <= Window
    BY <2>2, <2>3, <2>4, Constants DEF Types, WireTypes
  <2>6. QED BY <2>1, <2>2, <2>4, <2>5 DEF Types, WireTypes
<1>5. CASE Killed
  BY <1>5, EmptySeq, Constants DEF Killed, WireTypes
<1>6. CASE UNCHANGED vars
  BY <1>1, <1>6 DEF vars, serviceVars, streamVars
<1>7. CASE BusSteps
  BY <1>1, <1>3, <1>7 DEF BusSteps, HandleEvent, streamVars
<1>8. CASE StreamSteps
  <2>1. PICK s \in Stream : \/ Subscribe(s) \/ ContextDone(s) \/ Unsubscribe(s)
                            \/ Return(s) \/ ConnectionBreaks(s)
    BY <1>8 DEF StreamSteps
  <2>2. UNCHANGED wire \/ wire' = [wire EXCEPT ![s] = <<>>]
    BY <2>1 DEF Subscribe, ContextDone, Unsubscribe, Return, ConnectionBreaks,
       Broken
  <2>3. QED BY <1>1, <1>2, <2>2
<1>9. CASE ServerSteps
  BY <1>1, <1>5, <1>9 DEF ServerSteps, PublishEvent, GracefulStop, Stopped,
     streamVars
<1>10. CASE ViewSteps
  <2>1. CASE Quit
    <3>1. UNCHANGED wire \/ (current \in Stream
                             /\ wire' = [wire EXCEPT ![current] = <<>>])
      BY <2>1 DEF Quit, Broken, Types, StreamTypes
    <3>2. QED BY <1>1, <1>2, <3>1
  <2>2. ASSUME NEW s \in Stream, Receive(s)
        PROVE  WireTypes'
    BY <1>1, <1>4, <2>2
  <2>3. CASE /\ ~Quit
             /\ ~\E s \in Stream : Receive(s)
    BY <1>1, <1>10, <2>3 DEF ViewSteps, StartEventStream, StartFails,
       WaitForEvent, TaskEvent, StreamStopped, SendMessage, serviceVars,
       streamVars
  <2>4. QED BY <2>1, <2>2, <2>3
<1>11. QED BY <1>6, <1>7, <1>8, <1>9, <1>10, AllSteps

\* The first message of m.eventChan, and what is left.
LEMMA HeadOfMessages ==
  ASSUME ViewTypes, msgChan # <<>>
  PROVE  /\ Head(msgChan) = msgChan[1] /\ Head(msgChan) \in Message
         /\ Tail(msgChan) \in Seq(Message)
         /\ Len(msgChan) \in Nat \ {0}
         /\ Len(Tail(msgChan)) = Len(msgChan) - 1
         /\ \A k \in 1 .. Len(Tail(msgChan)) : Tail(msgChan)[k] = msgChan[k + 1]
<1>1. msgChan \in Seq(Message) /\ Len(msgChan) \in Nat
  BY LenProperties DEF ViewTypes
<1>2. QED BY <1>1, HeadTailProperties

\* Every step keeps the types of the view.
LEMMA ViewTypesStep ==
  ASSUME Types, [Next]_vars
  PROVE  ViewTypes'
<1>1. CASE UNCHANGED viewVars
  BY <1>1 DEF viewVars, Types, ViewTypes
<1>2. CASE StartEventStream
  BY <1>2 DEF StartEventStream, Types, ViewTypes, Message
<1>3. CASE StartFails \/ TaskEvent \/ StreamStopped
  BY <1>3 DEF StartFails, TaskEvent, StreamStopped, Types, ViewTypes
<1>4. CASE WaitForEvent
  <2>1. /\ Head(msgChan) \in Message /\ Tail(msgChan) \in Seq(Message)
        /\ Len(Tail(msgChan)) <= Len(msgChan)
    BY <1>4, HeadOfMessages DEF WaitForEvent, Types
  <2>2. Len(msgChan) \in Nat /\ Len(Tail(msgChan)) \in Nat
    BY <2>1, LenProperties DEF Types, ViewTypes
  <2>3. QED BY <1>4, <2>1, <2>2, Constants DEF WaitForEvent, Types, ViewTypes
<1>5. ASSUME NEW s \in Stream, Receive(s)
      PROVE  ViewTypes'
  BY <1>5 DEF Receive, Types, ViewTypes, Message
<1>6. ASSUME NEW s \in Stream, SendMessage(s)
      PROVE  ViewTypes'
  <2>1. msgChan \in Seq(Message) /\ Len(msgChan) \in Nat /\ recv[s] \in Message
    BY <1>6, LenProperties DEF SendMessage, Types, ViewTypes
  <2>2. /\ Append(msgChan, recv[s]) \in Seq(Message)
        /\ Len(Append(msgChan, recv[s])) = Len(msgChan) + 1
    BY <2>1, AppendProperties
  <2>3. msgChan' \in Seq(Message) /\ Len(msgChan') <= ChanCap
    BY <1>6, <2>1, <2>2, Constants DEF SendMessage
  <2>4. recv' \in [Stream -> {"none", "receiving", "returned"} \cup Message]
    BY <1>6 DEF SendMessage, Types, ViewTypes
  <2>5. QED BY <1>6, <2>3, <2>4 DEF SendMessage, Types, ViewTypes
<1>7. CASE Quit
  <2>1. msgChan' \in Seq(Message) /\ Len(msgChan') <= ChanCap
    BY <1>7, EmptySeq, Constants DEF Quit
  <2>2. QED BY <1>7, <2>1 DEF Quit, Types, ViewTypes
<1>8. QED
  BY <1>1, <1>2, <1>3, <1>4, <1>5, <1>6, <1>7, AllSteps
     DEF vars, BusSteps, StreamSteps, ServerSteps, ViewSteps

-------------------------------------------------------------------------------
(* Subscriptions and streams *)

\* A step that lets no stream with subscriptions return, and leaves the
\* subscriptions and their owners alone.
LEMMA OwnedStays ==
  ASSUME Owned, UNCHANGED <<subs, ids, owner>>,
         \A s \in Stream :
           handler[s] \in {"subscribe", "streaming", "unsubscribe"}
             /\ ids[s] # <<>> =>
           handler'[s] \in {"subscribe", "streaming", "unsubscribe"},
         StreamTypes
  PROVE  Owned'
<1> SUFFICES ASSUME NEW i \in SubID, subs[i] # "none"
             PROVE  /\ owner[i] \in Stream
                    /\ handler'[owner[i]] \in {"subscribe", "streaming",
                                               "unsubscribe"}
                    /\ \E k \in 1 .. Len(ids[owner[i]]) : ids[owner[i]][k] = i
  BY DEF Owned
<1>1. /\ owner[i] \in Stream
      /\ handler[owner[i]] \in {"subscribe", "streaming", "unsubscribe"}
      /\ \E k \in 1 .. Len(ids[owner[i]]) : ids[owner[i]][k] = i
  BY DEF Owned
<1>2. ids[owner[i]] # <<>>
  BY <1>1, EmptySeq
<1>3. QED BY <1>1, <1>2

\* Every step keeps a subscription with a stream that will give it back.
LEMMA OwnedStep ==
  ASSUME Types, Owned, ClosedLast, [Next]_vars
  PROVE  Owned'
<1>1. CASE UNCHANGED <<subs, ids, owner, handler>>
  BY <1>1 DEF Owned
<1>2. ASSUME NEW s \in Stream, Subscribe(s)
      PROVE  Owned'
  <2>1. CASE Goes(s, "unsubscribe") /\ UNCHANGED <<subs, ids, owner>>
    <3>1. \A r \in Stream :
            handler'[r] = handler[r] \/ handler'[r] = "unsubscribe"
      BY <2>1 DEF Goes, Types, StreamTypes
    <3>2. QED BY <2>1, <3>1, OwnedStays DEF Types
  <2>2. CASE Subscribed(s)
    <3> DEFINE n == nextSubID + 1
    <3>1. /\ n \in SubID /\ ids'[s] = Append(ids[s], n)
          /\ Len(ids'[s]) = Len(ids[s]) + 1
      BY <1>2, <2>2, SubscribedTypes DEF Subscribe, Types
    <3>2. ids[s] \in Seq(SubID) /\ Len(ids[s]) \in Nat
      BY LenProperties DEF Types, StreamTypes
    <3>3. /\ ids'[s][Len(ids[s]) + 1] = n
          /\ \A k \in 1 .. Len(ids[s]) : ids'[s][k] = ids[s][k]
      BY <3>1, <3>2, AppendProperties
    <3>4. /\ handler'[s] \in {"subscribe", "streaming"}
          /\ \A r \in Stream \ {s} : handler'[r] = handler[r] /\ ids'[r] = ids[r]
      BY <2>2 DEF Subscribed, Goes, Types, StreamTypes
    <3>5. /\ owner'[n] = s
          /\ \A i \in SubID \ {n} : owner'[i] = owner[i] /\ subs'[i] = subs[i]
      BY <2>2, <3>1 DEF Subscribed, Types, StreamTypes, BusTypes
    <3> SUFFICES ASSUME NEW i \in SubID, subs'[i] # "none"
                 PROVE  /\ owner'[i] \in Stream
                        /\ handler'[owner'[i]] \in {"subscribe", "streaming",
                                                    "unsubscribe"}
                        /\ \E k \in 1 .. Len(ids'[owner'[i]]) :
                             ids'[owner'[i]][k] = i
      BY DEF Owned
    <3>6. CASE i = n
      <4>1. Len(ids[s]) + 1 \in 1 .. Len(ids'[s])
        BY <3>1, <3>2
      <4>2. QED BY <3>3, <3>4, <3>5, <3>6, <4>1
    <3>7. CASE i # n
      <4>1. /\ owner[i] \in Stream
            /\ handler[owner[i]] \in {"subscribe", "streaming", "unsubscribe"}
            /\ \E k \in 1 .. Len(ids[owner[i]]) : ids[owner[i]][k] = i
        BY <3>5, <3>7 DEF Owned
      <4>2. owner'[i] = owner[i]
        BY <3>5, <3>7
      <4>3. CASE owner[i] = s
        <5>1. PICK k \in 1 .. Len(ids[s]) : ids[s][k] = i
          BY <4>1, <4>3
        <5>2. k \in 1 .. Len(ids'[s]) /\ ids'[s][k] = i
          BY <3>1, <3>2, <3>3, <5>1
        <5>3. QED BY <3>4, <4>2, <4>3, <5>2
      <4>4. CASE owner[i] # s
        BY <3>4, <4>1, <4>2, <4>4
      <4>5. QED BY <4>3, <4>4
    <3>8. QED BY <3>6, <3>7
  <2>3. QED BY <1>2, <2>1, <2>2 DEF Subscribe
<1>3. ASSUME NEW s \in Stream, Unsubscribe(s)
      PROVE  Owned'
  <2>1. ~closed
    BY <1>3 DEF Unsubscribe, ClosedLast
  <2>2. /\ ids[s] # <<>> /\ ids' = [ids EXCEPT ![s] = Tail(@)]
        /\ subs' = [subs EXCEPT ![Head(ids[s])] = "none"]
        /\ UNCHANGED <<owner, handler>>
    BY <1>3, <2>1 DEF Unsubscribe
  <2>3. /\ ids[s] \in Seq(SubID) /\ Len(ids[s]) \in Nat
        /\ Head(ids[s]) = ids[s][1]
        /\ Len(Tail(ids[s])) = Len(ids[s]) - 1
        /\ \A k \in 1 .. Len(Tail(ids[s])) : Tail(ids[s])[k] = ids[s][k + 1]
    BY <2>2, HeadTailProperties, LenProperties DEF Types, StreamTypes
  <2> SUFFICES ASSUME NEW i \in SubID, subs'[i] # "none"
               PROVE  /\ owner[i] \in Stream
                      /\ handler[owner[i]] \in {"subscribe", "streaming",
                                                "unsubscribe"}
                      /\ \E k \in 1 .. Len(ids'[owner[i]]) :
                           ids'[owner[i]][k] = i
    <3>1. owner' = owner /\ handler' = handler
      BY <2>2
    <3>2. QED BY <3>1, Zenon DEF Owned
  <2>4. subs[i] # "none" /\ i # Head(ids[s])
    BY <2>2 DEF Types, BusTypes
  <2>5. /\ owner[i] \in Stream
        /\ handler[owner[i]] \in {"subscribe", "streaming", "unsubscribe"}
        /\ \E k \in 1 .. Len(ids[owner[i]]) : ids[owner[i]][k] = i
    BY <2>4 DEF Owned
  <2>6. CASE owner[i] = s
    <3>1. PICK k \in 1 .. Len(ids[s]) : ids[s][k] = i
      BY <2>5, <2>6
    <3>2. k # 1
      BY <2>3, <2>4, <3>1
    <3>3. k - 1 \in 1 .. Len(Tail(ids[s])) /\ (k - 1) + 1 = k
      BY <2>3, <3>1, <3>2
    <3>4. Tail(ids[s])[k - 1] = i
      BY <2>3, <3>1, <3>3
    <3>5. ids'[s] = Tail(ids[s])
      BY <2>2 DEF Types, StreamTypes
    <3>6. QED BY <2>5, <2>6, <3>3, <3>4, <3>5
  <2>7. CASE owner[i] # s
    BY <2>2, <2>5, <2>7 DEF Types, StreamTypes
  <2>8. QED BY <2>6, <2>7
<1>4. ASSUME NEW s \in Stream, ContextDone(s) \/ Return(s)
      PROVE  Owned'
  <2>1. UNCHANGED <<subs, ids, owner>>
    BY <1>4 DEF ContextDone, Return, busVars
  <2>2. \A r \in Stream :
          handler[r] \in {"subscribe", "streaming", "unsubscribe"}
            /\ ids[r] # <<>> =>
          handler'[r] \in {"subscribe", "streaming", "unsubscribe"}
    BY <1>4 DEF ContextDone, Return, Goes, Types, StreamTypes
  <2>3. QED BY <2>1, <2>2, OwnedStays DEF Types
<1>5. CASE Killed
  BY <1>5 DEF Killed, Owned
<1>6. CASE StartEventStream
  <2>1. PICK s \in Stream : Call(s)
    BY <1>6 DEF StartEventStream
  <2>2. \A r \in Stream : handler'[r] = handler[r] \/ handler'[r] = "subscribe"
    BY <2>1 DEF Call, Goes, Types, StreamTypes
  <2>3. UNCHANGED <<subs, ids, owner>>
    BY <1>6 DEF StartEventStream, busVars
  <2>4. QED BY <2>2, <2>3, OwnedStays DEF Types
<1>7. CASE UNCHANGED vars
  BY <1>1, <1>7 DEF vars, serviceVars, streamVars, busVars
<1>8. CASE BusSteps
  BY <1>1, <1>8 DEF BusSteps, ReceiveEvent, StopProcessing, DeliverEvent,
     DeliveryDone, HandleEvent, Send, streamVars
<1>9. CASE StreamSteps
  BY <1>1, <1>2, <1>3, <1>4, <1>9 DEF StreamSteps, ConnectionBreaks, busVars
<1>10. CASE ServerSteps
  BY <1>1, <1>5, <1>10 DEF ServerSteps, PublishEvent, GracefulStop, Stopped,
     Close, streamVars, busVars
<1>11. CASE ViewSteps
  BY <1>1, <1>6, <1>11 DEF ViewSteps, StartFails, Quit, WaitForEvent,
     TaskEvent, StreamStopped, Receive, SendMessage, serviceVars, streamVars,
     busVars
<1>12. QED BY <1>7, <1>8, <1>9, <1>10, <1>11, AllSteps

\* Every step keeps the subscriptions that are being served, and an event is
\* sent for one of them.
LEMMA ServingStep ==
  ASSUME Types, Serving, ClosedLast, [Next]_vars
  PROVE  Serving'
<1>1. CASE UNCHANGED <<delivery, subs, owner, sending>>
  BY <1>1 DEF Serving
<1>2. CASE BusSteps
  <2>1. ASSUME ReceiveEvent \/ StopProcessing \/ DeliverEvent \/ DeliveryDone,
               UNCHANGED streamVars
        PROVE  Serving'
    <3>1. delivery.todo = {}
      BY <2>1 DEF ReceiveEvent, StopProcessing, DeliverEvent, DeliveryDone,
         Types, BusTypes
    <3>2. sending = 0
      BY <3>1 DEF Serving
    <3>3. \A i \in delivery'.todo : subs[i] # "none"
      <4>1. CASE DeliverEvent
        BY <4>1, Constants DEF DeliverEvent, Types, BusTypes, Delivery
      <4>2. CASE ~DeliverEvent
        <5>1. CASE ReceiveEvent \/ StopProcessing
          <6>1. delivery'.todo = delivery.todo
            BY <5>1 DEF ReceiveEvent, StopProcessing, Types, BusTypes, Delivery
          <6>2. QED BY <3>1, <6>1
        <5>2. CASE DeliveryDone
          BY <5>2 DEF DeliveryDone, Waiting
        <5>3. QED BY <2>1, <4>2, <5>1, <5>2
      <4>3. QED BY <4>1, <4>2
    <3>4. UNCHANGED <<subs, owner, sending>>
      BY <2>1 DEF ReceiveEvent, StopProcessing, DeliverEvent, DeliveryDone,
         streamVars
    <3>5. QED BY <3>2, <3>3, <3>4 DEF Serving
  <2>2. ASSUME NEW i \in SubID, HandleEvent(i) \/ Send(i)
        PROVE  Serving'
    <3>1. UNCHANGED <<subs, owner>>
      BY <2>2 DEF HandleEvent, Send
    <3>2. \A j \in delivery'.todo : subs[j] # "none"
      BY <2>2 DEF HandleEvent, Send, Served, Serving, Types, BusTypes, Delivery
    <3>3. sending' # 0 => \E j \in delivery'.todo : owner[j] = sending'
      BY <2>2 DEF HandleEvent, Send, IsNext
    <3>4. QED BY <3>1, <3>2, <3>3 DEF Serving
  <2>3. QED BY <1>2, <2>1, <2>2 DEF BusSteps
<1>3. ASSUME NEW s \in Stream, Subscribe(s), ~UNCHANGED <<subs, owner>>
      PROVE  Serving'
  <2>1. delivery.todo = {} /\ sending = 0
    BY <1>3 DEF Subscribe, LockFree, Serving, Types, BusTypes
  <2>2. QED BY <1>3, <2>1 DEF Subscribe, Serving
<1>4. ASSUME NEW s \in Stream, Unsubscribe(s), ~UNCHANGED subs
      PROVE  Serving'
  <2>1. delivery.todo = {} /\ sending = 0
    BY <1>4 DEF Unsubscribe, LockFree, Serving, Types, BusTypes
  <2>2. QED BY <1>4, <2>1 DEF Unsubscribe, Serving
<1>5. CASE Killed
  BY <1>5 DEF Killed, Waiting, Serving
<1>6. CASE UNCHANGED vars
  BY <1>1, <1>6 DEF vars, serviceVars, streamVars, busVars
<1>7. CASE StreamSteps
  <2>1. PICK s \in Stream : \/ Subscribe(s) \/ ContextDone(s) \/ Unsubscribe(s)
                            \/ Return(s) \/ ConnectionBreaks(s)
    BY <1>7 DEF StreamSteps
  <2>2. CASE Subscribe(s)
    BY <1>1, <1>3, <2>2 DEF Subscribe
  <2>3. CASE Unsubscribe(s)
    BY <1>1, <1>4, <2>3 DEF Unsubscribe
  <2>4. CASE ContextDone(s) \/ Return(s) \/ ConnectionBreaks(s)
    BY <1>1, <2>4 DEF ContextDone, Return, ConnectionBreaks, busVars
  <2>5. QED BY <2>1, <2>2, <2>3, <2>4
<1>8. CASE ServerSteps
  BY <1>1, <1>5, <1>8 DEF ServerSteps, PublishEvent, GracefulStop, Stopped,
     Close, streamVars, busVars
<1>9. CASE ViewSteps
  BY <1>1, <1>9 DEF ViewSteps, StartEventStream, StartFails, Quit,
     WaitForEvent, TaskEvent, StreamStopped, Receive, SendMessage, serviceVars,
     streamVars, busVars
<1>10. QED BY <1>2, <1>6, <1>7, <1>8, <1>9, AllSteps

\* Every step closes the bus only when no stream is left.
LEMMA ClosedLastStep ==
  ASSUME Types, ClosedLast, [Next]_vars
  PROVE  ClosedLast'
<1>1. CASE UNCHANGED <<closed, server, handler>>
  BY <1>1 DEF ClosedLast
<1>2. ASSUME UNCHANGED <<closed, server>>, server # "stopped"
      PROVE  ClosedLast'
  BY <1>2 DEF ClosedLast
<1>3. CASE UNCHANGED vars
  BY <1>1, <1>3 DEF vars, serviceVars, streamVars, busVars
<1>4. CASE BusSteps
  BY <1>1, <1>4 DEF BusSteps, ReceiveEvent, StopProcessing, DeliverEvent,
     DeliveryDone, HandleEvent, Send, streamVars
<1>5. CASE StreamSteps
  <2>1. PICK s \in Stream : \/ Subscribe(s) \/ ContextDone(s) \/ Unsubscribe(s)
                            \/ Return(s) \/ ConnectionBreaks(s)
    BY <1>5 DEF StreamSteps
  <2>2. CASE ConnectionBreaks(s)
    BY <1>1, <2>2 DEF ConnectionBreaks, busVars
  <2>3. CASE ~ConnectionBreaks(s)
    <3>1. handler[s] \in {"subscribe", "streaming", "unsubscribe"}
          /\ UNCHANGED <<closed, server>>
      BY <2>1, <2>3 DEF Subscribe, ContextDone, Unsubscribe, Return, busVars
    <3>2. server # "stopped"
      BY <3>1 DEF ClosedLast
    <3>3. QED BY <1>2, <3>1, <3>2
  <2>4. QED BY <2>2, <2>3
<1>6. CASE ServerSteps
  <2>1. ASSUME NEW type \in EventType, PublishEvent(type)
        PROVE  ClosedLast'
    BY <1>1, <2>1 DEF PublishEvent, streamVars
  <2>2. CASE GracefulStop
    BY <2>2 DEF GracefulStop, busVars, ClosedLast
  <2>3. CASE Stopped
    BY <2>3 DEF Stopped, streamVars, ClosedLast
  <2>4. CASE Killed
    BY <2>4 DEF Killed, ClosedLast
  <2>5. QED BY <1>6, <2>1, <2>2, <2>3, <2>4 DEF ServerSteps
<1>7. CASE ViewSteps
  <2>1. CASE StartEventStream
    BY <1>2, <2>1 DEF StartEventStream, Call, busVars
  <2>2. CASE ~StartEventStream
    BY <1>1, <1>7, <2>2 DEF ViewSteps, StartFails, Quit, WaitForEvent,
       TaskEvent, StreamStopped, Receive, SendMessage, serviceVars, streamVars,
       busVars
  <2>3. QED BY <2>1, <2>2
<1>8. QED BY <1>3, <1>4, <1>5, <1>6, <1>7, AllSteps

-------------------------------------------------------------------------------
(* The view *)

\* Every step keeps the view to one stream at a time, and listening until one
\* has stopped.
LEMMA OneStreamStep ==
  ASSUME Types, OneStream, [Next]_vars
  PROVE  OneStream'
<1>1. CASE UNCHANGED viewVars
  BY <1>1 DEF viewVars, OneStream, StopPending, Receiving, Deaf, Running
<1>2. CASE StartEventStream
  <2>1. /\ link = "starting" /\ current + 1 \in Stream
        /\ link' = "started" /\ current' = current + 1
        /\ recv' = [recv EXCEPT ![current + 1] = "receiving"]
        /\ UNCHANGED <<msgChan, listener>>
    BY <1>2 DEF StartEventStream
  <2>2. current \in Nat /\ recv[current + 1] = "none"
    BY <2>1 DEF OneStream, Types, ViewTypes, Stream
  <2>3. ~StopPending /\ \A s \in Stream : ~Receiving(s)
    BY <2>1 DEF OneStream
  <2>4. \A s \in Stream \ {current + 1} : recv'[s] = recv[s]
    BY <2>1 DEF Types, ViewTypes
  <2>5. recv'[current + 1] = "receiving"
    BY <2>1 DEF Types, ViewTypes
  <2>6. \A s \in Stream : s > current' => recv'[s] = "none"
    BY <2>1, <2>2, <2>4 DEF OneStream, Stream
  <2>7. \A s \in Stream : Receiving(s)' => s = current' /\ link' = "started"
    BY <2>1, <2>3, <2>4 DEF Receiving
  <2>8. ~StopPending'
    BY <2>1, <2>3 DEF StopPending
  <2>9. Deaf' => \E s \in Stream : recv'[s] = "returned"
    BY <2>1, <2>2, <2>4 DEF Deaf, Running, OneStream
  <2>10. QED BY <2>1, <2>6, <2>7, <2>8, <2>9 DEF OneStream
<1>3. CASE StartFails
  <2>1. ~StopPending /\ \A s \in Stream : ~Receiving(s)
    BY <1>3 DEF StartFails, OneStream
  <2>2. UNCHANGED <<current, recv, msgChan, listener>> /\ link = "starting"
    BY <1>3 DEF StartFails
  <2>3. ~StopPending' /\ \A s \in Stream : ~Receiving(s)'
    BY <2>1, <2>2 DEF StopPending, Receiving
  <2>4. QED BY <2>2, <2>3 DEF OneStream, Deaf, Running
<1>4. ASSUME NEW s \in Stream, Receive(s)
      PROVE  OneStream'
  <2>1. /\ Receiving(s) /\ recv[s] # "returned" /\ recv[s] # "none"
        /\ UNCHANGED <<link, current, msgChan, listener>>
    BY <1>4 DEF Receive, Receiving
  <2>2. /\ \A r \in Stream \ {s} : recv'[r] = recv[r]
        /\ recv'[s] \in {"event", "receiving", "stopped"}
    BY <1>4 DEF Receive, Types, ViewTypes
  <2>3. s = current /\ link = "started" /\ ~StopPending
    BY <2>1 DEF OneStream
  <2>4. ~StopPending'
    BY <2>1, <2>3 DEF StopPending
  <2>5. Deaf' => \E r \in Stream : recv'[r] = "returned"
    BY <2>1, <2>2 DEF Deaf, Running, OneStream
  <2>6. \A r \in Stream : r > current' => recv'[r] = "none"
    BY <2>1, <2>2, <2>3 DEF OneStream, Stream
  <2>7. \A r \in Stream : Receiving(r)' => r = current' /\ link' = "started"
    BY <2>1, <2>2, <2>3 DEF OneStream, Receiving
  <2>8. QED BY <2>1, <2>4, <2>5, <2>6, <2>7 DEF OneStream
<1>5. ASSUME NEW s \in Stream, SendMessage(s)
      PROVE  OneStream'
  <2>1. /\ Receiving(s) /\ recv[s] \in Message
        /\ msgChan' = Append(msgChan, recv[s])
        /\ recv' = [recv EXCEPT ![s] = IF recv[s] = "event"
                                       THEN "receiving" ELSE "returned"]
        /\ UNCHANGED <<link, current, listener>>
    BY <1>5 DEF SendMessage, Receiving, Message, Types, ViewTypes
  <2>2. s = current /\ link = "started" /\ ~StopPending
    BY <2>1 DEF OneStream
  <2>3. /\ \A r \in Stream \ {s} : recv'[r] = recv[r]
        /\ recv'[s] = IF recv[s] = "event" THEN "receiving" ELSE "returned"
    BY <2>1 DEF Types, ViewTypes
  <2>4. msgChan \in Seq(Message) /\ Len(msgChan) \in Nat
    BY LenProperties DEF Types, ViewTypes
  <2>5. /\ Len(msgChan') = Len(msgChan) + 1
        /\ msgChan'[Len(msgChan) + 1] = recv[s]
        /\ \A k \in 1 .. Len(msgChan) : msgChan'[k] = msgChan[k]
    BY <2>1, <2>4, AppendProperties
  <2>6. \A k \in 1 .. Len(msgChan') :
          msgChan'[k] = "stopped" => k = Len(msgChan') /\ recv[s] = "stopped"
    <3> SUFFICES ASSUME NEW k \in 1 .. Len(msgChan'), msgChan'[k] = "stopped"
                 PROVE  k = Len(msgChan') /\ recv[s] = "stopped"
      OBVIOUS
    <3>1. k \in 1 .. Len(msgChan) \/ k = Len(msgChan) + 1
      BY <2>4, <2>5
    <3>2. k \notin 1 .. Len(msgChan)
      BY <2>2, <2>5 DEF StopPending
    <3>3. QED BY <2>5, <3>1, <3>2
  <2>7. listener' # "stopped"
    BY <2>1, <2>2 DEF StopPending
  <2>8. \A r \in Stream : r > current' => recv'[r] = "none"
    BY <2>1, <2>2, <2>3 DEF OneStream, Stream
  <2>9. \A r \in Stream : Receiving(r)' => r = current' /\ link' = "started"
    BY <2>1, <2>2, <2>3 DEF OneStream, Receiving
  <2>10. StopPending' => /\ link' = "started"
                         /\ \A r \in Stream : ~Receiving(r)'
                         /\ \E r \in Stream : recv'[r] = "returned"
    <3> SUFFICES ASSUME StopPending'
                 PROVE  /\ \A r \in Stream : ~Receiving(r)'
                        /\ recv'[s] = "returned"
      BY <2>1, <2>2
    <3>1. recv[s] = "stopped"
      BY <2>6, <2>7 DEF StopPending
    <3>2. recv'[s] = "returned"
      BY <2>3, <3>1
    <3>3. \A r \in Stream : ~Receiving(r)'
      BY <2>1, <2>2, <2>9, <3>2 DEF Receiving
    <3>4. QED BY <3>2, <3>3
  <2>11. Deaf' => \E r \in Stream : recv'[r] = "returned"
    <3>1. ASSUME Deaf' PROVE \E r \in Stream : recv'[r] = "returned"
      <4>1. PICK r \in Stream : recv[r] = "returned"
        BY <2>1, <3>1 DEF Deaf, Running, OneStream
      <4>2. r # s
        BY <2>1, <4>1 DEF Receiving
      <4>3. QED BY <2>3, <4>1, <4>2
    <3>2. QED BY <3>1
  <2>12. QED BY <2>6, <2>7, <2>8, <2>9, <2>10, <2>11 DEF OneStream
<1>6. CASE WaitForEvent
  <2>1. /\ msgChan # <<>> /\ listener = "waiting"
        /\ listener' = Head(msgChan) /\ msgChan' = Tail(msgChan)
        /\ UNCHANGED <<link, current, recv>>
    BY <1>6 DEF WaitForEvent
  <2>2. /\ Head(msgChan) = msgChan[1] /\ Head(msgChan) \in Message
        /\ Tail(msgChan) \in Seq(Message)
        /\ Len(msgChan) \in Nat \ {0}
        /\ Len(Tail(msgChan)) = Len(msgChan) - 1
        /\ \A k \in 1 .. Len(Tail(msgChan)) : Tail(msgChan)[k] = msgChan[k + 1]
    BY <2>1, HeadOfMessages DEF Types
  <2>3. \A k \in 1 .. Len(msgChan') :
          msgChan'[k] = "stopped" => k = Len(msgChan')
    <3> SUFFICES ASSUME NEW k \in 1 .. Len(msgChan'), msgChan'[k] = "stopped"
                 PROVE  k = Len(msgChan')
      OBVIOUS
    <3>1. k + 1 \in 1 .. Len(msgChan) /\ msgChan[k + 1] = "stopped"
      BY <2>1, <2>2
    <3>2. k + 1 = Len(msgChan)
      BY <3>1 DEF OneStream
    <3>3. k \in Nat
      OBVIOUS
    <3>4. Len(msgChan) \in Nat
      BY <2>2
    <3>5. k = Len(msgChan) - 1
      BY <3>2, <3>3, <3>4
    <3>6. Len(msgChan') = Len(msgChan) - 1
      BY <2>1, <2>2
    <3>7. QED BY <3>5, <3>6
  <2>4. StopPending' => StopPending
    <3>1. CASE listener' = "stopped"
      BY <2>1, <2>2, <3>1 DEF StopPending
    <3>2. ASSUME NEW k \in 1 .. Len(msgChan'), msgChan'[k] = "stopped"
          PROVE  StopPending
      <4>1. k + 1 \in 1 .. Len(msgChan) /\ msgChan[k + 1] = "stopped"
        BY <2>1, <2>2, <3>2
      <4>2. QED BY <4>1 DEF StopPending
    <3>3. QED BY <3>1, <3>2 DEF StopPending
  <2>5. listener' = "stopped" => msgChan' = <<>>
    <3>1. ASSUME listener' = "stopped" PROVE msgChan' = <<>>
      <4>1. 1 \in 1 .. Len(msgChan) /\ msgChan[1] = "stopped"
        BY <2>1, <2>2, <3>1
      <4>2. Len(msgChan) = 1
        BY <4>1 DEF OneStream
      <4>3. Len(Tail(msgChan)) = 0
        BY <2>2, <4>2
      <4>4. QED BY <2>1, <2>2, <4>3, EmptySeq
    <3>2. QED BY <3>1
  <2>6. ~Deaf'
    BY <2>1, <2>2 DEF Deaf, Message
  <2>7. QED BY <2>1, <2>3, <2>4, <2>5, <2>6 DEF OneStream, Receiving
<1>7. CASE TaskEvent
  <2>1. /\ listener = "event" /\ listener' = "waiting"
        /\ UNCHANGED <<link, current, recv, msgChan>>
    BY <1>7 DEF TaskEvent
  <2>2. StopPending' => StopPending
    BY <2>1 DEF StopPending
  <2>3. QED BY <2>1, <2>2 DEF OneStream, Receiving, Deaf
<1>8. CASE StreamStopped
  <2>1. /\ listener = "stopped" /\ listener' = "none" /\ link' = "starting"
        /\ UNCHANGED <<current, recv, msgChan>>
    BY <1>8 DEF StreamStopped
  <2>2. /\ msgChan = <<>>
        /\ \A s \in Stream : ~Receiving(s)
        /\ \E s \in Stream : recv[s] = "returned"
    BY <2>1 DEF OneStream, StopPending
  <2>3. ~StopPending'
    BY <2>1, <2>2, EmptySeq DEF StopPending
  <2>4. QED BY <2>1, <2>2, <2>3 DEF OneStream, Receiving
<1>9. CASE Quit
  <2>1. /\ link' = "quit" /\ recv' = [s \in Stream |-> "none"]
        /\ msgChan' = <<>> /\ listener' = "none"
    BY <1>9 DEF Quit
  <2>2. ~StopPending' /\ ~Deaf'
    BY <2>1, EmptySeq DEF StopPending, Deaf, Running
  <2>3. QED BY <2>1, <2>2, EmptySeq DEF OneStream, Receiving
<1>10. QED
  BY <1>1, <1>2, <1>3, <1>4, <1>5, <1>6, <1>7, <1>8, <1>9, AllSteps
     DEF vars, BusSteps, StreamSteps, ServerSteps, ViewSteps

-------------------------------------------------------------------------------
(* The theorems *)

Inv == Types /\ Owned /\ Serving /\ ClosedLast /\ OneStream

LEMMA InvInit == Init => Inv
<1> SUFFICES ASSUME Init PROVE Inv
  OBVIOUS
<1>1. BusTypes
  <2>1. <<>> \in Seq(EventType) /\ Len(<<>>) = 0
    BY EmptySeq
  <2>2. Waiting \in Delivery /\ Waiting.at = "waiting" /\ Waiting.todo = {}
    BY DEF Waiting, Delivery
  <2>3. /\ eventChan \in Seq(EventType) /\ Len(eventChan) <= BufferSize
        /\ nextSubID \in 0 .. MaxSubID
    BY <2>1, Constants DEF Init, StreamInit, BusInit
  <2>4. /\ subs \in [SubID -> EventType \cup {"none"}]
        /\ delivery \in Delivery
        /\ delivery.at = "waiting" /\ delivery.todo = {}
    BY <2>2 DEF Init, StreamInit, BusInit
  <2>5. closed \in BOOLEAN
    BY Zenon DEF Init, StreamInit, BusInit
  <2>6. QED BY <2>3, <2>4, <2>5 DEF BusTypes
<1>2. LimitKept
  <2>1. Active = {}
    BY DEF Init, StreamInit, BusInit, Active
  <2>2. QED BY <2>1, FS_EmptySet, Constants DEF LimitKept
<1>3. StreamTypes
  BY EmptySeq, Constants DEF Init, StreamInit, StreamTypes, Handler
<1>4. WireTypes
  BY EmptySeq, Constants DEF Init, StreamInit, WireTypes
<1>5. ViewTypes
  BY EmptySeq, Constants DEF Init, ViewTypes
<1>6. Owned
  BY DEF Init, StreamInit, BusInit, Owned
<1>7. Serving
  BY DEF Init, StreamInit, BusInit, Waiting, Serving
<1>8. ClosedLast
  BY DEF Init, StreamInit, BusInit, ClosedLast
<1>9. OneStream
  BY EmptySeq DEF Init, OneStream, StopPending, Receiving, Deaf
<1>10. QED
  BY <1>1, <1>2, <1>3, <1>4, <1>5, <1>6, <1>7, <1>8, <1>9 DEF Inv, Types

LEMMA InvStep == Inv /\ [Next]_vars => Inv'
<1> SUFFICES ASSUME Inv, [Next]_vars PROVE Inv'
  OBVIOUS
<1>1. Types'
  BY BusTypesStep, LimitStep, StreamTypesStep, WireTypesStep, ViewTypesStep
     DEF Inv, Types
<1>2. Owned' /\ Serving' /\ ClosedLast'
  BY OwnedStep, ServingStep, ClosedLastStep DEF Inv
<1>3. OneStream'
  BY OneStreamStep DEF Inv
<1>4. QED BY <1>1, <1>2, <1>3 DEF Inv

\* Every state is well typed: the buffer, the subscriptions and what is on the
\* way to a client keep their limits.
THEOREM TypeCorrect == Spec => []TypeOK
<1>1. Inv => TypeOK
  BY DEF Inv, Types, BusTypes, LimitKept, StreamTypes, WireTypes, ViewTypes,
     TypeOK, StreamTypeOK, BusTypeOK
<1>2. QED BY <1>1, InvInit, InvStep, PTL DEF Spec

\* No event is sent on a stream whose StreamEvents has returned: the event's
\* handler runs for a subscription, and the stream cannot return before it has
\* given that back, for which it needs b.mu.
THEOREM NoLateSend == Spec => []NoSendAfterReturn
<1>1. Inv => NoSendAfterReturn
  BY DEF Inv, Types, BusTypes, Delivery, Owned, Serving, NoSendAfterReturn
<1>2. QED BY <1>1, InvInit, InvStep, PTL DEF Spec

\* A stream that has ended, or was refused halfway, leaves no subscription.
THEOREM NothingLeftSubscribed == Spec => []SubscriptionsGivenBack
<1>1. Inv => SubscriptionsGivenBack
  BY Constants DEF Inv, Owned, SubscriptionsGivenBack
<1>2. QED BY <1>1, InvInit, InvStep, PTL DEF Spec

\* The view receives one stream at a time and waits for its events until one has
\* stopped.
THEOREM ListensUntilThen == Spec => []ListensUntilStopped
<1>1. Inv => ListensUntilStopped
  BY DEF Inv, OneStream, Receiving, ListensUntilStopped
<1>2. QED BY <1>1, InvInit, InvStep, PTL DEF Spec
=============================================================================
