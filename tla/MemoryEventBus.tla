--------------------------- MODULE MemoryEventBus ---------------------------
(* The in-memory event bus of pkg/events/memory_bus.go: a bounded channel of  *)
(* events, one goroutine that delivers them while it holds b.mu for reading,  *)
(* and subscriptions that are added and removed under b.mu. What a handler    *)
(* does is its owner's: CampaignManager is one.                               *)
EXTENDS Naturals, Sequences, FiniteSets

CONSTANTS
  EventType,         \* the types of the events that are published
  BufferSize, MaxSubscriptions,   \* EventBusConfig
  MaxSubID           \* bound: subscription IDs handed out

ASSUME BusAssumption ==
  /\ BufferSize \in Nat \ {0}
  /\ MaxSubscriptions \in Nat \ {0}
  /\ MaxSubID \in Nat

VARIABLES
  closed,     \* b.closed, and the close of b.stopChan that follows
  eventChan,  \* the types of the queued events
  subs,       \* b.subscriptions: the event type of every subscription ID,
              \* "none" when the ID is not in use
  nextSubID,  \* b.nextSubID
  delivery    \* what processEvents is doing

busVars == <<closed, eventChan, subs, nextSubID, delivery>>

SubID == 1 .. MaxSubID

\* The goroutine waits for an event, waits for b.mu with an event in hand,
\* holds b.mu with the subscriptions to be served, or has returned.
Delivery ==
  [at : {"waiting", "received", "locked", "returned"},
   event : EventType \cup {"none"}, todo : SUBSET SubID]

Active == {i \in SubID : subs[i] # "none"}

\* Types, with the limits of the configuration.
BusTypeOK ==
  /\ closed \in BOOLEAN
  /\ eventChan \in Seq(EventType) /\ Len(eventChan) <= BufferSize
  /\ subs \in [SubID -> EventType \cup {"none"}]
  /\ Cardinality(Active) <= MaxSubscriptions
  /\ nextSubID \in 0 .. MaxSubID
  /\ delivery \in Delivery

Waiting == [at |-> "waiting", event |-> "none", todo |-> {}]

BusInit ==
  /\ closed = FALSE
  /\ eventChan = <<>>
  /\ subs = [i \in SubID |-> "none"]
  /\ nextSubID = 0
  /\ delivery = Waiting

-------------------------------------------------------------------------------
(* Publishing never waits *)

\* Mutant: a full buffer is waited for.
PublishWaits(type) ==
  IF closed THEN UNCHANGED eventChan
  ELSE Len(eventChan) < BufferSize /\ eventChan' = Append(eventChan, type)

\* An error on a closed bus; otherwise the event is queued, or dropped when the
\* buffer is full.
Publish(type) ==
  eventChan' = IF closed \/ Len(eventChan) >= BufferSize
               THEN eventChan ELSE Append(eventChan, type)

-------------------------------------------------------------------------------
(* processEvents *)

\* The select takes an event even when the stop channel is closed.
ReceiveEvent ==
  /\ delivery.at = "waiting"
  /\ eventChan # <<>>
  /\ delivery' = [delivery EXCEPT !.at = "received", !.event = Head(eventChan)]
  /\ eventChan' = Tail(eventChan)
  /\ UNCHANGED <<closed, subs, nextSubID>>

\* Whatever is still queued is lost.
StopProcessing ==
  /\ delivery.at = "waiting"
  /\ closed
  /\ delivery' = [delivery EXCEPT !.at = "returned"]
  /\ UNCHANGED <<closed, eventChan, subs, nextSubID>>

\* deliverEvent takes the read lock, which it keeps until the last handler
\* has returned.
DeliverEvent ==
  /\ delivery.at = "received"
  /\ delivery' = [delivery EXCEPT !.at = "locked",
                    !.todo = {i \in SubID : subs[i] = delivery.event}]
  /\ UNCHANGED <<closed, eventChan, subs, nextSubID>>

\* The handlers are called in the order of their subscriptions.
IsNext(i) == i \in delivery.todo /\ \A j \in delivery.todo : i <= j

\* The handler of subscription i returned.
Served(i) == delivery' = [delivery EXCEPT !.todo = @ \ {i}]

DeliveryDone ==
  /\ delivery.at = "locked"
  /\ delivery.todo = {}
  /\ delivery' = Waiting
  /\ UNCHANGED <<closed, eventChan, subs, nextSubID>>

-------------------------------------------------------------------------------
(* Subscriptions and Close *)

\* b.mu can be taken for writing.
LockFree == delivery.at # "locked"

\* Mutant: one subscription too many.
MaySubscribeOnceMore == Cardinality(Active) <= MaxSubscriptions

MaySubscribe == Cardinality(Active) < MaxSubscriptions

Close ==
  /\ ~closed
  /\ closed' = TRUE
  /\ UNCHANGED <<eventChan, subs, nextSubID, delivery>>
=============================================================================
