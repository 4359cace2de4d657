---------------------------- MODULE EventStream ----------------------------
(* The daemon's event service (pkg/grpc/event_service_unified.go) over the    *)
(* in-memory bus. Every stream subscribes to the types its client asked for,  *)
(* one after the other; the bus's goroutine sends each event on the stream,   *)
(* while it holds b.mu; when the stream's context is done the subscriptions   *)
(* are given back. The daemon stops when all streams have ended.              *)
EXTENDS MemoryEventBus

CONSTANTS
  Pattern,      \* the event types that clients ask for, in their order
  MaxStreams,   \* bound: calls of StreamEvents
  Window,       \* events on the way to a client before Send waits (external)
  MaxEvents,    \* bound: events published
  MaxKills      \* bound: the daemon's process is killed

ASSUME StreamAssumption ==
  /\ "none" \notin EventType
  /\ Pattern \in Seq(EventType)
  /\ Pattern # <<>>
  /\ MaxStreams \in Nat \ {0}
  /\ MaxSubID >= MaxStreams * Len(Pattern)
  /\ Window \in Nat \ {0}
  /\ MaxEvents \in Nat
  /\ MaxKills \in Nat

VARIABLES
  server,     \* the gRPC server: serving, in GracefulStop, stopped
  handler,    \* where each StreamEvents is
  ids,        \* its subscriptionIDs that are still to be given back
  owner,      \* the stream whose handler each subscription has
  alive,      \* streams whose context is not done
  wire,       \* what was sent on each stream and not received
  sending,    \* the stream the bus's goroutine is about to send on, or 0
  published,  \* events published
  kills       \* times the process was killed

streamVars == <<handler, ids, owner, alive, wire, sending>>

serviceVars == <<busVars, streamVars, server, published, kills>>

Stream == 1 .. MaxStreams

Handler == {"none", "subscribe", "streaming", "unsubscribe", "returned"}

StreamTypeOK ==
  /\ BusTypeOK
  /\ server \in {"serving", "stopping", "stopped"}
  /\ handler \in [Stream -> Handler]
  /\ ids \in [Stream -> Seq(SubID)]
  /\ owner \in [SubID -> Stream \cup {0}]
  /\ alive \in SUBSET Stream
  /\ wire \in [Stream -> Seq(EventType)]
  /\ \A s \in Stream : Len(wire[s]) <= Window
  /\ sending \in Stream \cup {0}
  /\ published \in 0 .. MaxEvents
  /\ kills \in 0 .. MaxKills

StreamInit ==
  /\ BusInit
  /\ server = "serving"
  /\ handler = [s \in Stream |-> "none"]
  /\ ids = [s \in Stream |-> <<>>]
  /\ owner = [i \in SubID |-> 0]
  /\ alive = {}
  /\ wire = [s \in Stream |-> <<>>]
  /\ sending = 0
  /\ published = 0
  /\ kills = 0

Goes(s, to) == handler' = [handler EXCEPT ![s] = to]

-------------------------------------------------------------------------------
(* StreamEvents *)

\* A client calls StreamEvents.
Call(s) ==
  /\ handler[s] = "none"
  /\ server = "serving"
  /\ Goes(s, "subscribe")
  /\ alive' = alive \cup {s}

\* One more pattern is subscribed to.
Subscribed(s) ==
  /\ nextSubID < MaxSubID
  /\ nextSubID' = nextSubID + 1
  /\ subs' = [subs EXCEPT ![nextSubID + 1] = Pattern[Len(ids[s]) + 1]]
  /\ owner' = [owner EXCEPT ![nextSubID + 1] = s]
  /\ ids' = [ids EXCEPT ![s] = Append(@, nextSubID + 1)]
  /\ Goes(s, IF Len(ids'[s]) = Len(Pattern) THEN "streaming" ELSE "subscribe")

\* Mutant: a refused stream returns without its deferred function.
SubscribeOrReturn(s) ==
  /\ handler[s] = "subscribe"
  /\ \/ ~closed /\ LockFree /\ MaySubscribe /\ Subscribed(s)
     \/ /\ closed \/ (LockFree /\ ~MaySubscribe)
        /\ Goes(s, "returned")
        /\ UNCHANGED <<nextSubID, subs, owner, ids>>
  /\ UNCHANGED <<closed, eventChan, delivery, alive, wire, sending, server,
                 published, kills>>

\* A closed bus refuses at once, and a bus with too many subscriptions under
\* b.mu: StreamEvents returns the error, after the deferred function.
Subscribe(s) ==
  /\ handler[s] = "subscribe"
  /\ \/ ~closed /\ LockFree /\ MaySubscribe /\ Subscribed(s)
     \/ /\ closed \/ (LockFree /\ ~MaySubscribe)
        /\ Goes(s, "unsubscribe")
        /\ UNCHANGED <<nextSubID, subs, owner, ids>>
  /\ UNCHANGED <<closed, eventChan, delivery, alive, wire, sending, server,
                 published, kills>>

\* <-ctx.Done()
ContextDone(s) ==
  /\ handler[s] = "streaming"
  /\ s \notin alive
  /\ Goes(s, "unsubscribe")
  /\ UNCHANGED <<busVars, ids, owner, alive, wire, sending, server, published,
                 kills>>

\* The deferred function gives the subscriptions back in their order. A closed
\* bus refuses at once, which is only logged.
Unsubscribe(s) ==
  /\ handler[s] = "unsubscribe"
  /\ ids[s] # <<>>
  /\ closed \/ LockFree
  /\ subs' = IF closed THEN subs ELSE [subs EXCEPT ![Head(ids[s])] = "none"]
  /\ ids' = [ids EXCEPT ![s] = Tail(@)]
  /\ UNCHANGED <<closed, eventChan, nextSubID, delivery, handler, owner, alive,
                 wire, sending, server, published, kills>>

\* es.done is closed at the end of the deferred function.
Return(s) ==
  /\ handler[s] = "unsubscribe"
  /\ ids[s] = <<>>
  /\ Goes(s, "returned")
  /\ UNCHANGED <<busVars, ids, owner, alive, wire, sending, server, published,
                 kills>>

-------------------------------------------------------------------------------
(* The handler of an event, run by the bus's goroutine under b.mu *)

\* es.done is looked at first. An event whose data cannot be converted, or that is
\* older than the client asked for, is not sent either; it may be any event.
HandleEvent(i) ==
  /\ IsNext(i)
  /\ sending = 0
  /\ \/ Served(i) /\ UNCHANGED sending
     \/ /\ handler[owner[i]] # "returned"
        /\ sending' = owner[i]
        /\ UNCHANGED delivery
  /\ UNCHANGED <<closed, eventChan, subs, nextSubID, handler, ids, owner, alive,
                 wire, server, published, kills>>

\* Mutant: a client that is gone is waited for.
SendWaits(i) ==
  /\ IsNext(i)
  /\ sending # 0
  /\ Len(wire[sending]) < Window
  /\ wire' = [wire EXCEPT ![sending] = Append(@, delivery.event)]
  /\ sending' = 0
  /\ Served(i)
  /\ UNCHANGED <<closed, eventChan, subs, nextSubID, handler, ids, owner, alive,
                 server, published, kills>>

\* stream.Send waits while the client does not receive; it fails when the
\* context is done.
Send(i) ==
  /\ IsNext(i)
  /\ sending # 0
  /\ \/ sending \notin alive /\ UNCHANGED wire
     \/ /\ sending \in alive
        /\ Len(wire[sending]) < Window
        /\ wire' = [wire EXCEPT ![sending] = Append(@, delivery.event)]
  /\ sending' = 0
  /\ Served(i)
  /\ UNCHANGED <<closed, eventChan, subs, nextSubID, handler, ids, owner, alive,
                 server, published, kills>>

\* Whoever publishes, in the daemon or by a call of PublishEvent.
PublishEvent(type) ==
  /\ published < MaxEvents
  /\ published' = published + 1
  /\ Publish(type)
  /\ UNCHANGED <<closed, subs, nextSubID, delivery, streamVars, server, kills>>

-------------------------------------------------------------------------------
(* The daemon stops, or dies *)

\* A signal: the server takes no more calls and waits for those under way.
GracefulStop ==
  /\ server = "serving"
  /\ server' = "stopping"
  /\ UNCHANGED <<busVars, streamVars, published, kills>>

\* Mutant: the calls under way are not waited for.
StopAtOnce ==
  /\ server = "stopping"
  /\ server' = "stopped"
  /\ Close
  /\ UNCHANGED <<streamVars, published, kills>>

\* The bus is closed after that.
Stopped ==
  /\ server = "stopping"
  /\ \A s \in Stream : handler[s] \in {"none", "returned"}
  /\ server' = "stopped"
  /\ Close
  /\ UNCHANGED <<streamVars, published, kills>>

\* The context of a stream is done and what is on the wire is lost: the
\* connection breaks, or the client goes.
Broken(s) ==
  /\ alive' = alive \ {s}
  /\ wire' = [wire EXCEPT ![s] = <<>>]

ConnectionBreaks(s) ==
  /\ s \in alive
  /\ Broken(s)
  /\ UNCHANGED <<busVars, handler, ids, owner, sending, server, published,
                 kills>>

\* The process is killed, which `guild stop` does to a daemon that does not stop
\* in time, and the daemon is started again.
Killed ==
  /\ server = "stopping"
  /\ kills < MaxKills
  /\ kills' = kills + 1
  /\ closed' = FALSE
  /\ eventChan' = <<>>
  /\ subs' = [i \in SubID |-> "none"]
  /\ nextSubID' = 0
  /\ delivery' = Waiting
  /\ server' = "serving"
  /\ handler' = [s \in Stream |-> IF handler[s] = "none" THEN "none" ELSE "returned"]
  /\ ids' = [s \in Stream |-> <<>>]
  /\ owner' = [i \in SubID |-> 0]
  /\ alive' = {}
  /\ wire' = [s \in Stream |-> <<>>]
  /\ sending' = 0
  /\ UNCHANGED published

-------------------------------------------------------------------------------

StreamEvents(s) ==
  Subscribe(s) \/ ContextDone(s) \/ Unsubscribe(s) \/ Return(s)

Delivers ==
  \/ (ReceiveEvent \/ StopProcessing \/ DeliverEvent \/ DeliveryDone)
       /\ UNCHANGED <<streamVars, server, published, kills>>
  \/ \E i \in SubID : HandleEvent(i) \/ Send(i)

Surroundings ==
  \/ \E s \in Stream : ConnectionBreaks(s)
  \/ \E type \in EventType : PublishEvent(type)
  \/ GracefulStop \/ Killed

-------------------------------------------------------------------------------
(* Properties *)

\* Nothing is sent on a stream whose StreamEvents has returned, which gRPC
\* forbids: the event's handler looks at es.done before it sends, and the stream
\* may end in between, but not without b.mu, as long as the bus is not closed
\* under the streams.
NoSendAfterReturn ==
  sending # 0 => handler[sending] # "returned"

\* A stream that has ended, or was refused when it had subscribed to some of its
\* patterns, has left no subscription on the bus.
SubscriptionsGivenBack ==
  \A i \in SubID :
    subs[i] # "none" => /\ owner[i] # 0
                        /\ handler[owner[i]] # "returned"
=============================================================================
