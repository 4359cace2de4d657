----------------------------- MODULE BoardView -----------------------------
(* The terminal view of a kanban board (internal/ui/kanban/model.go), as a    *)
(* client of the daemon's event service: receiveEvents reads the stream and   *)
(* fills m.eventChan, a command waits for the next message there and brings   *)
(* it to the Update loop, and Update starts the command again. What the view  *)
(* shows is left out: no event makes it load the tasks.                       *)
EXTENDS EventStream

CONSTANT ChanCap  \* capacity of m.eventChan

ASSUME ViewAssumption == ChanCap \in Nat \ {0}

VARIABLES
  link,      \* the stream of the view: about to be started, started, failed
             \* for good; or the user has quit
  current,   \* m.eventStream, 0 before the first
  recv,      \* where the receiveEvents of each stream is
  msgChan,   \* m.eventChan
  listener   \* the goroutine of waitForEvent, or the message it brings

viewVars == <<link, current, recv, msgChan, listener>>

vars == <<serviceVars, viewVars>>

Message == {"event", "stopped"}

TypeOK ==
  /\ StreamTypeOK
  /\ link \in {"starting", "started", "failed", "quit"}
  /\ current \in Stream \cup {0}
  /\ recv \in [Stream -> {"none", "receiving", "returned"} \cup Message]
  /\ msgChan \in Seq(Message) /\ Len(msgChan) <= ChanCap
  /\ listener \in {"waiting", "none"} \cup Message

Init ==
  /\ StreamInit
  /\ link = "starting"
  /\ current = 0
  /\ recv = [s \in Stream |-> "none"]
  /\ msgChan = <<>>
  /\ listener = "waiting"

Running == link # "quit"

-------------------------------------------------------------------------------
(* The stream *)

\* startEventStream
StartEventStream ==
  /\ link = "starting"
  /\ current + 1 \in Stream
  /\ Call(current + 1)
  /\ link' = "started"
  /\ current' = current + 1
  /\ recv' = [recv EXCEPT ![current + 1] = "receiving"]
  /\ UNCHANGED <<busVars, ids, owner, wire, sending, server, published, kills,
                 msgChan, listener>>

\* An error message, after which nothing is tried again.
StartFails ==
  /\ link = "starting"
  /\ link' = "failed"
  /\ UNCHANGED <<serviceVars, current, recv, msgChan, listener>>

\* receiveEvents: Recv on m.eventStream, which gives what was sent before the
\* stream's error. Events of other boards are skipped.
Receive(s) ==
  /\ Running
  /\ recv[s] = "receiving"
  /\ \/ /\ wire[current] # <<>>
        /\ wire' = [wire EXCEPT ![current] = Tail(@)]
        /\ \E to \in {"event", "receiving"} : recv' = [recv EXCEPT ![s] = to]
     \/ /\ wire[current] = <<>>
        /\ current \notin alive \/ handler[current] = "returned"
        /\ recv' = [recv EXCEPT ![s] = "stopped"]
        /\ UNCHANGED wire
  /\ UNCHANGED <<busVars, handler, ids, owner, alive, sending, server,
                 published, kills, link, current, msgChan, listener>>

\* m.eventChan <- msg
SendMessage(s) ==
  /\ Running
  /\ recv[s] \in Message
  /\ Len(msgChan) < ChanCap
  /\ msgChan' = Append(msgChan, recv[s])
  /\ recv' = [recv EXCEPT ![s] = IF @ = "event" THEN "receiving" ELSE "returned"]
  /\ UNCHANGED <<serviceVars, link, current, listener>>

WaitForEvent ==
  /\ Running
  /\ listener = "waiting"
  /\ msgChan # <<>>
  /\ listener' = Head(msgChan)
  /\ msgChan' = Tail(msgChan)
  /\ UNCHANGED <<serviceVars, link, current, recv>>

\* Mutant: the view does not wait for the next event.
TaskEventOnce ==
  /\ Running
  /\ listener = "event"
  /\ listener' = "none"
  /\ UNCHANGED <<serviceVars, link, current, recv, msgChan>>

\* handleTaskEvent changes the status line and lastUpdate: no load is started.
TaskEvent ==
  /\ Running
  /\ listener = "event"
  /\ listener' = "waiting"
  /\ UNCHANGED <<serviceVars, link, current, recv, msgChan>>

\* The stream is started again, five seconds later. Nobody waits for the events
\* it brings.
StreamStopped ==
  /\ Running
  /\ listener = "stopped"
  /\ listener' = "none"
  /\ link' = "starting"
  /\ UNCHANGED <<serviceVars, current, recv, msgChan>>

\* stopEventStream, and the end of the program.
Quit ==
  /\ Running
  /\ link' = "quit"
  /\ IF current \in alive THEN Broken(current) ELSE UNCHANGED <<alive, wire>>
  /\ recv' = [s \in Stream |-> "none"]
  /\ msgChan' = <<>>
  /\ listener' = "none"
  /\ UNCHANGED <<busVars, handler, ids, owner, sending, server, published,
                 kills, current>>

-------------------------------------------------------------------------------
(* The specification *)

Listens ==
  \/ WaitForEvent \/ TaskEvent \/ StreamStopped
  \/ \E s \in Stream : Receive(s) \/ SendMessage(s)

\* Steps of goroutines that can go on.
Work ==
  \/ /\ Delivers \/ Stopped \/ \E s \in Stream : StreamEvents(s)
     /\ UNCHANGED viewVars
  \/ Listens

Next ==
  \/ Work
  \/ Surroundings /\ UNCHANGED viewVars
  \/ StartEventStream \/ StartFails
  \/ Quit

Spec == Init /\ [][Next]_vars

\* Goroutines that can go on do. As each takes finitely many steps for an event
\* and for a stream, and these are finitely many, none can keep another one from
\* its steps for ever, and it is enough to say this of all together.
FairSpec == Spec /\ WF_vars(Work)

-------------------------------------------------------------------------------
(* Properties *)

\* Nobody takes messages from m.eventChan any more.
Deaf == Running /\ listener = "none"

\* The view goes on waiting for events until a stream has stopped, and starts
\* no other one before that.
ListensUntilStopped ==
  /\ Deaf => \E s \in Stream : recv[s] = "returned"
  /\ \A s \in Stream : recv[s] \notin {"none", "returned"} => s = current

\* Nobody waits for b.mu, for room on a stream, or for streams to end.
AtRest ==
  /\ delivery.at # "locked"
  /\ \A s \in Stream \ alive : handler[s] \in {"none", "returned"}
  /\ server = "stopping" => \E s \in alive : handler[s] # "returned"

\* Once clients and publishers ask for nothing more, every delivery has ended,
\* every stream whose context is done has returned, and the daemon has stopped
\* unless a stream is left: only a view that runs without listening can hold
\* the bus and the other streams up.
DaemonGoesOn == <>[](AtRest \/ Deaf)
=============================================================================
