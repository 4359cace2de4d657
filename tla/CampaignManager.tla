-------------------------- MODULE CampaignManager --------------------------
(* One campaign under the unified campaign manager (pkg/campaign) and the     *)
(* event bus it publishes to and listens on. Every operation gets the         *)
(* campaign from the repository, changes its copy, saves all of the copy and  *)
(* publishes; there is no transaction around that. m.mu guards the manager's  *)
(* event handlers and is held over calls to the bus.                          *)
EXTENDS MemoryEventBus

CONSTANTS
  Client,       \* goroutines of gRPC requests
  BusWorker,    \* the bus's goroutine, which runs the manager's handlers
  Nobody,       \* m.mu is free
  Commission,   \* commission IDs
  MaxOps        \* bound: operations of clients and commission events

ASSUME ManagerAssumption ==
  /\ BusWorker \notin Client /\ Nobody \notin Client
  /\ EventType = {"campaign.updated", "campaign.changed",
                  "commission.completed", "commission.status.changed"}
  /\ MaxSubID >= 2 /\ MaxSubscriptions >= 2
  /\ MaxOps \in Nat

VARIABLES
  campaign,      \* what the store has
  at,            \* where each goroutine is
  copy,          \* the campaign it is about to save
  outbox,        \* the events it publishes then
  stale,         \* history: goroutines whose copy is older than the last save
  mu,            \* who holds m.mu for writing
  handlers,      \* m.handlers["campaign.updated"]: whose they are
  subscription,  \* m.subscriptions["campaign.updated"], 0 when there is none
  watching,      \* each client's view of its subscription
  calls,         \* the handlers the bus's goroutine is about to call
  listed,        \* the copy of the commission handlers' List
  ops            \* operations begun

mgrVars == <<campaign, at, copy, outbox, stale, mu, handlers, subscription,
             watching, calls, listed, ops>>

vars == <<busVars, mgrVars>>

Process == Client \cup {BusWorker}

Status == {"none", "dream", "planning", "ready", "active", "paused",
           "completed", "cancelled", "deleted"}

\* TotalCommissions is the number of commissions in every copy that is saved
\* and CompletedCommissions is 0 in all of them; Progress, which no guard reads,
\* is left out.
Campaign == [status : Status, commissions : SUBSET Commission]

NoCampaign == [status |-> "none", commissions |-> {}]

Place == {"idle", "listed", "check", "put", "publish", "progressed", "calling",
          "subscribing", "unsubscribing"}

TypeOK ==
  /\ BusTypeOK
  /\ campaign \in Campaign
  /\ at \in [Process -> Place]
  /\ copy \in [Process -> Campaign]
  /\ outbox \in [Process -> Seq(EventType)]
  /\ stale \in SUBSET Process
  /\ mu \in Client \cup {Nobody}
  /\ handlers \in SUBSET Client
  /\ subscription \in 0 .. MaxSubID
  /\ watching \in [Client -> {"no", "failed", "yes", "left"}]
  /\ calls \in SUBSET Client
  /\ listed \in Campaign
  /\ ops \in 0 .. MaxOps

\* subscribeToCommissionEvents has made subscriptions 1 and 2.
CompletedSub == 1
StatusSub == 2

Init ==
  /\ closed = FALSE
  /\ eventChan = <<>>
  /\ subs = [i \in SubID |-> CASE i = CompletedSub -> "commission.completed"
                               [] i = StatusSub -> "commission.status.changed"
                               [] OTHER -> "none"]
  /\ nextSubID = 2
  /\ delivery = Waiting
  /\ campaign = NoCampaign
  /\ at = [p \in Process |-> "idle"]
  /\ copy = [p \in Process |-> NoCampaign]
  /\ outbox = [p \in Process |-> <<>>]
  /\ stale = {}
  /\ mu = Nobody
  /\ handlers = {}
  /\ subscription = 0
  /\ watching = [c \in Client |-> "no"]
  /\ calls = {}
  /\ listed = NoCampaign
  /\ ops = 0

Exists == campaign.status \notin {"none", "deleted"}

\* A client begins something new.
Begins(c) == at[c] = "idle" /\ ops < MaxOps /\ ops' = ops + 1

\* Everybody whose copy was read before the save that p makes now.
Overtaken(p) == {q \in Process \ {p} : at[q] \in {"check", "put"}}

\* Where a goroutine is after an operation.
AtEnd(p) == IF p = BusWorker THEN "progressed" ELSE "idle"

watchVars == <<mu, handlers, subscription, watching, calls>>

-------------------------------------------------------------------------------
(* The operations of the manager *)

Edge ==
  {<<"dream", "planning">>, <<"dream", "cancelled">>,
   <<"planning", "ready">>, <<"planning", "cancelled">>,
   <<"ready", "active">>, <<"ready", "cancelled">>,
   <<"active", "paused">>, <<"active", "completed">>, <<"active", "cancelled">>,
   <<"paused", "active">>, <<"paused", "cancelled">>}

\* Mutant: any status may follow an open one.
CanTransitionFromOpen(old, new) ==
  old \notin {"completed", "cancelled"} /\ old # new

CanTransition(old, new) == <<old, new>> \in Edge

\* repo.Get, and what is done with the copy. `events` are published once it is
\* saved; Update itself publishes the first.
Get(p, new, events) ==
  /\ Exists
  /\ at' = [at EXCEPT ![p] = "check"]
  /\ copy' = [copy EXCEPT ![p] = new]
  /\ outbox' = [outbox EXCEPT ![p] = events]
  /\ stale' = stale \ {p}

Updated == <<"campaign.updated">>
UpdatedAndChanged == <<"campaign.updated", "campaign.changed">>

\* The ID is a new one: nobody else creates or changes it before.
Create(c) ==
  /\ campaign = NoCampaign
  /\ at[c] = "idle"
  /\ campaign' = [status |-> "dream", commissions |-> {}]
  /\ at' = [at EXCEPT ![c] = "publish"]
  /\ outbox' = [outbox EXCEPT ![c] = <<"campaign.changed">>]
  /\ UNCHANGED <<busVars, watchVars, copy, stale, listed, ops>>

Delete(c) ==
  /\ Exists
  /\ Begins(c)
  /\ campaign' = [status |-> "deleted", commissions |-> {}]
  /\ at' = [at EXCEPT ![c] = "publish"]
  /\ outbox' = [outbox EXCEPT ![c] = <<"campaign.changed">>]
  /\ stale' = stale \cup Overtaken(c)
  /\ UNCHANGED <<busVars, watchVars, copy, listed>>

\* UpdateCampaign of the gRPC server: name, description and tags.
UpdateCampaign(c) ==
  /\ Begins(c)
  /\ Get(c, campaign, Updated)
  /\ UNCHANGED <<busVars, watchVars, campaign, listed>>

AddCommission(c, k) ==
  /\ k \notin campaign.commissions
  /\ Begins(c)
  /\ Get(c, [campaign EXCEPT !.commissions = @ \cup {k}], UpdatedAndChanged)
  /\ UNCHANGED <<busVars, watchVars, campaign, listed>>

RemoveCommission(c, k) ==
  /\ k \in campaign.commissions
  /\ Begins(c)
  /\ Get(c, [campaign EXCEPT !.commissions = @ \ {k}], UpdatedAndChanged)
  /\ UNCHANGED <<busVars, watchVars, campaign, listed>>

\* StartPlanning, MarkReady, Start, Pause, Resume, Complete and Cancel.
TransitionState(c, newStatus) ==
  /\ CanTransition(campaign.status, newStatus)
  /\ Begins(c)
  /\ Get(c, [campaign EXCEPT !.status = newStatus], UpdatedAndChanged)
  /\ UNCHANGED <<busVars, watchVars, campaign, listed>>

\* repo.Update looks whether the campaign exists, and saves it then.
CheckExists(p) ==
  /\ at[p] = "check"
  /\ IF Exists
     THEN /\ at' = [at EXCEPT ![p] = "put"]
          /\ UNCHANGED <<copy, outbox, stale>>
     ELSE /\ at' = [at EXCEPT ![p] = AtEnd(p)]
          /\ copy' = [copy EXCEPT ![p] = NoCampaign]
          /\ outbox' = [outbox EXCEPT ![p] = <<>>]
          /\ stale' = stale \ {p}
  /\ UNCHANGED <<busVars, watchVars, campaign, listed, ops>>

Put(p) ==
  /\ at[p] = "put"
  /\ campaign' = copy[p]
  /\ stale' = (stale \ {p}) \cup Overtaken(p)
  /\ copy' = [copy EXCEPT ![p] = NoCampaign]
  /\ at' = [at EXCEPT ![p] = "publish"]
  /\ UNCHANGED <<busVars, watchVars, outbox, listed, ops>>

PublishNext(p) ==
  /\ at[p] = "publish"
  /\ Publish(Head(outbox[p]))
  /\ outbox' = [outbox EXCEPT ![p] = Tail(@)]
  /\ at' = [at EXCEPT ![p] = IF Len(outbox[p]) > 1 THEN "publish" ELSE AtEnd(p)]
  /\ UNCHANGED <<closed, subs, nextSubID, delivery, watchVars, campaign, copy,
                 stale, listed, ops>>

-------------------------------------------------------------------------------
(* The handlers of commission events, run by the bus's goroutine *)

\* Whoever publishes an event about a commission.
CommissionEvent(type) ==
  /\ ops < MaxOps
  /\ ops' = ops + 1
  /\ Publish(type)
  /\ UNCHANGED <<closed, subs, nextSubID, delivery, campaign, at, copy, outbox,
                 stale, watchVars, listed>>

CommissionSubs == {CompletedSub, StatusSub}

\* The List of a handler: the campaign has the commission, or there is nothing
\* to do.
ListCampaigns(i, k) ==
  /\ i \in CommissionSubs /\ IsNext(i)
  /\ at[BusWorker] = "idle"
  /\ IF Exists /\ k \in campaign.commissions
     THEN /\ listed' = campaign
          /\ at' = [at EXCEPT ![BusWorker] = "listed"]
          /\ UNCHANGED delivery
     ELSE Served(i) /\ UNCHANGED <<at, listed>>
  /\ UNCHANGED <<closed, eventChan, subs, nextSubID, watchVars, campaign, copy,
                 outbox, stale, ops>>

\* UpdateProgress counts no commission as completed, so that it saves what it
\* read. When the campaign is gone it fails and the handler goes on.
UpdateProgress ==
  /\ at[BusWorker] = "listed"
  /\ IF Exists THEN Get(BusWorker, campaign, Updated)
     ELSE /\ at' = [at EXCEPT ![BusWorker] = "progressed"]
          /\ UNCHANGED <<copy, outbox, stale>>
  /\ UNCHANGED <<busVars, watchVars, campaign, listed, ops>>

\* CompletedCommissions = TotalCommissions, in the copy of List.
AllCommissionsComplete == Cardinality(listed.commissions) = 0

\* The completion handler would complete an active campaign whose commissions
\* all are; the handlers return.
HandlerReturns(i) ==
  /\ i \in CommissionSubs /\ IsNext(i)
  /\ at[BusWorker] = "progressed"
  /\ IF /\ i = CompletedSub /\ AllCommissionsComplete
        /\ listed.status = "active" /\ CanTransition(campaign.status, "completed")
     THEN /\ Get(BusWorker, [campaign EXCEPT !.status = "completed"],
                 UpdatedAndChanged)
          /\ UNCHANGED <<delivery, listed>>
     ELSE /\ at' = [at EXCEPT ![BusWorker] = "idle"]
          /\ listed' = NoCampaign
          /\ Served(i)
          /\ UNCHANGED <<copy, outbox, stale>>
  /\ UNCHANGED <<closed, eventChan, subs, nextSubID, watchVars, campaign, ops>>

-------------------------------------------------------------------------------
(* Watchers: clients that subscribe to campaign.updated *)

\* The handler is entered under m.mu; a closed bus refuses at once.
Subscribe(c) ==
  /\ watching[c] \in {"no", "left"}
  /\ mu = Nobody
  /\ nextSubID < MaxSubID
  /\ Begins(c)
  /\ handlers' = handlers \cup {c}
  /\ IF closed
     THEN /\ watching' = [watching EXCEPT ![c] = "failed"]
          /\ UNCHANGED <<mu, at>>
     ELSE /\ mu' = c
          /\ at' = [at EXCEPT ![c] = "subscribing"]
          /\ UNCHANGED watching
  /\ UNCHANGED <<busVars, campaign, copy, outbox, stale, subscription, calls,
                 listed>>

\* bus.Subscribe, still under m.mu: the last subscription is remembered.
BusSubscribe(c) ==
  /\ at[c] = "subscribing"
  /\ LockFree
  /\ IF MaySubscribe
     THEN /\ nextSubID' = nextSubID + 1
          /\ subs' = [subs EXCEPT ![nextSubID + 1] = "campaign.updated"]
          /\ subscription' = nextSubID + 1
          /\ watching' = [watching EXCEPT ![c] = "yes"]
     ELSE /\ watching' = [watching EXCEPT ![c] = "failed"]
          /\ UNCHANGED <<subs, nextSubID, subscription>>
  /\ mu' = Nobody
  /\ at' = [at EXCEPT ![c] = "idle"]
  /\ UNCHANGED <<closed, eventChan, delivery, campaign, copy, outbox, stale,
                 handlers, calls, listed, ops>>

\* Mutant: handlers are told apart although they are the same function.
OthersOf(c) == handlers \ {c}

\* Handlers are compared by the address of their code, and the watchers' is the
\* same: all of them are removed.
HandlersWithout(c) == {}

Leaves(c) ==
  watching' = [watching EXCEPT ![c] = IF @ = "yes" THEN "left" ELSE "no"]

\* When no handler remains the bus's subscription is given back, if there is
\* one and the bus is open.
Unsubscribe(c) ==
  /\ watching[c] \in {"yes", "failed"}
  /\ at[c] = "idle"
  /\ mu = Nobody
  /\ handlers' = HandlersWithout(c)
  /\ IF HandlersWithout(c) = {} /\ subscription # 0 /\ ~closed
     THEN /\ mu' = c
          /\ at' = [at EXCEPT ![c] = "unsubscribing"]
          /\ UNCHANGED watching
     ELSE Leaves(c) /\ UNCHANGED <<mu, at>>
  /\ UNCHANGED <<busVars, campaign, copy, outbox, stale, subscription, calls,
                 listed, ops>>

BusUnsubscribe(c) ==
  /\ at[c] = "unsubscribing"
  /\ LockFree
  /\ subs' = [subs EXCEPT ![subscription] = "none"]
  /\ subscription' = 0
  /\ mu' = Nobody
  /\ at' = [at EXCEPT ![c] = "idle"]
  /\ Leaves(c)
  /\ UNCHANGED <<closed, eventChan, nextSubID, delivery, campaign, copy, outbox,
                 stale, handlers, calls, listed, ops>>

\* The function Subscribe gave to the bus copies the handlers under m.mu ...
CopyHandlers(i) ==
  /\ IsNext(i) /\ i \notin CommissionSubs
  /\ at[BusWorker] = "idle"
  /\ mu = Nobody
  /\ calls' = handlers
  /\ at' = [at EXCEPT ![BusWorker] = "calling"]
  /\ UNCHANGED <<busVars, campaign, copy, outbox, stale, mu, handlers,
                 subscription, watching, listed, ops>>

\* ... and calls them after it.
CallHandlers(i) ==
  /\ IsNext(i)
  /\ at[BusWorker] = "calling"
  /\ calls' = {}
  /\ Served(i)
  /\ at' = [at EXCEPT ![BusWorker] = "idle"]
  /\ UNCHANGED <<closed, eventChan, subs, nextSubID, campaign, copy, outbox,
                 stale, mu, handlers, subscription, watching, listed, ops>>

-------------------------------------------------------------------------------
(* The specification *)

Saves(p) == CheckExists(p) \/ Put(p) \/ PublishNext(p)

Delivers ==
  \/ (ReceiveEvent \/ StopProcessing \/ DeliverEvent \/ DeliveryDone)
       /\ UNCHANGED mgrVars
  \/ UpdateProgress
  \/ \E i \in SubID :
       \/ \E k \in Commission : ListCampaigns(i, k)
       \/ HandlerReturns(i)
       \/ CopyHandlers(i)
       \/ CallHandlers(i)

Requests(c) ==
  \/ Create(c) \/ Delete(c) \/ UpdateCampaign(c) \/ Subscribe(c)
  \/ \E k \in Commission : AddCommission(c, k) \/ RemoveCommission(c, k)
  \/ \E s \in Status : TransitionState(c, s)

Next ==
  \/ \E p \in Process : Saves(p)
  \/ Delivers
  \/ \E c \in Client :
       \/ Requests(c)
       \/ BusSubscribe(c) \/ Unsubscribe(c) \/ BusUnsubscribe(c)
  \/ \E type \in {"commission.completed", "commission.status.changed"} :
       CommissionEvent(type)
  \/ Close /\ UNCHANGED mgrVars

Spec == Init /\ [][Next]_vars

\* A goroutine that can go on does, and gets a lock that stays free.
FairSpec ==
  /\ Spec
  /\ \A p \in Process : WF_vars(Saves(p))
  /\ WF_vars(Delivers)
  /\ \A c \in Client : WF_vars(BusSubscribe(c) \/ BusUnsubscribe(c))

-------------------------------------------------------------------------------
(* Properties *)

\* What one operation alone may do to the campaign: the FSM's edges, and one
\* commission in or out.
Legal(old, new) ==
  \/ new = old
  \/ new.commissions = old.commissions /\ <<old.status, new.status>> \in Edge
  \/ new.status = old.status
       /\ \E k \in Commission :
            \/ new.commissions = old.commissions \cup {k}
            \/ new.commissions = old.commissions \ {k}

\* Terminal states stay terminal, deleted campaigns stay deleted, and no change
\* of another operation is lost: only a save of a copy that an earlier save has
\* overtaken can break this (the code saves without a transaction).
LegalUnlessOvertaken ==
  [][\/ Legal(campaign, campaign')
     \/ campaign = NoCampaign /\ campaign'.status = "dream"
     \/ Exists /\ campaign'.status = "deleted"
     \/ \E p \in stale : at[p] = "put" /\ at'[p] = "publish"]_vars

\* A watcher whose Subscribe succeeded is not called any more once its
\* Unsubscribe has returned, unless the bus was closed.
NoCallAfterLeaving ==
  closed \/ \A c \in calls : watching[c] # "left"

\* The bus's goroutine holds b.mu and waits for m.mu, and the holder of m.mu
\* waits for b.mu.
LockCycle ==
  /\ mu # Nobody
  /\ at[BusWorker] = "idle"
  /\ \E i \in SubID \ CommissionSubs : IsNext(i)

\* Requests return and deliveries end, although handlers publish to the bus
\* that is calling them: nothing but the two locks taken in opposite orders can
\* keep a client or the bus's goroutine for ever.
EverythingReturns ==
  /\ \A c \in Client : at[c] # "idle" ~> (at[c] = "idle" \/ LockCycle)
  /\ delivery.at = "locked" ~> (delivery.at # "locked" \/ LockCycle)
=============================================================================
