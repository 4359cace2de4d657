---------------------------- MODULE KanbanBoard ----------------------------
(* One task on the kanban board (pkg/kanban) and its row in SQLite. Every     *)
(* operation reads the row, changes a copy and writes the copy back, each by  *)
(* a statement of its own and with no transaction around them, and publishes  *)
(* events after that. Of the copy only the status matters here: the assignee  *)
(* is not among the columns that are written, and blockers, progress and      *)
(* metadata are not among those that are read back.                           *)
EXTENDS Naturals, Sequences

CONSTANTS
  Client,   \* goroutines: gRPC requests, the UI, planners, dispatcher, agents
  MaxOps    \* bound: operations on the task after its creation

ASSUME BoardAssumption == MaxOps \in Nat

VARIABLES
  row,      \* tasks.status of the task, "none" before and "deleted" after
  at,       \* where each client is
  copy,     \* the status in the copy it holds
  outbox,   \* the statuses its events tell of, once it has saved
  moves,    \* history: clients whose operation is to change the status
  stale,    \* history: clients whose copy is older than the last write
  was,      \* history: the statuses the row has had
  told,     \* the status the events published last tell of
  ops       \* operations begun

vars == <<row, at, copy, outbox, moves, stale, was, told, ops>>

Status == {"backlog", "todo", "in_progress", "blocked", "ready_for_review",
           "done", "cancelled"}

\* CHECK (status IN ...) of the table.
Stored == {"todo", "in_progress", "blocked", "pending_review", "done"}

Place == {"idle", "created", "save", "delete", "publish"}

TypeOK ==
  /\ row \in Stored \cup {"none", "deleted"}
  /\ at \in [Client -> Place]
  /\ copy \in [Client -> Status \cup {"none"}]
  /\ outbox \in [Client -> Seq(Status \cup {"deleted"})]
  /\ moves \in SUBSET Client
  /\ stale \in SUBSET Client
  /\ was \in SUBSET Stored
  /\ told \in Status \cup {"none", "deleted"}
  /\ ops \in 0 .. MaxOps

Init ==
  /\ row = "none"
  /\ at = [c \in Client |-> "idle"]
  /\ copy = [c \in Client |-> "none"]
  /\ outbox = [c \in Client |-> <<>>]
  /\ moves = {}
  /\ stale = {}
  /\ was = {}
  /\ told = "none"
  /\ ops = 0

-------------------------------------------------------------------------------
(* The two names of a status *)

\* Mutant: what the adapter's function of the same name would do alone.
ToStoredByAdapter(s) == IF s = "ready_for_review" THEN "pending_review" ELSE s

\* mapKanbanStatusToStorageStatus; the adapter's function of the same name
\* leaves what this one returns as it is.
ToStored(s) ==
  CASE s = "backlog" -> "todo"
    [] s = "cancelled" -> "done"
    [] s = "ready_for_review" -> "pending_review"
    [] OTHER -> s

\* Mutant: an unmapped status is read by the default.
FromStoredByDefault(s) == IF s = "pending_review" THEN "todo" ELSE s

FromStored(s) == IF s = "pending_review" THEN "ready_for_review" ELSE s

-------------------------------------------------------------------------------
(* Reading and writing the row *)

\* A client begins an operation on a task that is there.
Begins(c) ==
  /\ at[c] = "idle"
  /\ row \in Stored
  /\ ops < MaxOps
  /\ ops' = ops + 1

\* getTaskSQLite and the change of the copy, whose status is s now.
Rewrite(c, s, events) ==
  /\ Begins(c)
  /\ at' = [at EXCEPT ![c] = "save"]
  /\ copy' = [copy EXCEPT ![c] = s]
  /\ outbox' = [outbox EXCEPT ![c] = events]
  /\ UNCHANGED <<row, stale, was, told>>

\* Those who hold a copy while c writes.
Holders(c) == {d \in Client \ {c} : copy[d] # "none"}

\* UPDATE ... WHERE id = ?: nothing happens, and nothing is reported, when the
\* row is gone.
Written(s) == IF row = "deleted" THEN row ELSE ToStored(s)

Dropped(c) ==
  /\ copy' = [copy EXCEPT ![c] = "none"]
  /\ moves' = moves \ {c}

Save(c) ==
  /\ at[c] = "save"
  /\ row' = Written(copy[c])
  /\ was' = IF row = "deleted" THEN was ELSE was \cup {row'}
  /\ stale' = (stale \ {c}) \cup Holders(c)
  /\ at' = [at EXCEPT ![c] = IF outbox[c] = <<>> THEN "idle" ELSE "publish"]
  /\ Dropped(c)
  /\ UNCHANGED <<outbox, told, ops>>

\* Mutant: the error is only logged, and the events are published.
SaveFailsQuietly(c) ==
  /\ at[c] = "save"
  /\ at' = [at EXCEPT ![c] = IF outbox[c] = <<>> THEN "idle" ELSE "publish"]
  /\ stale' = stale \ {c}
  /\ Dropped(c)
  /\ UNCHANGED <<row, outbox, was, told, ops>>

\* The database is locked, or the context is done: the operation returns the
\* error.
SaveFails(c) ==
  /\ at[c] = "save"
  /\ at' = [at EXCEPT ![c] = "idle"]
  /\ outbox' = [outbox EXCEPT ![c] = <<>>]
  /\ stale' = stale \ {c}
  /\ Dropped(c)
  /\ UNCHANGED <<row, was, told, ops>>

\* The events that tell no status are left out.
PublishNext(c) ==
  /\ at[c] = "publish"
  /\ told' = Head(outbox[c])
  /\ outbox' = [outbox EXCEPT ![c] = Tail(@)]
  /\ at' = [at EXCEPT ![c] =
              IF Len(outbox[c]) > 1 THEN "publish"
              ELSE IF copy[c] # "none" THEN "created" ELSE "idle"]
  /\ UNCHANGED <<row, copy, moves, stale, was, ops>>

-------------------------------------------------------------------------------
(* The operations *)

\* The row can be read and changed before the event is out and the task
\* returned.
CreateTask(c) ==
  /\ row = "none"
  /\ row' = ToStored("backlog")
  /\ was' = {row'}
  /\ copy' = [copy EXCEPT ![c] = "backlog"]
  /\ outbox' = [outbox EXCEPT ![c] = <<"backlog">>]
  /\ at' = [at EXCEPT ![c] = "publish"]
  /\ UNCHANGED <<moves, stale, told, ops>>

\* Most callers of CreateTask are done with the task then.
CreateReturns(c) ==
  /\ at[c] = "created"
  /\ at' = [at EXCEPT ![c] = "idle"]
  /\ stale' = stale \ {c}
  /\ Dropped(c)
  /\ UNCHANGED <<row, outbox, was, told, ops>>

\* PlanTasks sets the status of the task that CreateTask returned, and saves it
\* without reading the row again.
PlanTasks(c) ==
  /\ at[c] = "created"
  /\ at' = [at EXCEPT ![c] = "save"]
  /\ copy' = [copy EXCEPT ![c] = "todo"]
  /\ UNCHANGED <<row, outbox, moves, stale, was, told, ops>>

\* Moved, if the copy had another status, and then perhaps completed.
MoveEvents(s) ==
  IF FromStored(row) = s THEN <<>>
  ELSE IF s = "done" THEN <<s, s>> ELSE <<s>>

UpdateTaskStatus(c, newStatus) ==
  /\ Rewrite(c, newStatus, MoveEvents(newStatus))
  /\ moves' = moves \cup {c}

\* The UI, and the orchestrator's KanbanManager, call UpdateTask themselves:
\* no event is published.
MoveTask(c, newStatus) ==
  /\ Rewrite(c, newStatus, <<>>)
  /\ moves' = moves \cup {c}

\* The new assignee is in the copy, and UPDATE has no column for it.
AssignTask(c) ==
  /\ Rewrite(c, FromStored(row), <<>>)
  /\ UNCHANGED moves

\* The copy has no blockers, so that this one is its first: blocked.
AddTaskBlocker(c) ==
  /\ Rewrite(c, "blocked", <<"blocked">>)
  /\ moves' = moves \cup {c}

\* The copy has no blockers, so that there is none to remove: the status stays.
RemoveTaskBlocker(c) ==
  /\ Rewrite(c, FromStored(row), <<>>)
  /\ UNCHANGED moves

\* DeleteTask looks for the task first.
DeleteTask(c) ==
  /\ Begins(c)
  /\ at' = [at EXCEPT ![c] = "delete"]
  /\ UNCHANGED <<row, copy, outbox, moves, stale, was, told>>

DeleteRow(c) ==
  /\ at[c] = "delete"
  /\ row' = "deleted"
  /\ outbox' = [outbox EXCEPT ![c] = <<"deleted">>]
  /\ at' = [at EXCEPT ![c] = "publish"]
  /\ stale' = stale \cup Holders(c)
  /\ UNCHANGED <<copy, moves, was, told, ops>>

Operation(c) ==
  \/ CreateTask(c) \/ CreateReturns(c) \/ PlanTasks(c)
  \/ \E s \in Status : UpdateTaskStatus(c, s) \/ MoveTask(c, s)
  \/ AssignTask(c) \/ AddTaskBlocker(c) \/ RemoveTaskBlocker(c) \/ DeleteTask(c)

Next ==
  \E c \in Client :
    \/ Operation(c)
    \/ Save(c) \/ SaveFails(c) \/ DeleteRow(c) \/ PublishNext(c)

Spec == Init /\ [][Next]_vars

-------------------------------------------------------------------------------
(* Properties *)

\* c saves in this step.
Saves(c) == at[c] = "save" /\ at'[c] # "save"

\* The status changes only by an operation that is to change it, or back to one
\* it has had, by a copy that a later write has overtaken. So an update lost to
\* such a copy is the worst of it: assigning a task and removing a blocker do
\* not move it, although both write the status back under its other name, a
\* planner's second save does not unless somebody else was at work, and no copy
\* written back after the task was deleted brings it back.
MovesOnPurpose ==
  [][row' # row =>
       \/ row = "none"
       \/ row' = "deleted" /\ \E c \in Client : at[c] = "delete"
       \/ /\ row # "deleted"
          /\ \/ \E c \in moves : Saves(c)
             \/ row' \in was /\ \E c \in stale : Saves(c)]_vars

\* The events tell of no status the row never had, in whatever order they are
\* published and whichever writes fail; of a deleted task they may, since
\* writing to it reports no error.
NoInventedStatus ==
  told \in Status /\ row # "deleted" => ToStored(told) \in was
=============================================================================
