-------------------------- MODULE KanbanBoardProofs --------------------------
(* What holds of a task's row and of the events about it for every number of  *)
(* clients and operations.                                                    *)
EXTENDS KanbanBoard, SequenceTheorems, TLAPS

-------------------------------------------------------------------------------
(* The two names of a status *)

\* Every status is stored as one the table allows.
LEMMA StoredIsLegal == \A s \in Status : ToStored(s) \in Stored
BY DEF Status, Stored, ToStored

\* What is read and written back under its other name is what was there.
LEMMA RoundTrip ==
  \A s \in Stored : FromStored(s) \in Status /\ ToStored(FromStored(s)) = s
BY DEF Status, Stored, ToStored, FromStored

\* What nobody stores.
LEMMA Names ==
  /\ "none" \notin Status /\ "deleted" \notin Status
  /\ "none" \notin Stored /\ "deleted" \notin Stored
  /\ {"backlog", "todo", "blocked", "done"} \subseteq Status
  /\ ToStored("backlog") = "todo" /\ ToStored("todo") = "todo"
BY DEF Status, Stored, ToStored

-------------------------------------------------------------------------------
(* Type correctness *)

\* The actions that only read the row, by what they do to it.
Reads(c) ==
  \E s \in Status, events \in Seq(Status) :
    /\ Rewrite(c, s, events)
    /\ \A i \in 1 .. Len(events) : events[i] = s
    /\ moves' = moves \cup {c} \/ (moves' = moves /\ s = FromStored(row))

LEMMA ReadsOnly ==
  ASSUME TypeOK, NEW c \in Client,
         \/ \E s \in Status : UpdateTaskStatus(c, s) \/ MoveTask(c, s)
         \/ AssignTask(c) \/ AddTaskBlocker(c) \/ RemoveTaskBlocker(c)
  PROVE  Reads(c)
<1>1. ASSUME NEW s \in Status, UpdateTaskStatus(c, s) PROVE Reads(c)
  <2>1. /\ MoveEvents(s) \in Seq(Status)
        /\ \A i \in 1 .. Len(MoveEvents(s)) : MoveEvents(s)[i] = s
    BY DEF MoveEvents
  <2>2. QED BY <1>1, <2>1 DEF UpdateTaskStatus, Reads
<1>2. <<>> \in Seq(Status) /\ \A s : \A i \in 1 .. Len(<<>>) : <<>>[i] = s
  OBVIOUS
<1>3. ASSUME NEW s \in Status, MoveTask(c, s) PROVE Reads(c)
  BY <1>2, <1>3 DEF MoveTask, Reads
<1>4. ASSUME AssignTask(c) \/ RemoveTaskBlocker(c) PROVE Reads(c)
  <2>1. FromStored(row) \in Status
    BY <1>4, RoundTrip DEF AssignTask, RemoveTaskBlocker, Rewrite, Begins
  <2>2. QED BY <1>2, <1>4, <2>1 DEF AssignTask, RemoveTaskBlocker, Reads
<1>5. ASSUME AddTaskBlocker(c) PROVE Reads(c)
  <2>1. /\ <<"blocked">> \in Seq(Status) /\ "blocked" \in Status
        /\ \A i \in 1 .. Len(<<"blocked">>) : <<"blocked">>[i] = "blocked"
    BY Names
  <2>2. QED BY <1>5, <2>1 DEF AddTaskBlocker, Reads
<1>6. QED BY <1>1, <1>3, <1>4, <1>5

\* Next, with those actions as one.
LEMMA Steps ==
  ASSUME TypeOK, [Next]_vars
  PROVE  \/ UNCHANGED vars
         \/ \E c \in Client :
              \/ Reads(c)
              \/ CreateTask(c) \/ CreateReturns(c) \/ PlanTasks(c)
              \/ DeleteTask(c) \/ DeleteRow(c)
              \/ Save(c) \/ SaveFails(c) \/ PublishNext(c)
<1>1. ASSUME NEW c \in Client, Operation(c)
      PROVE  \/ Reads(c) \/ CreateTask(c) \/ CreateReturns(c) \/ PlanTasks(c)
             \/ DeleteTask(c)
  BY <1>1, ReadsOnly DEF Operation
<1>2. QED BY <1>1 DEF Next

\* A copy that is held, and one that is about to be saved.
HoldsCopy ==
  \A c \in Client : at[c] \in {"save", "created"} => copy[c] # "none"

\* Who deletes holds none, and who does nothing has nothing to publish.
Deletes == \A c \in Client : at[c] \in {"idle", "delete"} => copy[c] = "none"

\* Events that are out one after the other.
HasEvents == \A c \in Client : at[c] = "publish" => outbox[c] # <<>>

Types == TypeOK /\ HoldsCopy /\ HasEvents /\ Deletes

LEMMA NotEmpty ==
  ASSUME NEW S, NEW s \in Seq(S), Len(s) > 0
  PROVE  s # <<>>
OBVIOUS

LEMMA EmptyIsEmpty ==
  ASSUME NEW S, NEW s \in Seq(S), Len(s) = 0
  PROVE  s = <<>>
OBVIOUS

LEMMA HasOne ==
  ASSUME NEW S, NEW s \in Seq(S), s # <<>>
  PROVE  Len(s) \in Nat /\ Len(s) >= 1 /\ Head(s) = s[1]
<1>1. Len(s) \in Nat
  OBVIOUS
<1>2. Len(s) # 0
  BY EmptyIsEmpty
<1>3. Len(s) >= 1
  BY <1>1, <1>2
<1>4. QED BY <1>1, <1>3

\* What is left of a sequence.
LEMMA TailIsLeft ==
  ASSUME NEW S, NEW s \in Seq(S), s # <<>>
  PROVE  /\ Head(s) \in S /\ Head(s) = s[1] /\ Len(s) \in Nat /\ Len(s) >= 1
         /\ Tail(s) \in Seq(S)
         /\ Len(s) > 1 => Tail(s) # <<>>
         /\ \A i \in 1 .. Len(Tail(s)) : i + 1 \in 1 .. Len(s)
                                         /\ Tail(s)[i] = s[i + 1]
<1>1. /\ Head(s) \in S /\ Tail(s) \in Seq(S)
      /\ Len(Tail(s)) = Len(s) - 1
      /\ \A i \in 1 .. Len(Tail(s)) : Tail(s)[i] = s[i + 1]
  BY HeadTailProperties
<1>2. Len(s) \in Nat /\ Len(s) >= 1 /\ Head(s) = s[1]
  BY HasOne
<1>3. ASSUME Len(s) > 1 PROVE Tail(s) # <<>>
  <2>1. Len(Tail(s)) > 0
    BY <1>1, <1>2, <1>3
  <2>2. QED BY <1>1, <2>1, NotEmpty
<1>4. QED BY <1>1, <1>2, <1>3

LEMMA TypesInit == Init => Types
<1> SUFFICES ASSUME Init PROVE Types
  OBVIOUS
<1>1. [c \in Client |-> <<>>] \in [Client -> Seq(Status \cup {"deleted"})]
  OBVIOUS
<1>2. 0 \in 0 .. MaxOps
  BY BoardAssumption
<1>3. TypeOK
  BY <1>1, <1>2 DEF Init, TypeOK, Place
<1>4. HoldsCopy /\ HasEvents /\ Deletes
  BY DEF Init, HoldsCopy, HasEvents, Deletes
<1>5. QED BY <1>3, <1>4 DEF Types

LEMMA TypesStep ==
  ASSUME Types, [Next]_vars
  PROVE  Types'
<1> USE Names, BoardAssumption DEF Types, Place
<1>1. CASE UNCHANGED vars
  BY <1>1 DEF vars, TypeOK, HoldsCopy, HasEvents, Deletes
<1>2. ASSUME NEW c \in Client, Reads(c) PROVE Types'
  <2>1. PICK s \in Status, events \in Seq(Status) :
          Rewrite(c, s, events) /\ moves' \in SUBSET Client
    BY <1>2 DEF Reads, TypeOK
  <2>2. events \in Seq(Status \cup {"deleted"})
    OBVIOUS
  <2>3. TypeOK'
    BY <2>1, <2>2 DEF Rewrite, Begins, TypeOK
  <2>4. HoldsCopy' /\ HasEvents' /\ Deletes'
    BY <2>1 DEF Rewrite, TypeOK, HoldsCopy, HasEvents, Deletes
  <2>5. QED BY <2>3, <2>4
<1>3. ASSUME NEW c \in Client, CreateTask(c) PROVE Types'
  <2>1. /\ <<"backlog">> \in Seq(Status \cup {"deleted"})
        /\ <<"backlog">> # <<>> /\ ToStored("backlog") \in Stored
    BY StoredIsLegal
  <2>2. TypeOK'
    BY <1>3, <2>1 DEF CreateTask, TypeOK
  <2>3. HoldsCopy' /\ HasEvents' /\ Deletes'
    BY <1>3, <2>1 DEF CreateTask, TypeOK, HoldsCopy, HasEvents, Deletes
  <2>4. QED BY <2>2, <2>3
<1>4. ASSUME NEW c \in Client, CreateReturns(c) PROVE Types'
  BY <1>4 DEF CreateReturns, Dropped, TypeOK, HoldsCopy, HasEvents, Deletes
<1>5. ASSUME NEW c \in Client, PlanTasks(c) PROVE Types'
  BY <1>5 DEF PlanTasks, TypeOK, HoldsCopy, HasEvents, Deletes
<1>6. ASSUME NEW c \in Client, DeleteTask(c) PROVE Types'
  BY <1>6 DEF DeleteTask, Begins, TypeOK, HoldsCopy, HasEvents, Deletes
<1>7. ASSUME NEW c \in Client, DeleteRow(c) PROVE Types'
  <2>1. /\ <<"deleted">> \in Seq(Status \cup {"deleted"})
        /\ <<"deleted">> # <<>>
    OBVIOUS
  <2>2. QED BY <1>7, <2>1 DEF DeleteRow, Holders, TypeOK, HoldsCopy,
       HasEvents, Deletes
<1>8. ASSUME NEW c \in Client, Save(c) PROVE Types'
  <2>1. copy[c] \in Status
    BY <1>8 DEF Save, TypeOK, HoldsCopy
  <2>2. /\ row' \in Stored \cup {"deleted"}
        /\ row # "deleted" => row' \in Stored
    BY <1>8, <2>1, StoredIsLegal DEF Save, Written
  <2>3. TypeOK'
    BY <1>8, <2>2 DEF Save, Dropped, Holders, TypeOK
  <2>4. HoldsCopy' /\ HasEvents' /\ Deletes'
    BY <1>8 DEF Save, Dropped, TypeOK, HoldsCopy, HasEvents, Deletes
  <2>5. QED BY <2>3, <2>4
<1>9. ASSUME NEW c \in Client, SaveFails(c) PROVE Types'
  BY <1>9 DEF SaveFails, Dropped, TypeOK, HoldsCopy, HasEvents, Deletes
<1>10. ASSUME NEW c \in Client, PublishNext(c) PROVE Types'
  <2>1. outbox[c] \in Seq(Status \cup {"deleted"}) /\ outbox[c] # <<>>
    BY <1>10 DEF PublishNext, TypeOK, HasEvents
  <2>2. /\ Head(outbox[c]) \in Status \cup {"deleted"}
        /\ Tail(outbox[c]) \in Seq(Status \cup {"deleted"})
        /\ Len(outbox[c]) > 1 => Tail(outbox[c]) # <<>>
    BY <2>1, TailIsLeft
  <2>3. TypeOK'
    BY <1>10, <2>2 DEF PublishNext, TypeOK
  <2>4. HoldsCopy' /\ HasEvents' /\ Deletes'
    BY <1>10, <2>2 DEF PublishNext, TypeOK, HoldsCopy, HasEvents, Deletes
  <2>5. QED BY <2>3, <2>4
<1>11. QED
  BY <1>1, <1>2, <1>3, <1>4, <1>5, <1>6, <1>7, <1>8, <1>9, <1>10, Steps

\* Every state is well typed; above all, the row's status is always one that the
\* table's CHECK allows, whatever the board's status is.
THEOREM TypeCorrect == Spec => []TypeOK
<1>1. Types => TypeOK
  BY DEF Types
<1>2. Types /\ [Next]_vars => Types'
  BY TypesStep
<1>3. QED BY <1>1, <1>2, TypesInit, PTL DEF Spec

-------------------------------------------------------------------------------
(* Moves *)

\* A copy that no write has overtaken and no operation has moved says what the
\* row says. The copy CreateTask returned is the new task's.
FreshCopies ==
  /\ row = "none" => \A c \in Client : copy[c] = "none" /\ at[c] = "idle"
  /\ \A c \in Client :
       copy[c] # "none" /\ c \notin moves \cup stale => row = ToStored(copy[c])
  /\ \A c \in Client :
       copy[c] # "none" /\ at[c] # "save" => copy[c] = "backlog"

\* A copy that is not to move the task says what the row said once.
KnownCopies ==
  /\ row \in Stored => row \in was
  /\ \A c \in Client :
       copy[c] # "none" /\ c \notin moves => ToStored(copy[c]) \in was

LEMMA FreshCopiesStep ==
  ASSUME Types, FreshCopies, [Next]_vars
  PROVE  FreshCopies'
<1> USE Names DEF Types, FreshCopies
<1>1. CASE UNCHANGED vars
  BY <1>1 DEF vars
<1>2. ASSUME NEW c \in Client, Reads(c) PROVE FreshCopies'
  <2>1. PICK s \in Status :
          /\ \E events : Rewrite(c, s, events)
          /\ c \notin moves' => s = FromStored(row)
          /\ moves' = moves \cup {c} \/ moves' = moves
    BY <1>2 DEF Reads
  <2>2. row \in Stored /\ row' = row /\ stale' = stale
    BY <2>1 DEF Rewrite, Begins
  <2>3. s = FromStored(row) => row = ToStored(s)
    BY <2>2, RoundTrip
  <2>4. at' = [at EXCEPT ![c] = "save"] /\ copy' = [copy EXCEPT ![c] = s]
    BY <2>1 DEF Rewrite
  <2>5. QED BY <2>1, <2>2, <2>3, <2>4 DEF TypeOK
<1>3. ASSUME NEW c \in Client, CreateTask(c) PROVE FreshCopies'
  <2>1. /\ row' = "todo" /\ ToStored("backlog") = row'
        /\ copy' = [copy EXCEPT ![c] = "backlog"]
        /\ at' = [at EXCEPT ![c] = "publish"]
    BY <1>3 DEF CreateTask
  <2>2. \A d \in Client : d = c \/ copy'[d] = "none"
    BY <1>3, <2>1 DEF CreateTask, TypeOK
  <2>3. copy'[c] = "backlog"
    BY <2>1 DEF TypeOK
  <2>4. QED BY <2>1, <2>2, <2>3
<1>4. ASSUME NEW c \in Client, CreateReturns(c) PROVE FreshCopies'
  BY <1>4 DEF CreateReturns, Dropped, TypeOK
<1>5. ASSUME NEW c \in Client, PlanTasks(c) PROVE FreshCopies'
  <2>1. copy[c] = "backlog"
    BY <1>5 DEF PlanTasks, HoldsCopy
  <2>2. QED BY <1>5, <2>1 DEF PlanTasks, TypeOK
<1>6. ASSUME NEW c \in Client, DeleteTask(c) PROVE FreshCopies'
  BY <1>6 DEF DeleteTask, Begins, TypeOK
<1>7. ASSUME NEW c \in Client, DeleteRow(c) PROVE FreshCopies'
  <2>1. \A d \in Client : d = c \/ copy[d] = "none" \/ d \in stale'
    BY <1>7 DEF DeleteRow, Holders
  <2>2. /\ row' = "deleted" /\ copy' = copy /\ moves' = moves
        /\ at' = [at EXCEPT ![c] = "publish"]
    BY <1>7 DEF DeleteRow
  <2>3. copy[c] = "none"
    BY <1>7 DEF DeleteRow, Deletes
  <2>4. QED BY <2>1, <2>2, <2>3 DEF TypeOK
<1>8. ASSUME NEW c \in Client, Save(c) PROVE FreshCopies'
  <2>1. copy' = [copy EXCEPT ![c] = "none"] /\ moves' = moves \ {c}
    BY <1>8 DEF Save, Dropped
  <2>2. \A d \in Client : copy'[d] # "none" => d \in stale'
    BY <1>8, <2>1 DEF Save, Holders, TypeOK
  <2>3. row' # "none"
    <3>1. copy[c] \in Status
      BY <1>8 DEF Save, TypeOK, HoldsCopy
    <3>2. QED BY <1>8, <3>1, StoredIsLegal DEF Save, Written
  <2>4. \A d \in Client : copy'[d] # "none" /\ at'[d] # "save" =>
          copy[d] # "none" /\ at[d] # "save" /\ copy'[d] = copy[d]
    BY <1>8, <2>1 DEF Save, TypeOK
  <2>5. QED BY <2>2, <2>3, <2>4
<1>9. ASSUME NEW c \in Client, SaveFails(c) PROVE FreshCopies'
  BY <1>9 DEF SaveFails, Dropped, TypeOK
<1>10. ASSUME NEW c \in Client, PublishNext(c) PROVE FreshCopies'
  BY <1>10 DEF PublishNext, TypeOK
<1>11. QED
  BY <1>1, <1>2, <1>3, <1>4, <1>5, <1>6, <1>7, <1>8, <1>9, <1>10, Steps

LEMMA KnownCopiesStep ==
  ASSUME Types, FreshCopies, KnownCopies, [Next]_vars
  PROVE  KnownCopies'
<1> USE Names DEF Types, KnownCopies
<1>1. CASE UNCHANGED vars
  BY <1>1 DEF vars
<1>2. ASSUME NEW c \in Client, Reads(c) PROVE KnownCopies'
  <2>1. PICK s \in Status :
          /\ \E events : Rewrite(c, s, events)
          /\ c \notin moves' => s = FromStored(row)
          /\ moves' = moves \cup {c} \/ moves' = moves
    BY <1>2 DEF Reads
  <2>2. row \in Stored /\ row' = row /\ was' = was
    BY <2>1 DEF Rewrite, Begins
  <2>3. s = FromStored(row) => ToStored(s) \in was
    BY <2>2, RoundTrip
  <2>4. copy' = [copy EXCEPT ![c] = s]
    BY <2>1 DEF Rewrite
  <2>5. QED BY <2>1, <2>2, <2>3, <2>4 DEF TypeOK
<1>3. ASSUME NEW c \in Client, CreateTask(c) PROVE KnownCopies'
  <2>1. /\ was' = {row'} /\ row' = ToStored("backlog")
        /\ copy' = [copy EXCEPT ![c] = "backlog"]
    BY <1>3 DEF CreateTask
  <2>2. \A d \in Client : d = c \/ copy'[d] = "none"
    BY <1>3, <2>1 DEF CreateTask, FreshCopies, TypeOK
  <2>3. QED BY <2>1, <2>2 DEF TypeOK
<1>4. ASSUME NEW c \in Client, CreateReturns(c) PROVE KnownCopies'
  BY <1>4 DEF CreateReturns, Dropped, TypeOK
<1>5. ASSUME NEW c \in Client, PlanTasks(c) PROVE KnownCopies'
  <2>1. copy[c] = "backlog"
    BY <1>5 DEF PlanTasks, HoldsCopy, FreshCopies
  <2>2. QED BY <1>5, <2>1 DEF PlanTasks, TypeOK
<1>6. ASSUME NEW c \in Client, DeleteTask(c) PROVE KnownCopies'
  BY <1>6 DEF DeleteTask, Begins
<1>7. ASSUME NEW c \in Client, DeleteRow(c) PROVE KnownCopies'
  BY <1>7 DEF DeleteRow
<1>8. ASSUME NEW c \in Client, Save(c) PROVE KnownCopies'
  <2>1. was \subseteq was' /\ (row' \in Stored => row' \in was')
    BY <1>8 DEF Save, Written
  <2>2. copy' = [copy EXCEPT ![c] = "none"] /\ moves' = moves \ {c}
    BY <1>8 DEF Save, Dropped
  <2>3. QED BY <2>1, <2>2 DEF TypeOK
<1>9. ASSUME NEW c \in Client, SaveFails(c) PROVE KnownCopies'
  BY <1>9 DEF SaveFails, Dropped, TypeOK
<1>10. ASSUME NEW c \in Client, PublishNext(c) PROVE KnownCopies'
  BY <1>10 DEF PublishNext
<1>11. QED
  BY <1>1, <1>2, <1>3, <1>4, <1>5, <1>6, <1>7, <1>8, <1>9, <1>10, Steps

\* For any number of clients: only an operation that is to move the task gives
\* it another status; a copy that another write has overtaken gives it at worst
\* one it has had, and nothing brings a deleted task back.
THEOREM OnlyMovesMove == Spec => MovesOnPurpose
<1> DEFINE Fine ==
      row' # row =>
        \/ row = "none"
        \/ row' = "deleted" /\ \E c \in Client : at[c] = "delete"
        \/ /\ row # "deleted"
           /\ \/ \E c \in moves : Saves(c)
              \/ row' \in was /\ \E c \in stale : Saves(c)
<1>1. Init => FreshCopies /\ KnownCopies
  BY Names DEF Init, FreshCopies, KnownCopies
<1>2. Types /\ FreshCopies /\ KnownCopies /\ [Next]_vars =>
        FreshCopies' /\ KnownCopies'
  BY FreshCopiesStep, KnownCopiesStep
<1>3. Types /\ FreshCopies /\ KnownCopies /\ [Next]_vars => [Fine]_vars
  <2> SUFFICES ASSUME Types, FreshCopies, KnownCopies, [Next]_vars PROVE Fine
    OBVIOUS
  <2>1. ASSUME NEW c \in Client, Save(c) PROVE Fine
    <3>1. copy[c] \in Status /\ Saves(c)
      BY <2>1 DEF Save, Saves, Types, TypeOK, HoldsCopy
    <3>2. CASE row = "deleted"
      BY <2>1, <3>2 DEF Save, Written
    <3>3. CASE row # "deleted" /\ c \in moves
      BY <3>1, <3>3
    <3>4. CASE row # "deleted" /\ c \notin moves
      <4>1. row' = ToStored(copy[c]) /\ row' \in was
        BY <2>1, <3>1, <3>4, Names DEF Save, Written, KnownCopies
      <4>2. c \notin stale => row' = row
        BY <3>1, <3>4, <4>1, Names DEF FreshCopies
      <4>3. QED BY <3>1, <3>4, <4>1, <4>2
    <3>5. QED BY <3>2, <3>3, <3>4
  <2>2. ASSUME NEW c \in Client, DeleteRow(c) PROVE Fine
    BY <2>2 DEF DeleteRow
  <2>3. ASSUME NEW c \in Client, CreateTask(c) PROVE Fine
    BY <2>3 DEF CreateTask
  <2>4. CASE UNCHANGED row
    BY <2>4
  <2>5. QED
    BY <2>1, <2>2, <2>3, <2>4, Steps DEF Types, vars, Reads, Rewrite,
       CreateReturns, PlanTasks, DeleteTask, SaveFails, PublishNext
<1>4. QED
  BY <1>1, <1>2, <1>3, TypesInit, TypesStep, PTL DEF Spec, MovesOnPurpose

-------------------------------------------------------------------------------
(* Events *)

\* What a client is going to publish: the status it is going to save, and once
\* it has, one the row has had.
TellsItsCopy ==
  \A c \in Client : at[c] = "save" =>
    \A i \in 1 .. Len(outbox[c]) : outbox[c][i] = copy[c]

TellsTheRow ==
  row # "deleted" =>
    /\ \A c \in Client : at[c] = "publish" =>
         \A i \in 1 .. Len(outbox[c]) :
           outbox[c][i] \in Status /\ ToStored(outbox[c][i]) \in was
    /\ told \in Status => ToStored(told) \in was

\* Nothing is left over of what was published.
NothingLeft == \A c \in Client : at[c] = "created" => outbox[c] = <<>>

\* Nor is anybody at work before there is a row.
NothingBefore ==
  row = "none" => was = {} /\ \A c \in Client : at[c] = "idle"

Truth == TellsItsCopy /\ TellsTheRow /\ NothingLeft /\ NothingBefore

LEMMA TailOfOne ==
  ASSUME NEW S, NEW s \in Seq(S), s # <<>>, ~(Len(s) > 1)
  PROVE  Tail(s) = <<>>
<1>1. Tail(s) \in Seq(S) /\ Len(Tail(s)) = Len(s) - 1
  BY HeadTailProperties
<1>2. Len(s) = 1
  BY HasOne
<1>3. Len(Tail(s)) = 0
  BY <1>1, <1>2
<1>4. QED BY <1>1, <1>3, EmptyIsEmpty

LEMMA TruthStep ==
  ASSUME Types, Truth, [Next]_vars
  PROVE  Truth'
<1> USE Names DEF Types, Truth
<1>1. CASE UNCHANGED vars
  BY <1>1 DEF vars, TellsItsCopy, TellsTheRow,
     NothingLeft, NothingBefore
<1>2. ASSUME NEW c \in Client, Reads(c) PROVE Truth'
  <2>1. PICK s \in Status, events \in Seq(Status) :
          Rewrite(c, s, events) /\ \A i \in 1 .. Len(events) : events[i] = s
    BY <1>2 DEF Reads
  <2>2. /\ at' = [at EXCEPT ![c] = "save"] /\ copy' = [copy EXCEPT ![c] = s]
        /\ outbox' = [outbox EXCEPT ![c] = events]
        /\ row \in Stored /\ UNCHANGED <<row, was, told>>
    BY <2>1 DEF Rewrite, Begins
  <2>3. at'[c] = "save" /\ copy'[c] = s /\ outbox'[c] = events
    BY <2>2 DEF TypeOK
  <2>4. \A d \in Client : d # c =>
          at'[d] = at[d] /\ copy'[d] = copy[d] /\ outbox'[d] = outbox[d]
    BY <2>2 DEF TypeOK
  <2>5. TellsItsCopy'
    BY <2>1, <2>3, <2>4 DEF TellsItsCopy
  <2>6. TellsTheRow' /\ NothingLeft' /\ NothingBefore'
    BY <2>2, <2>3, <2>4 DEF TellsTheRow, NothingLeft, NothingBefore
  <2>7. QED BY <2>5, <2>6
<1>3. ASSUME NEW c \in Client, CreateTask(c) PROVE Truth'
  <2>1. /\ \A i \in 1 .. Len(<<"backlog">>) : <<"backlog">>[i] = "backlog"
        /\ \A d \in Client : d # c => at'[d] = at[d] /\ outbox'[d] = outbox[d]
        /\ was' = {ToStored("backlog")} /\ row = "none"
    BY <1>3 DEF CreateTask, TypeOK
  <2>2. at'[c] = "publish" /\ outbox'[c] = <<"backlog">> /\ told' = told
    BY <1>3 DEF CreateTask, TypeOK
  <2>3. TellsItsCopy' /\ NothingLeft' /\ NothingBefore'
    BY <1>3, <2>1, <2>2 DEF CreateTask, TypeOK, TellsItsCopy, NothingLeft,
       NothingBefore
  <2>4. TellsTheRow'
    BY <2>1, <2>2 DEF TellsTheRow, NothingBefore
  <2>5. QED BY <2>3, <2>4
<1>4. ASSUME NEW c \in Client, CreateReturns(c) PROVE Truth'
  BY <1>4 DEF CreateReturns, Dropped, TypeOK, TellsItsCopy, TellsTheRow,
     NothingLeft, NothingBefore
<1>5. ASSUME NEW c \in Client, PlanTasks(c) PROVE Truth'
  <2>1. \A i \in 1 .. Len(outbox[c]) : FALSE
    BY <1>5 DEF PlanTasks, NothingLeft
  <2>2. QED
    BY <1>5, <2>1 DEF PlanTasks, TypeOK, TellsItsCopy, TellsTheRow,
     NothingLeft, NothingBefore
<1>6. ASSUME NEW c \in Client, DeleteTask(c) PROVE Truth'
  BY <1>6 DEF DeleteTask, Begins, TypeOK, TellsItsCopy, TellsTheRow,
     NothingLeft, NothingBefore
<1>7. ASSUME NEW c \in Client, DeleteRow(c) PROVE Truth'
  BY <1>7 DEF DeleteRow, TypeOK, TellsItsCopy, TellsTheRow,
     NothingLeft, NothingBefore
<1>8. ASSUME NEW c \in Client, Save(c) PROVE Truth'
  <2>1. copy[c] \in Status
    BY <1>8 DEF Save, TypeOK, HoldsCopy
  <2>2. TellsItsCopy' /\ NothingLeft' /\ NothingBefore'
    <3>1. row' # "none"
      BY <1>8, <2>1, StoredIsLegal DEF Save, Written
    <3>2. QED
      BY <1>8, <3>1 DEF Save, Dropped, TypeOK, TellsItsCopy, NothingLeft,
         NothingBefore
  <2>3. CASE row = "deleted"
    BY <1>8, <2>2, <2>3 DEF Save, Written, TellsTheRow
  <2>4. CASE row # "deleted"
    <3>1. was' = was \cup {ToStored(copy[c])}
      BY <1>8, <2>4 DEF Save, Written
    <3>2. \A i \in 1 .. Len(outbox[c]) : outbox[c][i] = copy[c]
      BY <1>8 DEF Save, TellsItsCopy
    <3>3. TellsTheRow'
      BY <1>8, <2>1, <2>4, <3>1, <3>2 DEF Save, TypeOK, TellsTheRow
    <3>4. QED BY <2>2, <3>3
  <2>5. QED BY <2>3, <2>4
<1>9. ASSUME NEW c \in Client, SaveFails(c) PROVE Truth'
  BY <1>9 DEF SaveFails, Dropped, TypeOK, TellsItsCopy, TellsTheRow,
     NothingLeft, NothingBefore
<1>10. ASSUME NEW c \in Client, PublishNext(c) PROVE Truth'
  <2>1. outbox[c] \in Seq(Status \cup {"deleted"}) /\ outbox[c] # <<>>
    BY <1>10 DEF PublishNext, TypeOK, HasEvents
  <2>2. /\ Head(outbox[c]) = outbox[c][1] /\ 1 \in 1 .. Len(outbox[c])
        /\ \A i \in 1 .. Len(Tail(outbox[c])) :
             i + 1 \in 1 .. Len(outbox[c])
             /\ Tail(outbox[c])[i] = outbox[c][i + 1]
    BY <2>1, TailIsLeft
  <2>3. ~(Len(outbox[c]) > 1) => Tail(outbox[c]) = <<>>
    BY <2>1, TailOfOne
  <2>4. TellsItsCopy' /\ NothingLeft' /\ NothingBefore'
    BY <1>10, <2>3 DEF PublishNext, TypeOK, TellsItsCopy, NothingLeft,
       NothingBefore
  <2>5. TellsTheRow'
    BY <1>10, <2>2 DEF PublishNext, TypeOK, TellsTheRow
  <2>6. QED BY <2>4, <2>5
<1>11. QED
  BY <1>1, <1>2, <1>3, <1>4, <1>5, <1>6, <1>7, <1>8, <1>9, <1>10, Steps

\* For any number of clients, and in whatever order their events come out: they
\* tell of no status that the row of a task that is still there never had.
THEOREM EventsTellTheTruth == Spec => []NoInventedStatus
<1>1. Init => Truth
  BY Names DEF Init, Truth, TellsItsCopy, TellsTheRow,
     NothingLeft, NothingBefore
<1>2. Types /\ Truth /\ [Next]_vars => Truth'
  BY TruthStep
<1>3. Truth => NoInventedStatus
  BY DEF Truth, TellsTheRow, NoInventedStatus
<1>4. QED BY <1>1, <1>2, <1>3, TypesInit, TypesStep, PTL DEF Spec
=============================================================================
