--------------------------- MODULE DependencyGraph ---------------------------
(* DependencyGraph of pkg/orchestrator/scheduler with the three places that   *)
(* use it: SubmitTask (AddTask, then Push), getReadyTasks (AreSatisfied) and  *)
(* the end of an attempt (MarkComplete, MarkFailed). TaskScheduler takes the  *)
(* graph for granted; here it changes: an ID may be submitted again with      *)
(* other dependencies, and AddTask may refuse and roll back.                  *)
EXTENDS Naturals, FiniteSets, Sequences

CONSTANTS
  Task,         \* task IDs
  MaxSubmits,   \* bound: how often one ID is submitted
  MaxRepeated,  \* bound: how many IDs are submitted more than once
  MaxExtra      \* bound: how many repetitions a dependency list holds

ASSUME TasksAssumption == IsFiniteSet(Task)

ASSUME SubmitsAssumption ==
  MaxSubmits \in Nat /\ MaxRepeated \in Nat /\ MaxExtra \in Nat

VARIABLES
  nodes,       \* keys of dg.nodes
  edges,       \* what dg.edges and DependencyNode.Dependencies list, {} when
               \* absent
  size,        \* the length of that list: AddTask takes it as it comes, also
               \* when it names a dependency more than once
  dependents,  \* DependencyNode.Dependents, <<>> when absent
  completed,   \* tasks with dg.completed[t]
  queue,       \* taskQueue: ID -> Dependencies of the SchedulableTask it holds
  running,     \* tasks being executed
  submitted,   \* how often each ID was submitted
  refused      \* IDs of which AddTask refused a submission

graph == <<nodes, edges, size, dependents, completed>>
vars == <<nodes, edges, size, dependents, completed, queue, running, submitted,
          refused>>

\* A list of tasks without repetition.
TaskList == {s \in Seq(Task) : \A i, j \in DOMAIN s : s[i] = s[j] => i = j}

\* Types, and: no node lists a dependent twice, however often an ID is submitted
\* again (AddTask looks before it appends).
TypeOK ==
  /\ nodes \in SUBSET Task
  /\ edges \in [Task -> SUBSET Task]
  /\ size \in [Task -> Nat]
  /\ dependents \in [Task -> TaskList]
  /\ completed \in SUBSET Task
  /\ DOMAIN queue \in SUBSET Task
  /\ \A t \in DOMAIN queue : queue[t] \in SUBSET Task
  /\ running \in SUBSET Task
  /\ submitted \in [Task -> 0 .. MaxSubmits]
  /\ refused \in SUBSET Task

Init ==
  /\ nodes = {}
  /\ edges = [t \in Task |-> {}]
  /\ size = [t \in Task |-> 0]
  /\ dependents = [t \in Task |-> <<>>]
  /\ completed = {}
  /\ queue = [t \in {} |-> {}]
  /\ running = {}
  /\ submitted = [t \in Task |-> 0]
  /\ refused = {}

-------------------------------------------------------------------------------

\* Every nonempty set of tasks has one that depends on none of the set.
Acyclic(E) ==
  \A S \in SUBSET Task : S # {} => \E t \in S : E[t] \cap S = {}

\* What hasCycle returns: DependencyOrder has its search.
HasCycle(E) == ~Acyclic(E)

Listed(list, t) == \E i \in DOMAIN list : list[i] = t

\* Mutant: a resubmitted task is listed again.
AddDependentAgain(list, t) == Append(list, t)

AddDependent(list, t) == IF Listed(list, t) THEN list ELSE Append(list, t)

\* Mutant: only a node the submission makes gets its dependent.
WithDependentIfNew(t, D) ==
  [d \in Task |-> IF d \in D \ nodes THEN AddDependent(dependents[d], t)
                                     ELSE dependents[d]]

\* Each dependency's node, made if need be, lists t among its dependents.
WithDependent(t, D) ==
  [d \in Task |-> IF d \in D THEN AddDependent(dependents[d], t)
                             ELSE dependents[d]]

\* Push ignores an ID that is queued already, whatever its dependencies.
Push(t, D) ==
  queue' = [u \in DOMAIN queue \cup {t} |->
              IF u \in DOMAIN queue THEN queue[u] ELSE D]

\* A client may submit t, as far as the bounds go.
MaySubmit(t) ==
  /\ submitted[t] < MaxSubmits
  /\ submitted[t] > 0 =>
       Cardinality({u \in Task : submitted[u] > 1} \cup {t}) <= MaxRepeated

\* The lengths of a list of the dependencies D.
Lengths(D) ==
  IF D = {} THEN {0} ELSE Cardinality(D) .. Cardinality(D) + MaxExtra

\* AddTask returns nil and the task is queued; its list of D has length n.
Accept(t, D, n) ==
  /\ nodes' = nodes \cup {t} \cup D
  /\ edges' = [edges EXCEPT ![t] = D]
  /\ size' = [size EXCEPT ![t] = n]
  /\ dependents' = WithDependent(t, D)
  /\ Push(t, D)
  /\ submitted' = [submitted EXCEPT ![t] = @ + 1]
  /\ UNCHANGED <<completed, running, refused>>

\* A cycle: the rollback deletes t's node and edges, also those an earlier
\* submission made, and leaves t among the dependents of D.
RollBack(t, D) ==
  /\ nodes' = (nodes \cup D) \ {t}
  /\ edges' = [edges EXCEPT ![t] = {}]
  /\ size' = [size EXCEPT ![t] = 0]
  /\ dependents' = [WithDependent(t, D) EXCEPT ![t] = <<>>]
  /\ submitted' = [submitted EXCEPT ![t] = @ + 1]
  /\ refused' = refused \cup {t}
  /\ UNCHANGED <<completed, queue, running>>

\* The edges that hasCycle sees.
Tentative(t, D) == [edges EXCEPT ![t] = D]

SubmitAccepted(t, D, n) ==
  /\ MaySubmit(t)
  /\ t \notin D
  /\ ~HasCycle(Tentative(t, D))
  /\ Accept(t, D, n)

SubmitRolledBack(t, D) ==
  /\ MaySubmit(t)
  /\ t \notin D
  /\ HasCycle(Tentative(t, D))
  /\ RollBack(t, D)

\* A self-dependency is refused before anything changes.
SubmitSelfDependent(t, D) ==
  /\ MaySubmit(t)
  /\ t \in D
  /\ submitted' = [submitted EXCEPT ![t] = @ + 1]
  /\ refused' = refused \cup {t}
  /\ UNCHANGED <<graph, queue, running>>

\* Mutant: a dependency that has ended, in whatever way, holds nothing up.
AreSatisfiedByAnyEnd(t) ==
  t \in nodes => \A d \in edges[t] : d \notin running \cup DOMAIN queue

\* A task the graph does not know has no dependencies.
AreSatisfied(t) == t \in nodes => edges[t] \subseteq completed

\* The scheduler takes a ready task off the queue and executes it.
StartTask(t) ==
  /\ t \in DOMAIN queue
  /\ t \notin running
  /\ AreSatisfied(t)
  /\ queue' = [u \in DOMAIN queue \ {t} |-> queue[u]]
  /\ running' = running \cup {t}
  /\ UNCHANGED <<graph, submitted, refused>>

MarkComplete(t) ==
  /\ t \in running
  /\ completed' = completed \cup {t}
  /\ running' = running \ {t}
  /\ UNCHANGED <<nodes, edges, size, dependents, queue, submitted, refused>>

MarkFailed(t) ==
  /\ t \in running
  /\ completed' = completed \ {t}
  /\ running' = running \ {t}
  /\ UNCHANGED <<nodes, edges, size, dependents, queue, submitted, refused>>

Submit(t, D) ==
  \/ \E n \in Lengths(D) : SubmitAccepted(t, D, n)
  \/ SubmitRolledBack(t, D)
  \/ SubmitSelfDependent(t, D)

Next ==
  \E t \in Task :
    \/ \E D \in SUBSET Task : Submit(t, D)
    \/ StartTask(t)
    \/ MarkComplete(t)
    \/ MarkFailed(t)

Spec == Init /\ [][Next]_vars

-------------------------------------------------------------------------------

\* Whatever is submitted, resubmitted with other dependencies or refused, in
\* any order, the graph never holds a cycle: no set of tasks waits for itself.
NoCycle == Acyclic(edges)

\* A queued task whose dependencies, as it was accepted with them, are not all
\* completed is not started, provided its ID was submitted only once. Refusals
\* of other IDs, failures and late submissions of its dependencies do not
\* loosen what it waits for.
StartsAfterAccepted ==
  [][\A t \in Task :
       t \in running' \ running /\ submitted[t] = 1 =>
         queue[t] \subseteq completed]_vars

\* dependencies.go:99 says "Rollback changes", and integration_test.go:213 that a
\* dependency completes before its dependent starts: so a task waits for the
\* dependencies it was accepted with although a later submission of its ID was
\* refused. (With MaxSubmits = 2 a queued ID that was refused was accepted once.)
RefusalChangesNothing ==
  [][\A t \in Task :
       t \in running' \ running /\ (submitted[t] = 1 \/ t \in refused) =>
         queue[t] \subseteq completed]_vars
=============================================================================
