--------------------------- MODULE DependencyOrder ---------------------------
(* The two searches over the dependency graph, step by step: hasCycle, a      *)
(* depth-first search with colours, which AddTask makes before it returns,    *)
(* and GetTopologicalOrder, Kahn's algorithm. Both run under dg.mu, so that   *)
(* nobody sees the graph in between: AddTask's changes to it are in `Seen`    *)
(* while the search is under way, and in the graph, or rolled back, at its    *)
(* end. The search is then a step of DependencyGraph.                         *)
EXTENDS DependencyGraph, Integers

VARIABLES
  adding,     \* {t} while AddTask(t, deps) holds dg.mu, else {}
  deps,       \* the dependencies AddTask was called with
  depsLen,    \* the length of its list of them
  color,      \* colors, "white" where the map has no entry
  stack,      \* the tasks of the calls of visit under way, the last on top
  left,       \* left[t]: what visit(t) has still to look at
  found,      \* visit has returned true
  ordering,   \* GetTopologicalOrder holds dg.mu for reading
  inDegree,   \* its inDegree
  list,       \* its queue, in any order
  result      \* its result so far

search == <<adding, deps, depsLen, color, stack, left, found>>
order == <<ordering, inDegree, list, result>>
allVars == <<vars, search, order>>

Color == {"white", "grey", "black"}

NoColor == [t \in Task |-> "white"]
NoneLeft == [t \in Task |-> {}]
NoDegree == [t \in Task |-> 0]

SearchTypeOK ==
  /\ TypeOK
  /\ adding \in SUBSET Task /\ \A t, u \in adding : t = u
  /\ deps \in SUBSET Task
  /\ depsLen \in Lengths(deps)
  /\ color \in [Task -> Color]
  /\ stack \in Seq(Task)
  /\ left \in [Task -> SUBSET Task]
  /\ found \in BOOLEAN
  /\ ordering \in BOOLEAN
  /\ inDegree \in [Task -> Int]
  /\ list \in SUBSET Task
  /\ result \in Seq(Task)

SearchInit ==
  /\ Init
  /\ adding = {} /\ deps = {} /\ depsLen = 0
  /\ color = NoColor /\ stack = <<>> /\ left = NoneLeft /\ found = FALSE
  /\ ordering = FALSE
  /\ inDegree = NoDegree /\ list = {} /\ result = <<>>

-------------------------------------------------------------------------------
(* AddTask and hasCycle *)

\* dg.edges and dg.nodes as AddTask has changed them.
Seen == [t \in Task |-> IF t \in adding THEN deps ELSE edges[t]]

SeenNodes == nodes \cup adding \cup deps

\* AddTask up to the search; its list of the dependencies D has length n.
BeginAdd(t, D, n) ==
  /\ adding = {} /\ ~ordering
  /\ MaySubmit(t)
  /\ t \notin D
  /\ adding' = {t} /\ deps' = D /\ depsLen' = n
  /\ UNCHANGED <<vars, color, stack, left, found, order>>

Top == stack[Len(stack)]

\* A call of visit begins.
Visit(t, remaining) ==
  /\ color' = [color EXCEPT ![t] = "grey"]
  /\ stack' = Append(stack, t)
  /\ left' = [remaining EXCEPT ![t] = Seen[t]]

\* The loop over the nodes, in whatever order the map is walked.
VisitNode(t) ==
  /\ adding # {} /\ ~found
  /\ stack = <<>>
  /\ t \in SeenNodes /\ color[t] = "white"
  /\ Visit(t, left)
  /\ UNCHANGED <<vars, adding, deps, depsLen, found, order>>

\* Mutant: only the caller's own task is seen to be visited.
BackEdgeToCaller(d) == Len(stack) > 1 /\ d = stack[Len(stack) - 1]

\* Mutant: a task that was visited before is taken for one being visited.
BackEdgeToVisited(d) == color[d] # "white"

BackEdge(d) == color[d] = "grey"

\* The loop of visit over the dependencies, in the order of any list of them. A
\* dependency the list repeats is black when visit comes to it again.
LookAt(d) ==
  /\ stack # <<>> /\ ~found
  /\ d \in left[Top]
  /\ LET remaining == [left EXCEPT ![Top] = @ \ {d}]
     IN  \/ /\ BackEdge(d)
            /\ found' = TRUE
            /\ UNCHANGED <<color, stack, left>>
         \/ /\ ~BackEdge(d) /\ color[d] = "white"
            /\ Visit(d, remaining)
            /\ UNCHANGED found
         \/ /\ ~BackEdge(d) /\ color[d] # "white"
            /\ left' = remaining
            /\ UNCHANGED <<color, stack, found>>
  /\ UNCHANGED <<vars, adding, deps, depsLen, order>>

\* visit returns false.
Leave ==
  /\ stack # <<>> /\ ~found
  /\ left[Top] = {}
  /\ color' = [color EXCEPT ![Top] = "black"]
  /\ stack' = SubSeq(stack, 1, Len(stack) - 1)
  /\ UNCHANGED <<vars, adding, deps, depsLen, left, found, order>>

SearchOver ==
  \/ found
  \/ stack = <<>> /\ \A t \in SeenNodes : color[t] # "white"

\* hasCycle returns, and AddTask keeps its changes or rolls them back.
EndAdd(t) ==
  /\ t \in adding /\ SearchOver
  /\ IF found THEN RollBack(t, deps) ELSE Accept(t, deps, depsLen)
  /\ adding' = {} /\ deps' = {} /\ depsLen' = 0
  /\ color' = NoColor /\ stack' = <<>> /\ left' = NoneLeft /\ found' = FALSE
  /\ UNCHANGED order

-------------------------------------------------------------------------------
(* GetTopologicalOrder *)

\* A repeated dependency counts as often as the list names it.
InDegrees == size

Roots == {t \in nodes : size[t] = 0}

BeginOrder ==
  /\ adding = {} /\ ~ordering
  /\ ordering' = TRUE
  /\ inDegree' = InDegrees /\ list' = Roots /\ result' = <<>>
  /\ UNCHANGED <<vars, search>>

\* The next task of the queue; its dependents, each listed once, wait for one
\* task less.
TakeNext(c) ==
  /\ ordering /\ c \in list
  /\ result' = Append(result, c)
  /\ inDegree' = [t \in Task |-> IF Listed(dependents[c], t)
                                 THEN inDegree[t] - 1 ELSE inDegree[t]]
  /\ list' = (list \ {c}) \cup
               {t \in Task : Listed(dependents[c], t) /\ inDegree'[t] = 0}
  /\ UNCHANGED <<vars, search, ordering>>

\* The queue is empty, or the context is done.
EndOrder ==
  /\ ordering
  /\ ordering' = FALSE
  /\ inDegree' = NoDegree /\ list' = {} /\ result' = <<>>
  /\ UNCHANGED <<vars, search>>

-------------------------------------------------------------------------------

\* The other users of dg.mu. AreSatisfied takes it for reading.
SearchNext ==
  \/ \E t \in Task :
       \/ \E D \in SUBSET Task : \E n \in Lengths(D) : BeginAdd(t, D, n)
       \/ VisitNode(t) \/ LookAt(t) \/ EndAdd(t)
       \/ TakeNext(t)
  \/ Leave
  \/ BeginOrder \/ EndOrder
  \/ /\ adding = {}
     /\ \E t \in Task :
          \/ StartTask(t)
          \/ /\ ~ordering
             /\ \/ \E D \in SUBSET Task : SubmitSelfDependent(t, D)
                \/ MarkComplete(t) \/ MarkFailed(t)
     /\ UNCHANGED <<search, order>>

SearchSpec == SearchInit /\ [][SearchNext]_allVars

-------------------------------------------------------------------------------
(* Properties *)

\* When the search is over it has found a cycle exactly if there is one, in
\* every graph AddTask can present it with, whatever was submitted before.
SearchFindsCycles ==
  adding # {} /\ SearchOver => (found <=> HasCycle(Seen))

\* Every call of AddTask with its search does what DependencyGraph says of it.
ImplementsGraph == Spec

\* The list of t's dependencies names one of them more than once.
Repeats(t) == size[t] # Cardinality(edges[t])

\* No ID was submitted twice, and no submission was refused.
Once == refused = {} /\ \A t \in Task : submitted[t] <= 1

\* GetTopologicalOrder returns no task twice and only tasks of the graph, and it
\* puts a task behind all it depends on unless the ID of that very task was
\* submitted again: resubmissions and refusals of others, which leave stale and
\* missing dependents behind, may keep a task out of the order but never let it
\* in too early. While no ID is submitted twice and none refused, the error for a
\* cyclic graph is returned exactly when a list repeats a dependency (the
\* in-degree counts it twice, the dependency lists its dependent once), although
\* the graph has no cycle.
OrderIsTopological ==
  ordering =>
    /\ \A i, j \in DOMAIN result : result[i] = result[j] => i = j
    /\ \A i \in DOMAIN result :
         /\ result[i] \in nodes
         /\ submitted[result[i]] <= 1 =>
              \A d \in edges[result[i]] : \E j \in 1 .. i - 1 : result[j] = d
    /\ list = {} /\ Once =>
         (Len(result) = Cardinality(nodes) <=> \A t \in nodes : ~Repeats(t))
=============================================================================
