------------------------ MODULE DependencyGraphProofs ------------------------
(* What holds of the dependency graph and of the searches over it, for every  *)
(* set of tasks and however often an ID is submitted.                         *)
EXTENDS DependencyOrder, SequenceTheorems, FiniteSetTheorems, TLAPS

-------------------------------------------------------------------------------
(* Types *)

\* A submission that reaches a dependency's node leaves a list of tasks.
LEMMA AddDependentType ==
  ASSUME NEW list0 \in TaskList, NEW t \in Task
  PROVE  AddDependent(list0, t) \in TaskList
<1>1. CASE Listed(list0, t)
  BY <1>1 DEF AddDependent
<1>2. CASE ~Listed(list0, t)
  <2>1. list0 \in Seq(Task) /\ Len(list0) \in Nat /\ DOMAIN list0 = 1 .. Len(list0)
    BY DEF TaskList
  <2>2. /\ Append(list0, t) \in Seq(Task)
        /\ DOMAIN Append(list0, t) = 1 .. Len(list0) + 1
        /\ \A i \in 1 .. Len(list0) : Append(list0, t)[i] = list0[i]
        /\ Append(list0, t)[Len(list0) + 1] = t
    BY <2>1, AppendProperties
  <2>3. \A i, j \in DOMAIN list0 : list0[i] = list0[j] => i = j
    BY DEF TaskList
  <2>4. \A i \in DOMAIN list0 : list0[i] # t
    BY <1>2 DEF Listed
  <2>5. \A i, j \in DOMAIN Append(list0, t) :
          Append(list0, t)[i] = Append(list0, t)[j] => i = j
    BY <2>1, <2>2, <2>3, <2>4
  <2>6. QED BY <1>2, <2>2, <2>5 DEF AddDependent, TaskList
<1>3. QED BY <1>1, <1>2

\* So does one that reaches several.
LEMMA WithDependentType ==
  ASSUME dependents \in [Task -> TaskList], NEW t \in Task, NEW D
  PROVE  WithDependent(t, D) \in [Task -> TaskList]
BY AddDependentType DEF WithDependent

\* The rollback leaves the empty list.
LEMMA EmptyList == <<>> \in TaskList
BY DEF TaskList

\* The length of a list and the number of tasks it names.
LEMMA LengthsType ==
  ASSUME NEW D \in SUBSET Task, NEW n \in Lengths(D)
  PROVE  /\ n \in Nat /\ Cardinality(D) \in Nat /\ Cardinality(D) <= n
         /\ n = 0 <=> D = {}
<1>1. /\ IsFiniteSet(D) /\ Cardinality(D) \in Nat
      /\ Cardinality(D) = 0 <=> D = {}
  BY TasksAssumption, FS_Subset, FS_CardinalityType, FS_EmptySet
<1>2. QED BY <1>1, SubmitsAssumption DEF Lengths

\* What AddTask keeps or rolls back is typed.
LEMMA AcceptType ==
  ASSUME TypeOK, NEW t \in Task, NEW D \in SUBSET Task, NEW n \in Lengths(D),
         MaySubmit(t), Accept(t, D, n)
  PROVE  TypeOK'
<1>1. submitted' \in [Task -> 0 .. MaxSubmits]
  BY SubmitsAssumption DEF MaySubmit, Accept, TypeOK
<1>2. dependents' \in [Task -> TaskList]
  BY WithDependentType DEF Accept, TypeOK
<1>3. /\ DOMAIN queue' \in SUBSET Task
      /\ \A u \in DOMAIN queue' : queue'[u] \in SUBSET Task
  BY DEF Accept, Push, TypeOK
<1>4. size' \in [Task -> Nat]
  BY LengthsType DEF Accept, TypeOK
<1>5. QED BY <1>1, <1>2, <1>3, <1>4 DEF Accept, TypeOK

LEMMA RollBackType ==
  ASSUME TypeOK, NEW t \in Task, NEW D \in SUBSET Task, MaySubmit(t),
         RollBack(t, D)
  PROVE  TypeOK'
<1>1. submitted' \in [Task -> 0 .. MaxSubmits]
  BY SubmitsAssumption DEF MaySubmit, RollBack, TypeOK
<1>2. dependents' \in [Task -> TaskList]
  BY WithDependentType, EmptyList DEF RollBack, TypeOK
<1>3. QED BY <1>1, <1>2 DEF RollBack, TypeOK

\* So is what the other operations leave.
LEMMA OthersType ==
  ASSUME TypeOK, NEW t \in Task,
         \/ \E D \in SUBSET Task : SubmitSelfDependent(t, D)
         \/ StartTask(t)
         \/ MarkComplete(t)
         \/ MarkFailed(t)
  PROVE  TypeOK'
<1>1. ASSUME NEW D \in SUBSET Task, SubmitSelfDependent(t, D)
      PROVE  TypeOK'
  BY <1>1, SubmitsAssumption DEF SubmitSelfDependent, MaySubmit, TypeOK, graph
<1>2. CASE StartTask(t)
  BY <1>2 DEF StartTask, TypeOK, graph
<1>3. CASE MarkComplete(t)
  BY <1>3 DEF MarkComplete, TypeOK
<1>4. CASE MarkFailed(t)
  BY <1>4 DEF MarkFailed, TypeOK
<1>5. QED BY <1>1, <1>2, <1>3, <1>4

\* Every variable keeps its type.
THEOREM GraphTypeCorrect == Spec => []TypeOK
<1>1. Init => TypeOK
  BY SubmitsAssumption, EmptyList DEF Init, TypeOK
<1>2. TypeOK /\ [Next]_vars => TypeOK'
  <2> SUFFICES ASSUME TypeOK, [Next]_vars
               PROVE  TypeOK'
    OBVIOUS
  <2>1. CASE UNCHANGED vars
    BY <2>1 DEF TypeOK, vars
  <2>2. ASSUME NEW t \in Task, NEW D \in SUBSET Task, NEW n \in Lengths(D),
               SubmitAccepted(t, D, n)
        PROVE  TypeOK'
    BY <2>2, AcceptType DEF SubmitAccepted
  <2>3. ASSUME NEW t \in Task, NEW D \in SUBSET Task, SubmitRolledBack(t, D)
        PROVE  TypeOK'
    BY <2>3, RollBackType DEF SubmitRolledBack
  <2>4. QED
    BY <2>1, <2>2, <2>3, OthersType DEF Next, Submit
<1>3. QED
  BY <1>1, <1>2, PTL DEF Spec

-------------------------------------------------------------------------------
(* No cycle *)

\* A graph with fewer edges has no cycle where the other has none.
LEMMA FewerEdges ==
  ASSUME NEW E, NEW F, Acyclic(E), \A t \in Task : F[t] \subseteq E[t]
  PROVE  Acyclic(F)
<1> SUFFICES ASSUME NEW S \in SUBSET Task, S # {}
             PROVE  \E t \in S : F[t] \cap S = {}
  BY DEF Acyclic
<1>1. PICK t \in S : E[t] \cap S = {}
  BY DEF Acyclic
<1>2. F[t] \cap S = {}
  BY <1>1
<1>3. QED BY <1>2

\* Whatever is submitted or refused, in whatever order, no set of tasks waits
\* for itself: hasCycle sees the edges AddTask leaves, and the rollback only
\* takes edges away.
THEOREM NeverCyclic == Spec => []NoCycle
<1>1. Init => NoCycle
  BY DEF Init, NoCycle, Acyclic
<1>2. TypeOK /\ NoCycle /\ [Next]_vars => NoCycle'
  <2> SUFFICES ASSUME TypeOK, NoCycle, [Next]_vars
               PROVE  NoCycle'
    OBVIOUS
  <2>1. CASE edges' = edges
    BY <2>1 DEF NoCycle, Acyclic
  <2>2. ASSUME NEW t \in Task, NEW D \in SUBSET Task, NEW n \in Lengths(D),
               SubmitAccepted(t, D, n)
        PROVE  NoCycle'
    BY <2>2 DEF SubmitAccepted, Accept, Tentative, HasCycle, NoCycle, Acyclic
  <2>3. ASSUME NEW t \in Task, NEW D \in SUBSET Task, SubmitRolledBack(t, D)
        PROVE  NoCycle'
    <3>1. \A u \in Task : edges'[u] \subseteq edges[u]
      BY <2>3 DEF SubmitRolledBack, RollBack, TypeOK
    <3>2. Acyclic(edges')
      BY <3>1, FewerEdges DEF NoCycle
    <3>3. QED BY <3>2 DEF NoCycle, Acyclic
  <2>4. QED
    BY <2>1, <2>2, <2>3
       DEF Next, Submit, SubmitSelfDependent, StartTask, MarkComplete,
           MarkFailed, graph, vars
<1>3. QED
  BY <1>1, <1>2, GraphTypeCorrect, PTL DEF Spec

-------------------------------------------------------------------------------
(* A task submitted once waits for the dependencies it was submitted with *)

\* The graph still holds what the queued task was accepted with: an ID that was
\* submitted once was neither given other edges nor rolled back.
Faithful ==
  \A t \in Task :
    /\ submitted[t] = 0 => t \notin DOMAIN queue
    /\ submitted[t] = 1 /\ t \in DOMAIN queue =>
         t \in nodes /\ edges[t] = queue[t]

\* A task whose ID was submitted once is started only when everything it was
\* accepted with has completed.
THEOREM WaitsForAccepted == Spec => StartsAfterAccepted
<1>1. Init => Faithful
  BY DEF Init, Faithful
<1>2. TypeOK /\ Faithful /\ [Next]_vars => Faithful'
  <2> SUFFICES ASSUME TypeOK, Faithful, [Next]_vars
               PROVE  Faithful'
    OBVIOUS
  <2>1. CASE UNCHANGED vars
    BY <2>1 DEF Faithful, vars
  <2>2. ASSUME NEW t \in Task, NEW D \in SUBSET Task, NEW n \in Lengths(D),
               SubmitAccepted(t, D, n)
        PROVE  Faithful'
    <3> SUFFICES ASSUME NEW u \in Task
                 PROVE  /\ submitted'[u] = 0 => u \notin DOMAIN queue'
                        /\ submitted'[u] = 1 /\ u \in DOMAIN queue' =>
                             u \in nodes' /\ edges'[u] = queue'[u]
      BY DEF Faithful
    <3>1. submitted[u] \in Nat
      BY SubmitsAssumption DEF TypeOK
    <3>2. CASE u # t
      BY <2>2, <3>2 DEF SubmitAccepted, Accept, Push, TypeOK, Faithful
    <3>3. CASE u = t
      <4>1. submitted'[u] = submitted[u] + 1
        BY <2>2, <3>3 DEF SubmitAccepted, Accept, TypeOK
      <4>2. submitted[u] = 0 => queue'[u] = D
        BY <2>2, <3>3 DEF SubmitAccepted, Accept, Push, Faithful
      <4>3. u \in nodes' /\ edges'[u] = D
        BY <2>2, <3>3 DEF SubmitAccepted, Accept, TypeOK
      <4>4. QED BY <3>1, <4>1, <4>2, <4>3
    <3>4. QED BY <3>2, <3>3
  <2>3. ASSUME NEW t \in Task, NEW D \in SUBSET Task,
               SubmitRolledBack(t, D) \/ SubmitSelfDependent(t, D)
        PROVE  Faithful'
    <3>1. /\ submitted[t] \in Nat /\ submitted'[t] = submitted[t] + 1
          /\ \A u \in Task \ {t} : submitted'[u] = submitted[u]
          /\ queue' = queue
      BY <2>3, SubmitsAssumption
         DEF SubmitRolledBack, RollBack, SubmitSelfDependent, TypeOK
    <3>2. \A u \in Task \ {t} :
            /\ u \in nodes => u \in nodes'
            /\ edges'[u] = edges[u]
      BY <2>3
         DEF SubmitRolledBack, RollBack, SubmitSelfDependent, TypeOK, graph
    <3>3. QED BY <3>1, <3>2 DEF Faithful
  <2>4. ASSUME NEW t \in Task, StartTask(t)
        PROVE  Faithful'
    BY <2>4 DEF StartTask, Faithful, graph
  <2>5. ASSUME NEW t \in Task, MarkComplete(t) \/ MarkFailed(t)
        PROVE  Faithful'
    BY <2>5 DEF MarkComplete, MarkFailed, Faithful
  <2>6. QED
    BY <2>1, <2>2, <2>3, <2>4, <2>5 DEF Next, Submit
<1>3. TypeOK /\ Faithful /\ [Next]_vars =>
        [\A t \in Task : t \in running' \ running /\ submitted[t] = 1 =>
           queue[t] \subseteq completed]_vars
  <2> SUFFICES ASSUME TypeOK, Faithful, Next,
                      NEW t \in Task, t \in running' \ running,
                      submitted[t] = 1
               PROVE  queue[t] \subseteq completed
    OBVIOUS
  <2>1. PICK u \in Task : StartTask(u)
    BY DEF Next, Submit, SubmitAccepted, Accept, SubmitRolledBack, RollBack,
           SubmitSelfDependent, MarkComplete, MarkFailed, graph
  <2>2. u = t /\ AreSatisfied(t) /\ t \in DOMAIN queue
    BY <2>1 DEF StartTask
  <2>3. QED BY <2>2 DEF AreSatisfied, Faithful
<1>4. QED
  BY <1>1, <1>2, <1>3, GraphTypeCorrect, PTL DEF Spec, StartsAfterAccepted

-------------------------------------------------------------------------------
(* The depth-first search *)

\* A step of the search over the graph that AddTask has changed.
SearchStep == (\E t \in Task : VisitNode(t) \/ LookAt(t)) \/ Leave

\* The types of what the searches work on.
LEMMA SeenType ==
  ASSUME SearchTypeOK
  PROVE  Seen \in [Task -> SUBSET Task] /\ SeenNodes \in SUBSET Task
BY DEF SearchTypeOK, TypeOK, Seen, SeenNodes

\* The top of the stack is a task.
LEMMA TopType ==
  ASSUME SearchTypeOK, stack # <<>>
  PROVE  /\ Len(stack) \in Nat \ {0} /\ DOMAIN stack = 1 .. Len(stack)
         /\ Top \in Task
BY DEF SearchTypeOK, Top

\* A call of visit that begins leaves types as they are.
LEMMA VisitType ==
  ASSUME SearchTypeOK, NEW t \in Task, NEW rest \in [Task -> SUBSET Task],
         Visit(t, rest)
  PROVE  /\ color' \in [Task -> Color] /\ stack' \in Seq(Task)
         /\ left' \in [Task -> SUBSET Task]
<1>1. stack' \in Seq(Task)
  BY AppendProperties DEF SearchTypeOK, Visit
<1>2. QED BY <1>1, SeenType DEF SearchTypeOK, Visit, Color

LEMMA SearchStepType ==
  ASSUME SearchTypeOK, SearchStep
  PROVE  SearchTypeOK'
<1>1. UNCHANGED <<vars, adding, deps, depsLen, order>>
  BY DEF SearchStep, VisitNode, LookAt, Leave
<1>2. /\ color' \in [Task -> Color] /\ stack' \in Seq(Task)
      /\ left' \in [Task -> SUBSET Task] /\ found' \in BOOLEAN
  <2>1. ASSUME NEW t \in Task, VisitNode(t)
        PROVE  /\ color' \in [Task -> Color] /\ stack' \in Seq(Task)
               /\ left' \in [Task -> SUBSET Task] /\ found' \in BOOLEAN
    BY <2>1, VisitType DEF VisitNode, SearchTypeOK
  <2>2. ASSUME NEW t \in Task, LookAt(t)
        PROVE  /\ color' \in [Task -> Color] /\ stack' \in Seq(Task)
               /\ left' \in [Task -> SUBSET Task] /\ found' \in BOOLEAN
    <3> DEFINE rest == [left EXCEPT ![Top] = @ \ {t}]
    <3>1. rest \in [Task -> SUBSET Task]
      BY DEF SearchTypeOK
    <3>2. CASE UNCHANGED <<color, stack, left>> /\ found' = TRUE
      BY <3>2 DEF SearchTypeOK
    <3>3. CASE Visit(t, rest) /\ UNCHANGED found
      <4> HIDE DEF rest
      <4>1. QED BY <3>1, <3>3, VisitType DEF SearchTypeOK
    <3>4. CASE left' = rest /\ UNCHANGED <<color, stack, found>>
      BY <3>1, <3>4 DEF SearchTypeOK
    <3>5. QED BY <2>2, <3>2, <3>3, <3>4 DEF LookAt
  <2>3. CASE Leave
    <3>1. SubSeq(stack, 1, Len(stack) - 1) \in Seq(Task)
      BY <2>3, TopType, SubSeqProperties DEF Leave, SearchTypeOK
    <3>2. QED BY <2>3, <3>1 DEF Leave, SearchTypeOK, Color
  <2>4. QED BY <2>1, <2>2, <2>3 DEF SearchStep
<1>3. TypeOK'
  BY <1>1 DEF vars, SearchTypeOK, TypeOK
<1>4. QED BY <1>1, <1>2, <1>3 DEF SearchTypeOK, order

\* What the searches start with.
LEMMA ClearedType ==
  /\ NoColor \in [Task -> Color] /\ NoneLeft \in [Task -> SUBSET Task]
  /\ NoDegree \in [Task -> Int] /\ <<>> \in Seq(Task)
  /\ TRUE \in BOOLEAN /\ FALSE \in BOOLEAN
  /\ {} \in SUBSET Task /\ 0 \in Lengths({})
BY DEF NoColor, NoneLeft, NoDegree, Color, Lengths

\* AddTask has looked at its arguments before it searches.
Admitted == \A t \in adding : t \notin deps /\ MaySubmit(t)

\* The searches keep their types, whatever runs between them.
THEOREM SearchTypeCorrect == SearchSpec => [](SearchTypeOK /\ Admitted)
<1>1. SearchInit => SearchTypeOK /\ Admitted
  <2> SUFFICES ASSUME SearchInit PROVE SearchTypeOK /\ Admitted
    OBVIOUS
  <2>1. TypeOK
    BY SubmitsAssumption, EmptyList DEF SearchInit, Init, TypeOK
  <2>2. QED
    BY <2>1, ClearedType DEF SearchInit, SearchTypeOK, Admitted
<1>2. SearchTypeOK /\ Admitted /\ [SearchNext]_allVars => SearchTypeOK'
  <2> SUFFICES ASSUME SearchTypeOK, Admitted, [SearchNext]_allVars
               PROVE  SearchTypeOK'
    OBVIOUS
  <2>1. CASE UNCHANGED allVars
    BY <2>1 DEF allVars, vars, search, order, SearchTypeOK, TypeOK
  <2>2. CASE SearchStep
    BY <2>2, SearchStepType
  <2>3. ASSUME NEW t \in Task, NEW D \in SUBSET Task, NEW n \in Lengths(D),
               BeginAdd(t, D, n)
        PROVE  SearchTypeOK'
    BY <2>3 DEF BeginAdd, SearchTypeOK, TypeOK, vars, order
  <2>4. ASSUME NEW t \in Task, EndAdd(t)
        PROVE  SearchTypeOK'
    <3>1. TypeOK'
      BY <2>4, AcceptType, RollBackType DEF EndAdd, SearchTypeOK, Admitted
    <3>2. QED
      BY <2>4, <3>1, ClearedType DEF EndAdd, SearchTypeOK, order
  <2>5. CASE BeginOrder
    <3>1. InDegrees \in [Task -> Int]
      BY DEF InDegrees, SearchTypeOK, TypeOK
    <3>2. Roots \in SUBSET Task
      BY DEF Roots, SearchTypeOK, TypeOK
    <3> HIDE DEF InDegrees, Roots
    <3>3. QED
      BY <2>5, <3>1, <3>2 DEF BeginOrder, SearchTypeOK, TypeOK, vars, search
  <2>6. ASSUME NEW t \in Task, TakeNext(t)
        PROVE  SearchTypeOK'
    <3>1. result' \in Seq(Task)
      BY <2>6, AppendProperties DEF TakeNext, SearchTypeOK
    <3>2. inDegree' \in [Task -> Int]
      BY <2>6 DEF TakeNext, SearchTypeOK
    <3>3. list' \in SUBSET Task
      BY <2>6 DEF TakeNext, SearchTypeOK
    <3>4. QED
      BY <2>6, <3>1, <3>2, <3>3
         DEF TakeNext, SearchTypeOK, TypeOK, vars, search
  <2>7. CASE EndOrder
    BY <2>7, ClearedType DEF EndOrder, SearchTypeOK, TypeOK, vars, search
  <2>8. ASSUME UNCHANGED <<search, order>>, NEW t \in Task,
               \/ \E D \in SUBSET Task : SubmitSelfDependent(t, D)
               \/ StartTask(t)
               \/ MarkComplete(t)
               \/ MarkFailed(t)
        PROVE  SearchTypeOK'
    <3>1. TypeOK'
      BY <2>8, OthersType DEF SearchTypeOK
    <3>2. QED BY <2>8, <3>1 DEF SearchTypeOK, search, order
  <2>9. QED
    BY <2>1, <2>2, <2>3, <2>4, <2>5, <2>6, <2>7, <2>8
       DEF SearchNext, SearchStep
<1>3. SearchTypeOK /\ Admitted /\ [SearchNext]_allVars => Admitted'
  <2> SUFFICES ASSUME SearchTypeOK, Admitted, [SearchNext]_allVars
               PROVE  Admitted'
    OBVIOUS
  <2>1. CASE UNCHANGED <<submitted, adding, deps>>
    BY <2>1 DEF Admitted, MaySubmit
  <2>2. CASE \E t \in Task, D \in SUBSET Task :
               \E n \in Lengths(D) : BeginAdd(t, D, n)
    BY <2>2 DEF BeginAdd, Admitted, MaySubmit, vars
  <2>3. CASE adding' = {}
    BY <2>3 DEF Admitted
  <2>4. QED
    BY <2>1, <2>2, <2>3
       DEF SearchNext, VisitNode, LookAt, Leave, EndAdd, TakeNext, BeginOrder,
           EndOrder, allVars, vars, search
<1>4. QED BY <1>1, <1>2, <1>3, PTL DEF SearchSpec

\* Nothing is known before the search, and of what it works on:
Idle == color = NoColor /\ stack = <<>> /\ left = NoneLeft /\ found = FALSE

\* the stack is a path of the graph along the tasks that are grey;
StackIsPath ==
  /\ \A t \in Task : color[t] = "grey" <=> \E i \in 1 .. Len(stack) : stack[i] = t
  /\ \A i, j \in 1 .. Len(stack) : stack[i] = stack[j] => i = j
  /\ \A i \in 1 .. Len(stack) - 1 : stack[i + 1] \in Seen[stack[i]]

\* what visit has looked at is black, or it is what visit was called for;
LookedAt ==
  /\ \A t \in Task : left[t] \subseteq Seen[t]
  /\ \A i \in 1 .. Len(stack) : \A d \in Seen[stack[i]] \ left[stack[i]] :
       color[d] = "black" \/ (i < Len(stack) /\ d = stack[i + 1])

Black == {t \in Task : color[t] = "black"}

\* from a black task only black ones are reached, and there is no cycle there;
BlackIsDone ==
  /\ \A t \in Black : Seen[t] \subseteq Black
  /\ \A S \in SUBSET Black : S # {} => \E t \in S : Seen[t] \cap S = {}

\* a cycle that was found is one.
Searching == /\ StackIsPath /\ LookedAt /\ BlackIsDone
             /\ found => HasCycle(Seen)

SearchInv == IF adding = {} THEN Idle ELSE Searching

\* The empty search.
LEMMA IdleIsSearching ==
  ASSUME SearchTypeOK, Idle
  PROVE  Searching
<1>1. Len(stack) = 0 /\ \A t \in Task : color[t] = "white" /\ left[t] = {}
  BY DEF Idle, NoColor, NoneLeft
<1>2. Black = {} /\ found = FALSE
  BY <1>1 DEF Black, Idle
<1>3. QED
  BY <1>1, <1>2 DEF Searching, StackIsPath, LookedAt, BlackIsDone

\* The grey tasks from the one the stack's top leads back to make a cycle.
LEMMA BackEdgeIsCycle ==
  ASSUME SearchTypeOK, StackIsPath, stack # <<>>, NEW d \in Seen[Top],
         d \in Task, color[d] = "grey"
  PROVE  HasCycle(Seen)
<1>1. PICK k \in 1 .. Len(stack) : stack[k] = d
  BY DEF StackIsPath
<1> DEFINE S == {stack[i] : i \in k .. Len(stack)}
<1>2. Len(stack) \in Nat \ {0} /\ \A i \in 1 .. Len(stack) : stack[i] \in Task
  BY TopType DEF SearchTypeOK
<1>3. S \in SUBSET Task /\ d \in S
  BY <1>1, <1>2
<1>4. ASSUME NEW i \in k .. Len(stack)
      PROVE  Seen[stack[i]] \cap S # {}
  <2>1. CASE i = Len(stack)
    BY <1>3, <2>1 DEF Top
  <2>2. CASE i # Len(stack)
    <3>1. i \in 1 .. Len(stack) - 1 /\ i + 1 \in k .. Len(stack)
      BY <1>2, <2>2
    <3>2. stack[i + 1] \in Seen[stack[i]] /\ stack[i + 1] \in S
      BY <3>1 DEF StackIsPath
    <3>3. QED BY <3>2
  <2>3. QED BY <2>1, <2>2
<1>5. \A t \in S : Seen[t] \cap S # {}
  BY <1>4
<1>6. QED BY <1>3, <1>5 DEF HasCycle, Acyclic

\* A search that is over and has found nothing has seen all there is.
LEMMA AllBlackIsAcyclic ==
  ASSUME SearchTypeOK, Searching, stack = <<>>,
         \A t \in SeenNodes : color[t] # "white",
         \A t \in Task \ nodes : edges[t] = {}
  PROVE  ~HasCycle(Seen)
<1>1. \A t \in Task : color[t] # "grey"
  BY DEF Searching, StackIsPath
<1>2. \A t \in SeenNodes : t \in Black
  BY <1>1, SeenType DEF Black, SearchTypeOK, Color
<1>3. \A t \in Task \ SeenNodes : Seen[t] = {}
  BY DEF SeenNodes, Seen
<1>4. ASSUME NEW S \in SUBSET Task, S # {}
      PROVE  \E t \in S : Seen[t] \cap S = {}
  <2>1. CASE S \subseteq Black
    BY <1>4, <2>1 DEF Searching, BlackIsDone
  <2>2. CASE ~(S \subseteq Black)
    <3>1. PICK t \in S : t \notin Black
      BY <2>2
    <3>2. Seen[t] = {}
      BY <1>2, <1>3, <3>1
    <3>3. QED BY <3>2
  <2>3. QED BY <2>1, <2>2
<1>5. QED BY <1>4 DEF HasCycle, Acyclic

\* A call of visit for a task that is white and, unless it is the first, one
\* the top of the stack depends on.
LEMMA VisitSearches ==
  ASSUME SearchTypeOK, StackIsPath, BlackIsDone, Seen' = Seen,
         NEW t \in Task, color[t] = "white",
         NEW rest \in [Task -> SUBSET Task], Visit(t, rest),
         \A u \in Task : rest[u] \subseteq Seen[u],
         \A i \in 1 .. Len(stack) : \A d \in Seen[stack[i]] \ rest[stack[i]] :
           color[d] = "black" \/ d = Append(stack, t)[i + 1],
         stack # <<>> => t \in Seen[Top]
  PROVE  StackIsPath' /\ LookedAt' /\ BlackIsDone'
<1>1. /\ Len(stack) \in Nat /\ Len(stack') = Len(stack) + 1
      /\ \A i \in 1 .. Len(stack) : stack'[i] = stack[i] /\ stack[i] \in Task
      /\ stack'[Len(stack) + 1] = t
  BY AppendProperties DEF SearchTypeOK, Visit
<1>2. \A i \in 1 .. Len(stack) : stack[i] # t
  BY DEF StackIsPath
<1>3. /\ \A u \in Task : color'[u] = IF u = t THEN "grey" ELSE color[u]
      /\ \A u \in Task : left'[u] = IF u = t THEN Seen[u] ELSE rest[u]
  BY DEF Visit, SearchTypeOK
<1>4. StackIsPath'
  <2>1. ASSUME NEW u \in Task
        PROVE  color'[u] = "grey" <=> \E i \in 1 .. Len(stack') : stack'[i] = u
    <3>1. CASE u = t
      BY <1>1, <1>3, <3>1
    <3>2. CASE u # t
      <4>1. color'[u] = "grey" <=> \E i \in 1 .. Len(stack) : stack[i] = u
        BY <1>3, <3>2 DEF StackIsPath
      <4>2. QED BY <1>1, <3>2, <4>1
    <3>3. QED BY <3>1, <3>2
  <2>2. ASSUME NEW i \in 1 .. Len(stack'), NEW j \in 1 .. Len(stack'),
               stack'[i] = stack'[j]
        PROVE  i = j
    BY <1>1, <1>2, <2>2 DEF StackIsPath
  <2>3. ASSUME NEW i \in 1 .. Len(stack') - 1
        PROVE  stack'[i + 1] \in Seen[stack'[i]]
    <3>1. CASE i = Len(stack)
      <4>1. stack # <<>> /\ stack'[i] = Top /\ stack'[i + 1] = t
        BY <1>1, <3>1 DEF Top, SearchTypeOK
      <4>2. QED BY <4>1
    <3>2. CASE i # Len(stack)
      <4>1. /\ i \in 1 .. Len(stack) - 1
            /\ stack'[i] = stack[i] /\ stack'[i + 1] = stack[i + 1]
        BY <1>1, <3>2
      <4>2. QED BY <4>1 DEF StackIsPath
    <3>3. QED BY <3>1, <3>2
  <2>4. QED BY <2>1, <2>2, <2>3 DEF StackIsPath
<1>5. LookedAt'
  <2>1. \A u \in Task : left'[u] \subseteq Seen[u]
    BY <1>3
  <2>2. ASSUME NEW i \in 1 .. Len(stack'),
               NEW d \in Seen[stack'[i]] \ left'[stack'[i]]
        PROVE  color'[d] = "black" \/ (i < Len(stack') /\ d = stack'[i + 1])
    <3>1. i # Len(stack) + 1
      BY <1>1, <1>3
    <3>2. i \in 1 .. Len(stack) /\ i < Len(stack')
      BY <1>1, <3>1
    <3>3. stack'[i] = stack[i] /\ stack[i] \in Task /\ stack[i] # t
      BY <1>1, <1>2, <3>2
    <3>4. d \in Seen[stack[i]] \ rest[stack[i]] /\ d \in Task
      BY <1>3, <3>3, SeenType
    <3>5. color[d] = "black" \/ d = stack'[i + 1]
      BY <3>2, <3>4 DEF Visit
    <3>6. QED BY <1>3, <3>2, <3>4, <3>5
  <2>3. QED BY <2>1, <2>2 DEF LookedAt
<1>6. BlackIsDone'
  <2>1. Black' = Black
    BY <1>3 DEF Black
  <2>2. QED BY <2>1 DEF BlackIsDone
<1>7. QED BY <1>4, <1>5, <1>6

LEMMA VisitNodeSearches ==
  ASSUME SearchTypeOK, Searching, NEW t \in Task, VisitNode(t)
  PROVE  Searching'
<1>1. Seen' = Seen /\ stack = <<>> /\ Visit(t, left) /\ color[t] = "white"
  BY DEF VisitNode, Seen, vars
<1>2. Len(stack) = 0 /\ left \in [Task -> SUBSET Task]
  BY <1>1 DEF SearchTypeOK
<1>3. \A u \in Task : left[u] \subseteq Seen[u]
  BY DEF Searching, LookedAt
<1>4. StackIsPath' /\ LookedAt' /\ BlackIsDone'
  BY <1>1, <1>2, <1>3, VisitSearches DEF Searching
<1>5. found' = FALSE
  BY DEF VisitNode, SearchTypeOK
<1>6. QED BY <1>4, <1>5 DEF Searching

LEMMA LookAtSearches ==
  ASSUME SearchTypeOK, Searching, NEW d \in Task, LookAt(d)
  PROVE  Searching'
<1> DEFINE rest == [left EXCEPT ![Top] = @ \ {d}]
<1>1. /\ Seen' = Seen /\ stack # <<>> /\ d \in left[Top] /\ found = FALSE
      /\ StackIsPath /\ LookedAt /\ BlackIsDone
  BY DEF LookAt, Seen, vars, Searching, SearchTypeOK
<1>2. Top \in Task /\ Len(stack) \in Nat \ {0} /\ stack[Len(stack)] = Top
  BY <1>1, TopType DEF Top
<1>3. d \in Seen[Top]
  BY <1>1, <1>2 DEF LookedAt
<1>4. CASE BackEdge(d) /\ found' = TRUE /\ UNCHANGED <<color, stack, left>>
  <2>1. HasCycle(Seen)
    BY <1>1, <1>3, <1>4, BackEdgeIsCycle DEF BackEdge
  <2>2. StackIsPath' /\ LookedAt' /\ BlackIsDone'
    BY <1>1, <1>4 DEF StackIsPath, LookedAt, BlackIsDone, Black
  <2>3. QED BY <1>1, <2>1, <2>2 DEF Searching, HasCycle, Acyclic
<1>5. /\ rest \in [Task -> SUBSET Task]
      /\ \A u \in Task : rest[u] = IF u = Top THEN left[u] \ {d} ELSE left[u]
  BY <1>2 DEF SearchTypeOK
<1>6. \A u \in Task : rest[u] \subseteq Seen[u]
  BY <1>1, <1>5 DEF LookedAt
<1>7. ASSUME NEW i \in 1 .. Len(stack), NEW e \in Seen[stack[i]] \ rest[stack[i]]
      PROVE  \/ color[e] = "black"
             \/ i < Len(stack) /\ e = stack[i + 1]
             \/ i = Len(stack) /\ e = d
  <2>1. stack[i] \in Task
    BY DEF SearchTypeOK
  <2>2. CASE i = Len(stack)
    BY <1>1, <1>2, <1>5, <1>7, <2>1, <2>2 DEF LookedAt
  <2>3. CASE i # Len(stack)
    <3>1. stack[i] # Top
      BY <1>1, <1>2, <2>3 DEF StackIsPath
    <3>2. QED BY <1>1, <1>5, <1>7, <2>1, <3>1 DEF LookedAt
  <2>4. QED BY <2>2, <2>3
<1> HIDE DEF rest
<1>8. CASE color[d] = "white" /\ Visit(d, rest) /\ UNCHANGED found
  <2>1. /\ \A i \in 1 .. Len(stack) : Append(stack, d)[i] = stack[i]
        /\ Append(stack, d)[Len(stack) + 1] = d
    BY AppendProperties DEF SearchTypeOK
  <2>2. ASSUME NEW i \in 1 .. Len(stack),
               NEW e \in Seen[stack[i]] \ rest[stack[i]]
        PROVE  color[e] = "black" \/ e = Append(stack, d)[i + 1]
    <3>1. CASE i = Len(stack)
      BY <1>7, <2>1, <3>1
    <3>2. CASE i # Len(stack)
      <4>1. i + 1 \in 1 .. Len(stack)
        BY <1>2, <3>2
      <4>2. QED BY <1>7, <2>1, <3>2, <4>1
    <3>3. QED BY <3>1, <3>2
  <2>3. StackIsPath' /\ LookedAt' /\ BlackIsDone'
    BY <1>1, <1>3, <1>5, <1>6, <1>8, <2>2, VisitSearches
  <2>4. QED BY <1>1, <1>8, <2>3 DEF Searching
<1>9. CASE /\ ~BackEdge(d) /\ color[d] # "white"
           /\ left' = rest
           /\ UNCHANGED <<color, stack, found>>
  <2>1. color[d] = "black"
    BY <1>9 DEF BackEdge, SearchTypeOK, Color
  <2>2. LookedAt'
    BY <1>1, <1>6, <1>7, <1>9, <2>1 DEF LookedAt
  <2>3. StackIsPath' /\ BlackIsDone'
    BY <1>1, <1>9 DEF StackIsPath, BlackIsDone, Black
  <2>4. QED BY <1>1, <1>9, <2>2, <2>3 DEF Searching
<1>10. QED BY <1>4, <1>8, <1>9 DEF LookAt, rest

\* visit returns: the top of the stack has only black dependencies, and no
\* black task depends on it.
LEMMA LeaveSearches ==
  ASSUME SearchTypeOK, Searching, Leave
  PROVE  Searching'
<1>1. /\ Seen' = Seen /\ left' = left /\ stack # <<>> /\ left[Top] = {}
      /\ found = FALSE /\ found' = FALSE
      /\ StackIsPath /\ LookedAt /\ BlackIsDone
  BY DEF Leave, Seen, vars, Searching, SearchTypeOK
<1>2. /\ Top \in Task /\ Len(stack) \in Nat \ {0} /\ stack[Len(stack)] = Top
      /\ \A i \in 1 .. Len(stack) : stack[i] \in Task
  BY <1>1, TopType DEF Top, SearchTypeOK
<1>3. /\ Len(stack') = Len(stack) - 1
      /\ \A i \in 1 .. Len(stack) - 1 : stack'[i] = stack[i]
  <2>1. stack' = SubSeq(stack, 1, Len(stack) - 1) /\ stack \in Seq(Task)
    BY DEF Leave, SearchTypeOK
  <2> DEFINE n == Len(stack) - 1
  <2>2. 1 \in Int /\ n \in Int /\ \A i \in 1 .. n : stack[i] \in Task
    BY <1>2
  <2> HIDE DEF n
  <2>3. /\ Len(SubSeq(stack, 1, n)) = IF 1 <= n THEN n - 1 + 1 ELSE 0
        /\ \A i \in 1 .. n - 1 + 1 : SubSeq(stack, 1, n)[i] = stack[1 + i - 1]
    BY <2>2, SubSeqProperties
  <2>4. n = Len(stack) - 1
    BY DEF n
  <2>5. QED BY <1>2, <2>1, <2>3, <2>4
<1>4. \A u \in Task : color'[u] = IF u = Top THEN "black" ELSE color[u]
  BY DEF Leave, SearchTypeOK
<1>5. color[Top] = "grey" /\ \A i \in 1 .. Len(stack) - 1 : stack[i] # Top
  BY <1>1, <1>2 DEF StackIsPath
<1>6. Seen[Top] \subseteq Black
  <2>1. ASSUME NEW d \in Seen[Top] PROVE d \in Black
    <3>1. d \in Seen[stack[Len(stack)]] \ left[stack[Len(stack)]]
      BY <1>1, <1>2
    <3>2. color[d] = "black" \/ Len(stack) < Len(stack)
      BY <1>1, <1>2, <3>1 DEF LookedAt
    <3>3. d \in Task
      BY <1>2, SeenType
    <3>4. QED BY <1>2, <3>2, <3>3 DEF Black
  <2>2. QED BY <2>1
<1>7. Black' = Black \cup {Top} /\ Top \notin Black
  BY <1>2, <1>4, <1>5 DEF Black
<1>8. StackIsPath'
  <2>1. ASSUME NEW u \in Task
        PROVE  color'[u] = "grey" <=> \E i \in 1 .. Len(stack') : stack'[i] = u
    <3>1. CASE u = Top
      BY <1>2, <1>3, <1>4, <1>5, <3>1
    <3>2. CASE u # Top
      <4>1. color'[u] = "grey" <=> \E i \in 1 .. Len(stack) : stack[i] = u
        BY <1>1, <1>4, <3>2 DEF StackIsPath
      <4>2. QED BY <1>2, <1>3, <3>2, <4>1
    <3>3. QED BY <3>1, <3>2
  <2>2. \A i, j \in 1 .. Len(stack') : stack'[i] = stack'[j] => i = j
    BY <1>1, <1>2, <1>3 DEF StackIsPath
  <2>3. \A i \in 1 .. Len(stack') - 1 : stack'[i + 1] \in Seen[stack'[i]]
    BY <1>1, <1>2, <1>3 DEF StackIsPath
  <2>4. QED BY <1>1, <2>1, <2>2, <2>3 DEF StackIsPath
<1>9. LookedAt'
  <2>1. ASSUME NEW i \in 1 .. Len(stack'),
               NEW d \in Seen[stack'[i]] \ left[stack'[i]]
        PROVE  color'[d] = "black" \/ (i < Len(stack') /\ d = stack'[i + 1])
    <3>1. i \in 1 .. Len(stack) - 1 /\ stack'[i] = stack[i] /\ stack[i] \in Task
      BY <1>2, <1>3
    <3>2. d \in Task
      BY <3>1, SeenType
    <3>3. color[d] = "black" \/ d = stack[i + 1]
      BY <1>1, <1>2, <3>1 DEF LookedAt
    <3>4. CASE color[d] = "black"
      BY <1>4, <3>2, <3>4
    <3>5. CASE d = stack[i + 1] /\ i + 1 = Len(stack)
      BY <1>2, <1>4, <3>2, <3>5
    <3>6. CASE d = stack[i + 1] /\ i + 1 # Len(stack)
      BY <1>2, <1>3, <3>1, <3>6
    <3>7. QED BY <3>3, <3>4, <3>5, <3>6
  <2>2. QED BY <1>1, <2>1 DEF LookedAt
<1>10. BlackIsDone'
  <2>1. \A t \in Black \cup {Top} : Seen[t] \subseteq Black
    BY <1>1, <1>6 DEF BlackIsDone
  <2>2. ASSUME NEW S \in SUBSET (Black \cup {Top}), S # {}
        PROVE  \E t \in S : Seen[t] \cap S = {}
    <3>1. CASE S \subseteq {Top}
      <4>1. Top \in S /\ Seen[Top] \cap S = {}
        BY <1>6, <1>7, <2>2, <3>1
      <4>2. QED BY <4>1
    <3>2. CASE ~(S \subseteq {Top})
      <4>1. S \ {Top} \in SUBSET Black /\ S \ {Top} # {}
        BY <3>2
      <4>2. PICK t \in S \ {Top} : Seen[t] \cap (S \ {Top}) = {}
        BY <1>1, <4>1 DEF BlackIsDone
      <4>3. Seen[t] \cap S = {}
        BY <1>7, <2>1, <4>1, <4>2
      <4>4. QED BY <4>3
    <3>3. QED BY <3>1, <3>2
  <2>3. QED BY <1>1, <1>7, <2>1, <2>2 DEF BlackIsDone
<1>11. QED BY <1>1, <1>8, <1>9, <1>10 DEF Searching

\* A task the graph has no node for has no edges: the rollback deletes both.
\* A list is at least as long as the tasks it names are many.
NodesHaveEdges ==
  /\ \A t \in Task \ nodes : edges[t] = {}
  /\ \A t \in Task : size[t] \in Lengths(edges[t])

LEMMA NodesHold == SearchSpec => []NodesHaveEdges
<1>1. SearchInit => NodesHaveEdges
  BY DEF SearchInit, Init, NodesHaveEdges, Lengths
<1>2. SearchTypeOK /\ NodesHaveEdges /\ [SearchNext]_allVars => NodesHaveEdges'
  <2> SUFFICES ASSUME SearchTypeOK, NodesHaveEdges, [SearchNext]_allVars
               PROVE  NodesHaveEdges'
    OBVIOUS
  <2>1. CASE UNCHANGED <<nodes, edges, size>>
    BY <2>1 DEF NodesHaveEdges, Lengths
  <2>2. ASSUME NEW t \in Task, EndAdd(t) PROVE NodesHaveEdges'
    <3>1. \A u \in Task \ nodes' : edges'[u] = {}
      <4>1. CASE Accept(t, deps, depsLen)
        BY <4>1 DEF Accept, NodesHaveEdges, SearchTypeOK, TypeOK
      <4>2. CASE RollBack(t, deps)
        BY <4>2 DEF RollBack, NodesHaveEdges, SearchTypeOK, TypeOK
      <4>3. QED BY <2>2, <4>1, <4>2 DEF EndAdd
    <3>2. ASSUME NEW u \in Task PROVE size'[u] \in Lengths(edges'[u])
      <4>1. \/ edges'[u] = edges[u] /\ size'[u] = size[u]
            \/ edges'[u] = deps /\ size'[u] = depsLen
            \/ edges'[u] = {} /\ size'[u] = 0
        <5>1. CASE Accept(t, deps, depsLen)
          BY <5>1 DEF Accept, SearchTypeOK, TypeOK
        <5>2. CASE RollBack(t, deps)
          BY <5>2 DEF RollBack, SearchTypeOK, TypeOK
        <5>3. QED BY <2>2, <5>1, <5>2 DEF EndAdd
      <4>2. 0 \in Lengths({})
        BY ClearedType
      <4>3. QED BY <4>1, <4>2 DEF NodesHaveEdges, SearchTypeOK
    <3>3. QED BY <3>1, <3>2 DEF NodesHaveEdges, Lengths
  <2>3. QED
    BY <2>1, <2>2
       DEF SearchNext, BeginAdd, VisitNode, LookAt, Leave, TakeNext, BeginOrder,
           EndOrder, StartTask, SubmitSelfDependent, MarkComplete, MarkFailed,
           allVars, vars, graph
<1>3. QED BY <1>1, <1>2, SearchTypeCorrect, PTL DEF SearchSpec

\* The search is sound and misses nothing, at each of its steps.
LEMMA SearchHolds == SearchSpec => []SearchInv
<1>1. SearchInit => SearchInv
  BY DEF SearchInit, SearchInv, Idle
<1>2. SearchTypeOK /\ SearchTypeOK' /\ SearchInv /\ [SearchNext]_allVars
        => SearchInv'
  <2> SUFFICES ASSUME SearchTypeOK, SearchTypeOK', SearchInv,
                      [SearchNext]_allVars
               PROVE  SearchInv'
    OBVIOUS
  <2>1. CASE UNCHANGED <<search, edges>>
    <3>1. Seen' = Seen /\ UNCHANGED <<adding, color, stack, left, found>>
      BY <2>1 DEF search, Seen
    <3>2. Idle => Idle'
      BY <3>1 DEF Idle
    <3>3. Searching => Searching'
      BY <3>1 DEF Searching, StackIsPath, LookedAt, BlackIsDone, Black, HasCycle,
         Acyclic
    <3>4. QED BY <3>1, <3>2, <3>3 DEF SearchInv
  <2>2. ASSUME NEW t \in Task, NEW D \in SUBSET Task, NEW n \in Lengths(D),
               BeginAdd(t, D, n)
        PROVE  SearchInv'
    <3>1. Idle' /\ adding' # {}
      BY <2>2 DEF BeginAdd, SearchInv, Idle
    <3>2. Searching'
      BY <3>1, IdleIsSearching, PTL
    <3>3. QED BY <3>1, <3>2 DEF SearchInv
  <2>3. CASE SearchStep
    <3>1. adding # {} /\ adding' = adding
      <4>1. Idle => stack = <<>>
        BY DEF Idle
      <4>2. QED
        BY <2>3, <4>1 DEF SearchStep, VisitNode, LookAt, Leave, SearchInv
    <3>2. Searching
      BY <3>1 DEF SearchInv
    <3>3. Searching'
      BY <2>3, <3>2, VisitNodeSearches, LookAtSearches, LeaveSearches
         DEF SearchStep
    <3>4. QED BY <3>1, <3>3 DEF SearchInv
  <2>4. ASSUME NEW t \in Task, EndAdd(t)
        PROVE  SearchInv'
    BY <2>4 DEF EndAdd, SearchInv, Idle
  <2>5. QED
    BY <2>1, <2>2, <2>3, <2>4
       DEF SearchNext, SearchStep, TakeNext, BeginOrder, EndOrder, StartTask,
           SubmitSelfDependent, MarkComplete, MarkFailed, allVars, vars, graph
<1>3. QED BY <1>1, <1>2, SearchTypeCorrect, PTL DEF SearchSpec

\* In every graph AddTask can present it with, after any submissions and
\* rollbacks, and in whatever order it walks nodes and dependencies, the
\* depth-first search finds a cycle exactly if there is one.
THEOREM SearchIsRight == SearchSpec => []SearchFindsCycles
<1>1. SearchTypeOK /\ NodesHaveEdges /\ SearchInv => SearchFindsCycles
  <2> SUFFICES ASSUME SearchTypeOK, NodesHaveEdges, SearchInv,
                      adding # {}, SearchOver
               PROVE  found <=> HasCycle(Seen)
    BY DEF SearchFindsCycles
  <2>1. Searching
    BY DEF SearchInv
  <2>2. CASE found
    BY <2>1, <2>2 DEF Searching
  <2>3. CASE ~found
    BY <2>1, <2>3, AllBlackIsAcyclic DEF SearchOver, NodesHaveEdges
  <2>4. QED BY <2>2, <2>3
<1>2. QED BY <1>1, SearchTypeCorrect, NodesHold, SearchHolds, PTL

-------------------------------------------------------------------------------
(* AddTask with its search is a step of the graph *)

\* However long AddTask searches, what it leaves is what DependencyGraph says
\* of a submission: the graph without the search is what its users see.
THEOREM ImplementsTheGraph == SearchSpec => ImplementsGraph
<1>1. SearchInit => Init
  BY DEF SearchInit
<1>2. SearchTypeOK /\ Admitted /\ SearchFindsCycles /\ [SearchNext]_allVars
        => [Next]_vars
  <2> SUFFICES ASSUME SearchTypeOK, Admitted, SearchFindsCycles,
                      [SearchNext]_allVars
               PROVE  [Next]_vars
    OBVIOUS
  <2>1. CASE UNCHANGED vars
    BY <2>1
  <2>2. ASSUME NEW t \in Task, EndAdd(t) PROVE Next
    <3>1. t \in adding /\ \A u \in adding : u = t
      BY <2>2 DEF EndAdd, SearchTypeOK
    <3>2. Seen = Tentative(t, deps)
      BY <3>1 DEF Seen, Tentative, SearchTypeOK, TypeOK
    <3>3. found <=> HasCycle(Tentative(t, deps))
      BY <2>2, <3>1, <3>2 DEF EndAdd, SearchFindsCycles
    <3>4. /\ MaySubmit(t) /\ t \notin deps
          /\ deps \in SUBSET Task /\ depsLen \in Lengths(deps)
      BY <3>1 DEF Admitted, SearchTypeOK
    <3>5. SubmitRolledBack(t, deps) \/ SubmitAccepted(t, deps, depsLen)
      BY <2>2, <3>3, <3>4 DEF EndAdd, SubmitRolledBack, SubmitAccepted
    <3>6. QED BY <3>4, <3>5 DEF Next, Submit
  <2>3. ASSUME NEW t \in Task,
               \/ \E D \in SUBSET Task : SubmitSelfDependent(t, D)
               \/ StartTask(t)
               \/ MarkComplete(t)
               \/ MarkFailed(t)
        PROVE  Next
    BY <2>3 DEF Next, Submit
  <2>4. QED
    BY <2>1, <2>2, <2>3
       DEF SearchNext, BeginAdd, VisitNode, LookAt, Leave, TakeNext, BeginOrder,
           EndOrder, allVars
<1>3. QED
  BY <1>1, <1>2, SearchTypeCorrect, SearchIsRight, PTL
     DEF SearchSpec, ImplementsGraph, Spec

-------------------------------------------------------------------------------
(* The topological order *)

\* Who is listed after a submission reached a dependency's node.
LEMMA ListedAfter ==
  ASSUME NEW list0 \in TaskList, NEW t \in Task, NEW u \in Task
  PROVE  Listed(AddDependent(list0, t), u) <=> Listed(list0, u) \/ u = t
<1>1. CASE Listed(list0, t)
  BY <1>1 DEF AddDependent
<1>2. CASE ~Listed(list0, t)
  <2>1. list0 \in Seq(Task) /\ Len(list0) \in Nat /\ DOMAIN list0 = 1 .. Len(list0)
    BY DEF TaskList
  <2>2. /\ DOMAIN Append(list0, t) = 1 .. Len(list0) + 1
        /\ \A i \in 1 .. Len(list0) : Append(list0, t)[i] = list0[i]
        /\ Append(list0, t)[Len(list0) + 1] = t
    BY <2>1, AppendProperties
  <2>3. Listed(Append(list0, t), u) <=> Listed(list0, u) \/ u = t
    BY <2>1, <2>2 DEF Listed
  <2>4. QED BY <1>2, <2>3 DEF AddDependent
<1>3. QED BY <1>1, <1>2

\* What GetTopologicalOrder relies on to return every task: while each ID is
\* submitted once, dependents mirrors edges.
Mirrored ==
  Once => /\ \A t \in Task : submitted[t] = 0 => edges[t] = {}
          /\ \A d, t \in Task : Listed(dependents[d], t) <=> d \in edges[t]
          /\ \A t \in Task : edges[t] \subseteq nodes

LEMMA MirroredHolds == Spec => []Mirrored
<1>1. Init => Mirrored
  BY DEF Init, Mirrored, Listed
<1>2. TypeOK /\ Mirrored /\ [Next]_vars => Mirrored'
  <2> SUFFICES ASSUME TypeOK, Mirrored, [Next]_vars, Once'
               PROVE  Mirrored'
    BY DEF Mirrored
  <2>1. CASE UNCHANGED <<nodes, edges, dependents, submitted, refused>>
    BY <2>1 DEF Mirrored, Once, Listed
  <2>2. ASSUME NEW t \in Task, NEW D \in SUBSET Task, NEW n \in Lengths(D),
               SubmitAccepted(t, D, n)
        PROVE  Mirrored'
    <3>1. /\ nodes' = nodes \cup {t} \cup D /\ refused' = refused
          /\ \A u \in Task : edges'[u] = IF u = t THEN D ELSE edges[u]
          /\ \A u \in Task :
               submitted'[u] = IF u = t THEN submitted[u] + 1 ELSE submitted[u]
          /\ \A d \in Task : dependents'[d] = IF d \in D
                                THEN AddDependent(dependents[d], t)
                                ELSE dependents[d]
      BY <2>2 DEF SubmitAccepted, Accept, WithDependent, TypeOK
    <3>2. \A u \in Task : submitted[u] \in Nat
      BY SubmitsAssumption DEF TypeOK
    <3>3. Once /\ submitted[t] = 0
      BY <3>1, <3>2 DEF Once
    <3>4. /\ \A u \in Task : submitted[u] = 0 => edges[u] = {}
          /\ \A d, u \in Task : Listed(dependents[d], u) <=> d \in edges[u]
          /\ \A u \in Task : edges[u] \subseteq nodes
      BY <3>3 DEF Mirrored
    <3>5. \A d, u \in Task : Listed(dependents'[d], u)
                               <=> Listed(dependents[d], u) \/ (d \in D /\ u = t)
      BY <3>1, ListedAfter DEF TypeOK
    <3>6. \A d, u \in Task : Listed(dependents'[d], u) <=> d \in edges'[u]
      BY <3>1, <3>3, <3>4, <3>5
    <3>7. \A u \in Task : edges'[u] \subseteq nodes'
      BY <3>1, <3>4
    <3>8. \A u \in Task : submitted'[u] = 0 => edges'[u] = {}
      BY <3>1, <3>2, <3>4
    <3>9. QED BY <3>6, <3>7, <3>8 DEF Mirrored, Listed
  <2>3. ASSUME NEW t \in Task, NEW D \in SUBSET Task,
               SubmitRolledBack(t, D) \/ SubmitSelfDependent(t, D)
        PROVE  FALSE
    BY <2>3 DEF SubmitRolledBack, RollBack, SubmitSelfDependent, Once
  <2>4. QED
    BY <2>1, <2>2, <2>3
       DEF Next, Submit, StartTask, MarkComplete, MarkFailed, graph, vars
<1>3. QED BY <1>1, <1>2, GraphTypeCorrect, PTL DEF Spec

\* What it relies on to return none too early: whatever else was submitted or
\* rolled back, a task submitted once is listed only by what it depends on.
Backed ==
  /\ \A t \in Task : submitted[t] = 0 => edges[t] = {}
  /\ \A d, t \in Task : Listed(dependents[d], t) =>
       /\ submitted[t] # 0
       /\ submitted[t] <= 1 /\ edges[t] # {} => d \in edges[t]

LEMMA BackedHolds == Spec => []Backed
<1>1. Init => Backed
  BY DEF Init, Backed, Listed
<1>2. TypeOK /\ Backed /\ [Next]_vars => Backed'
  <2> SUFFICES ASSUME TypeOK, Backed, [Next]_vars
               PROVE  Backed'
    OBVIOUS
  <2>1. CASE UNCHANGED <<edges, dependents, submitted>>
    BY <2>1 DEF Backed, Listed
  <2>2. ASSUME NEW t \in Task, NEW D \in SUBSET Task,
               \/ \E n \in Lengths(D) : SubmitAccepted(t, D, n)
               \/ SubmitRolledBack(t, D)
        PROVE  Backed'
    <3>1. /\ edges'[t] = D \/ edges'[t] = {}
          /\ \A u \in Task \ {t} : edges'[u] = edges[u]
          /\ \A u \in Task :
               submitted'[u] = IF u = t THEN submitted[u] + 1 ELSE submitted[u]
          /\ \A d \in Task : \/ dependents'[d] = WithDependent(t, D)[d]
                             \/ dependents'[d] = <<>>
      <4>1. WithDependent(t, D) = [d \in Task |-> WithDependent(t, D)[d]]
        BY DEF WithDependent
      <4>2. CASE \E n \in Lengths(D) : SubmitAccepted(t, D, n)
        BY <4>2 DEF SubmitAccepted, Accept, TypeOK
      <4>3. CASE SubmitRolledBack(t, D)
        BY <4>1, <4>3 DEF SubmitRolledBack, RollBack, TypeOK
      <4>4. QED BY <2>2, <4>2, <4>3
    <3>2. \A u \in Task : submitted[u] \in Nat
      BY SubmitsAssumption DEF TypeOK
    <3>3. \A u \in Task : submitted'[u] = 0 => edges'[u] = {}
      BY <3>1, <3>2 DEF Backed
    <3>4. ASSUME NEW d \in Task, NEW u \in Task, Listed(dependents'[d], u)
          PROVE  Listed(dependents[d], u) \/ (d \in D /\ u = t)
      <4>1. dependents[d] \in TaskList /\ ~Listed(<<>>, u)
        BY DEF TypeOK, Listed
      <4>2. WithDependent(t, D)[d] = IF d \in D
                                     THEN AddDependent(dependents[d], t)
                                     ELSE dependents[d]
        BY DEF WithDependent
      <4>3. QED BY <3>1, <3>4, <4>1, <4>2, ListedAfter
    <3>5. ASSUME NEW d \in Task, NEW u \in Task, Listed(dependents'[d], u)
          PROVE  /\ submitted'[u] # 0
                 /\ submitted'[u] <= 1 /\ edges'[u] # {} => d \in edges'[u]
      <4>1. Listed(dependents[d], u) \/ (d \in D /\ u = t)
        BY <3>4, <3>5
      <4>2. CASE u = t
        <5>1. submitted'[u] <= 1 => d \in D
          BY <3>1, <3>2, <4>1, <4>2 DEF Backed
        <5>2. QED BY <3>1, <3>2, <4>2, <5>1
      <4>3. CASE u # t
        BY <3>1, <4>1, <4>3 DEF Backed
      <4>4. QED BY <4>2, <4>3
    <3>6. QED BY <3>3, <3>5 DEF Backed, Listed
  <2>3. ASSUME NEW t \in Task, NEW D \in SUBSET Task, SubmitSelfDependent(t, D)
        PROVE  Backed'
    <3>1. /\ edges' = edges /\ dependents' = dependents
          /\ \A u \in Task :
               submitted'[u] = IF u = t THEN submitted[u] + 1 ELSE submitted[u]
      BY <2>3 DEF SubmitSelfDependent, graph, TypeOK
    <3>2. \A u \in Task : submitted[u] \in Nat
      BY SubmitsAssumption DEF TypeOK
    <3>3. QED BY <3>1, <3>2 DEF Backed, Listed
  <2>4. QED
    BY <2>1, <2>2, <2>3
       DEF Next, Submit, StartTask, MarkComplete, MarkFailed, graph, vars
<1>3. QED BY <1>1, <1>2, GraphTypeCorrect, PTL DEF Spec

\* What was put into the result so far, and what of it lists t.
Done == {result[i] : i \in 1 .. Len(result)}

Ahead(t) == {d \in Done : Listed(dependents[d], t)}

\* Kahn's invariant: the in-degrees count down with the listing tasks, the queue
\* holds what they have counted down, and each task of the result that was
\* submitted once follows all it depends on.
Ordered ==
  /\ \A i, j \in 1 .. Len(result) : result[i] = result[j] => i = j
  /\ Done \subseteq nodes
  /\ \A t \in Task : inDegree[t] = size[t] - Cardinality(Ahead(t))
  /\ list = {t \in nodes \ Done : inDegree[t] <= 0}
  /\ \A t \in Done : inDegree[t] <= 0
  /\ \A i \in 1 .. Len(result) : submitted[result[i]] <= 1 =>
       \A d \in edges[result[i]] : \E j \in 1 .. i - 1 : result[j] = d

OrderInv == ordering => adding = {} /\ Ordered

\* What is done and lists a task can be counted.
LEMMA AheadFinite ==
  ASSUME SearchTypeOK, NEW t \in Task
  PROVE  /\ Done \in SUBSET Task /\ IsFiniteSet(Ahead(t))
         /\ Cardinality(Ahead(t)) \in Nat
<1>1. Done \in SUBSET Task
  BY DEF SearchTypeOK, Done
<1>2. Ahead(t) \in SUBSET Task
  BY <1>1 DEF Ahead
<1>3. QED BY <1>1, <1>2, TasksAssumption, FS_Subset, FS_CardinalityType

\* The tasks a list names can be counted, and the list is as long at least.
LEMMA EdgesFinite ==
  ASSUME SearchTypeOK, NodesHaveEdges, NEW t \in Task
  PROVE  /\ IsFiniteSet(edges[t]) /\ Cardinality(edges[t]) \in Nat
         /\ size[t] \in Nat /\ Cardinality(edges[t]) <= size[t]
         /\ size[t] = 0 <=> edges[t] = {}
<1>1. edges[t] \in SUBSET Task /\ size[t] \in Lengths(edges[t])
  BY DEF SearchTypeOK, TypeOK, NodesHaveEdges
<1>2. QED BY <1>1, LengthsType, TasksAssumption, FS_Subset

\* When a task submitted once is counted down, all it depends on is done.
LEMMA CountedDown ==
  ASSUME SearchTypeOK, NodesHaveEdges, Backed, Ordered, NEW t \in Task,
         submitted[t] <= 1, inDegree[t] <= 0
  PROVE  edges[t] \subseteq Done /\ size[t] = Cardinality(edges[t])
<1>1. /\ IsFiniteSet(edges[t]) /\ Cardinality(edges[t]) \in Nat
      /\ size[t] \in Nat /\ Cardinality(edges[t]) <= size[t]
      /\ size[t] = 0 <=> edges[t] = {}
  BY EdgesFinite
<1>2. Done \in SUBSET Task /\ Cardinality(Ahead(t)) \in Nat
  BY AheadFinite
<1>3. size[t] <= Cardinality(Ahead(t))
  BY <1>1, <1>2 DEF Ordered
<1>4. CASE edges[t] = {}
  BY <1>1, <1>4, FS_EmptySet
<1>5. CASE edges[t] # {}
  <2>1. Ahead(t) \subseteq edges[t]
    BY <1>2, <1>5 DEF Ahead, Backed
  <2>2. Cardinality(Ahead(t)) <= Cardinality(edges[t])
    BY <1>1, <2>1, FS_Subset
  <2>3. Ahead(t) = edges[t]
    <3>1. Cardinality(Ahead(t)) = Cardinality(edges[t])
      BY <1>1, <1>2, <1>3, <2>2
    <3>2. QED BY <1>1, <2>1, <3>1, FS_Subset
  <2>4. QED BY <1>1, <1>2, <1>3, <2>3 DEF Ahead
<1>6. QED BY <1>4, <1>5

\* The beginning.
LEMMA BeginsOrdered ==
  ASSUME SearchTypeOK, BeginOrder
  PROVE  Ordered'
<1>1. /\ result' = <<>> /\ inDegree' = size /\ list' = Roots
      /\ UNCHANGED <<edges, nodes, size, submitted, dependents>>
  BY DEF BeginOrder, vars, InDegrees
<1>2. Len(result') = 0 /\ Done' = {}
  BY <1>1 DEF Done
<1>3. ASSUME NEW t \in Task
      PROVE  /\ inDegree'[t] = size'[t] - Cardinality(Ahead(t)')
             /\ inDegree'[t] <= 0 <=> size[t] = 0
  <2>1. Ahead(t)' = {} /\ size[t] \in Nat
    BY <1>2 DEF Ahead, SearchTypeOK, TypeOK
  <2>2. QED BY <1>1, <2>1, FS_EmptySet
<1>4. nodes \in SUBSET Task
  BY DEF SearchTypeOK, TypeOK
<1>5. list' = {t \in nodes' \ Done' : inDegree'[t] <= 0}
  BY <1>1, <1>2, <1>3, <1>4 DEF Roots
<1>6. QED BY <1>1, <1>2, <1>3, <1>5 DEF Ordered

\* One turn of the loop.
LEMMA StaysOrdered ==
  ASSUME SearchTypeOK, Backed, NodesHaveEdges, Ordered,
         NEW c \in Task, TakeNext(c)
  PROVE  Ordered'
<1>1. /\ UNCHANGED <<edges, nodes, size, submitted, dependents>> /\ c \in list
      /\ result' = Append(result, c) /\ result \in Seq(Task)
  BY DEF TakeNext, vars, SearchTypeOK
<1>2. /\ Len(result) \in Nat /\ Len(result') = Len(result) + 1
      /\ \A i \in 1 .. Len(result) : result'[i] = result[i]
      /\ result'[Len(result) + 1] = c
  BY <1>1, AppendProperties
<1>3. c \in nodes /\ c \notin Done /\ inDegree[c] <= 0
  BY <1>1 DEF Ordered
<1>4. Done' = Done \cup {c}
  BY <1>2 DEF Done
<1>5. \A i, j \in 1 .. Len(result') : result'[i] = result'[j] => i = j
  BY <1>2, <1>3 DEF Ordered, Done
<1>6. Done' \subseteq nodes'
  BY <1>1, <1>3, <1>4 DEF Ordered
<1>7. ASSUME NEW t \in Task
      PROVE  /\ inDegree[t] \in Int /\ inDegree'[t] \in Int
             /\ inDegree[t] = size[t] - Cardinality(Ahead(t))
             /\ inDegree'[t] = size[t] - Cardinality(Ahead(t)')
             /\ inDegree'[t] = IF Listed(dependents[c], t) THEN inDegree[t] - 1
                                                           ELSE inDegree[t]
             /\ Listed(dependents[c], t) => Cardinality(Ahead(t)') >= 1
  <2>1. IsFiniteSet(Ahead(t)) /\ Cardinality(Ahead(t)) \in Nat
    BY AheadFinite
  <2>2. /\ size[t] \in Nat /\ inDegree[t] = size[t] - Cardinality(Ahead(t))
        /\ inDegree'[t] = IF Listed(dependents[c], t) THEN inDegree[t] - 1
                                                      ELSE inDegree[t]
    BY DEF Ordered, SearchTypeOK, TypeOK, TakeNext
  <2>3. CASE Listed(dependents[c], t)
    <3>1. Ahead(t)' = Ahead(t) \cup {c} /\ c \notin Ahead(t)
      BY <1>1, <1>3, <1>4, <2>3 DEF Ahead
    <3>2. Cardinality(Ahead(t)') = Cardinality(Ahead(t)) + 1
      BY <2>1, <3>1, FS_AddElement
    <3>3. QED BY <2>1, <2>2, <2>3, <3>2
  <2>4. CASE ~Listed(dependents[c], t)
    <3>1. Ahead(t)' = Ahead(t)
      BY <1>1, <1>4, <2>4 DEF Ahead
    <3>2. QED BY <2>1, <2>2, <2>4, <3>1
  <2>5. QED BY <2>3, <2>4
<1>8. nodes \in SUBSET Task /\ Done \in SUBSET Task
  BY AheadFinite DEF SearchTypeOK, TypeOK
<1>9. list' = {t \in nodes' \ Done' : inDegree'[t] <= 0}
  <2>1. list' = (list \ {c}) \cup
                  {t \in Task : Listed(dependents[c], t) /\ inDegree'[t] = 0}
    BY DEF TakeNext
  <2>2. list = {t \in nodes \ Done : inDegree[t] <= 0}
    BY DEF Ordered
  <2>3. ASSUME NEW t \in Task, Listed(dependents[c], t), inDegree'[t] = 0
        PROVE  t \in nodes /\ t \notin Done'
    <3>1. inDegree[t] = 1
      BY <1>7, <2>3
    <3>2. size[t] >= 1
      <4>1. size[t] \in Nat /\ Cardinality(Ahead(t)) \in Nat
        BY AheadFinite DEF SearchTypeOK, TypeOK
      <4>2. QED BY <1>7, <3>1, <4>1
    <3>3. t \in nodes
      BY <3>2, EdgesFinite DEF NodesHaveEdges
    <3>4. t \notin Done /\ t # c
      BY <1>3, <3>1 DEF Ordered
    <3>5. QED BY <1>4, <3>3, <3>4
  <2>4. ASSUME NEW t \in nodes \ Done'
        PROVE  inDegree'[t] <= 0
                 <=> inDegree[t] <= 0
                       \/ (Listed(dependents[c], t) /\ inDegree'[t] = 0)
    BY <1>7, <1>8
  <2>5. QED BY <1>1, <1>4, <1>8, <2>1, <2>2, <2>3, <2>4
<1>10. \A t \in Done' : inDegree'[t] <= 0
  BY <1>3, <1>4, <1>7, <1>8 DEF Ordered
<1>11. ASSUME NEW i \in 1 .. Len(result'), submitted'[result'[i]] <= 1,
              NEW d \in edges'[result'[i]]
       PROVE  \E j \in 1 .. i - 1 : result'[j] = d
  <2>1. CASE i = Len(result) + 1
    <3>1. d \in Done
      BY <1>1, <1>2, <1>3, <1>11, <2>1, CountedDown
    <3>2. PICK j \in 1 .. Len(result) : result[j] = d
      BY <3>1 DEF Done
    <3>3. QED BY <1>2, <2>1, <3>2
  <2>2. CASE i # Len(result) + 1
    <3>1. i \in 1 .. Len(result) /\ result'[i] = result[i]
      BY <1>2, <2>2
    <3>2. PICK j \in 1 .. i - 1 : result[j] = d
      BY <1>1, <1>11, <3>1 DEF Ordered
    <3>3. j \in 1 .. Len(result)
      BY <1>2, <3>1, <3>2
    <3>4. QED BY <1>2, <3>2, <3>3
  <2>3. QED BY <2>1, <2>2
<1>12. \A t \in Task : inDegree'[t] = size'[t] - Cardinality(Ahead(t)')
  BY <1>1, <1>7
<1>13. QED BY <1>5, <1>6, <1>9, <1>10, <1>11, <1>12 DEF Ordered

LEMMA OrderHolds == SearchSpec => []OrderInv
<1>1. SearchInit => OrderInv
  BY DEF SearchInit, OrderInv
<1>2. SearchTypeOK /\ NodesHaveEdges /\ SearchInv /\ Backed /\ OrderInv
        /\ [SearchNext]_allVars => OrderInv'
  <2> SUFFICES ASSUME SearchTypeOK, NodesHaveEdges, SearchInv, Backed,
                      OrderInv, [SearchNext]_allVars, ordering'
               PROVE  adding' = {} /\ Ordered'
    BY DEF OrderInv
  <2>1. CASE UNCHANGED <<graph, submitted, adding, order>>
    <3>1. /\ UNCHANGED <<nodes, edges, size, dependents, submitted, adding>>
          /\ UNCHANGED <<ordering, inDegree, list, result>>
      BY <2>1 DEF graph, order
    <3>2. Done' = Done /\ \A t : Ahead(t)' = Ahead(t)
      BY <3>1 DEF Done, Ahead
    <3>3. Ordered => Ordered'
      BY <3>1, <3>2 DEF Ordered
    <3>4. QED BY <3>1, <3>3 DEF OrderInv
  <2>2. CASE BeginOrder
    BY <2>2, BeginsOrdered DEF BeginOrder, search
  <2>3. ASSUME NEW c \in Task, TakeNext(c)
        PROVE  adding' = {} /\ Ordered'
    BY <2>3, StaysOrdered DEF TakeNext, OrderInv, search
  <2>4. ASSUME NEW t \in Task, StartTask(t), UNCHANGED <<search, order>>
        PROVE  adding' = {} /\ Ordered'
    BY <2>1, <2>4 DEF StartTask, search
  <2>5. CASE \/ \E t \in Task :
                  \/ \E D \in SUBSET Task : \E n \in Lengths(D) :
                       BeginAdd(t, D, n)
                  \/ VisitNode(t) \/ LookAt(t) \/ EndAdd(t)
             \/ Leave \/ EndOrder
    <3>1. ordering => adding = {} /\ stack = <<>>
      BY DEF OrderInv, SearchInv, Idle
    <3>2. ordering
      BY <2>5 DEF BeginAdd, VisitNode, LookAt, Leave, EndAdd, EndOrder, order
    <3>3. FALSE
      BY <2>5, <3>1, <3>2
         DEF BeginAdd, VisitNode, LookAt, Leave, EndAdd, EndOrder
    <3>4. QED BY <3>3
  <2>6. QED
    BY <2>1, <2>2, <2>3, <2>4, <2>5
       DEF SearchNext, MarkComplete, MarkFailed, SubmitSelfDependent, allVars,
           vars, graph, search, order
<1>3. SearchSpec => []Backed
  BY BackedHolds, ImplementsTheGraph DEF ImplementsGraph
<1>4. QED
  BY <1>1, <1>2, <1>3, SearchTypeCorrect, NodesHold, SearchHolds, PTL
     DEF SearchSpec

\* When the queue is empty and no list repeats a dependency nothing is left: what
\* is not in the result would have a task among it that depends on none of it,
\* and that task's in-degree is counted down.
LEMMA EmptyQueueIsEnd ==
  ASSUME SearchTypeOK, NoCycle, Once, Mirrored, NodesHaveEdges, Ordered,
         list = {}, \A t \in nodes : ~Repeats(t)
  PROVE  Done = nodes
<1> SUFFICES ASSUME nodes \ Done # {} PROVE FALSE
  BY DEF Ordered
<1>1. nodes \ Done \in SUBSET Task
  BY DEF SearchTypeOK, TypeOK
<1>2. PICK t \in nodes \ Done : edges[t] \cap (nodes \ Done) = {}
  BY <1>1 DEF NoCycle, Acyclic
<1>3. t \in Task /\ edges[t] \subseteq Done
  BY <1>1, <1>2 DEF Mirrored
<1>4. Ahead(t) = edges[t]
  BY <1>3, AheadFinite DEF Ahead, Mirrored
<1>5. size[t] \in Nat /\ size[t] = Cardinality(Ahead(t))
  BY <1>2, <1>3, <1>4, EdgesFinite DEF Repeats
<1>6. inDegree[t] = 0
  BY <1>3, <1>5 DEF Ordered
<1>7. t \in list
  BY <1>2, <1>6 DEF Ordered
<1>8. QED BY <1>7

\* The result is as long as there are tasks in it.
LEMMA AsLongAsDone ==
  ASSUME SearchTypeOK, Ordered
  PROVE  Len(result) = Cardinality(Done)
<1>1. result \in Seq(Task) /\ Len(result) \in Nat
  BY DEF SearchTypeOK
<1>2. result \in [1 .. Len(result) -> Done]
  BY <1>1 DEF Done
<1>3. result \in Bijection(1 .. Len(result), Done)
  <2>1. \A i, j \in 1 .. Len(result) : result[i] = result[j] => i = j
    BY DEF Ordered
  <2>2. \A t \in Done : \E i \in 1 .. Len(result) : result[i] = t
    BY DEF Done
  <2>3. QED
    BY <1>2, <2>1, <2>2 DEF Bijection, Injection, Surjection, IsInjective
<1>4. /\ IsFiniteSet(1 .. Len(result))
      /\ Cardinality(1 .. Len(result)) = Len(result)
  BY <1>1, FS_Interval
<1>5. ExistsBijection(1 .. Len(result), Done)
  BY <1>3 DEF ExistsBijection
<1>6. QED BY <1>4, <1>5, FS_Bijection

\* GetTopologicalOrder returns no task twice, and a task behind all it depends on
\* unless its own ID was submitted again. For tasks each accepted once it returns
\* all of them, or, exactly when some list names a dependency twice, the error
\* for a cyclic graph, which the graph is not.
THEOREM OrderRespectsDependencies == SearchSpec => []OrderIsTopological
<1>1. SearchTypeOK /\ NoCycle /\ Mirrored /\ Backed /\ NodesHaveEdges
        /\ OrderInv => OrderIsTopological
  <2> SUFFICES ASSUME SearchTypeOK, NoCycle, Mirrored, Backed, NodesHaveEdges,
                      Ordered, ordering
               PROVE  OrderIsTopological
    BY DEF OrderInv, OrderIsTopological
  <2>1. DOMAIN result = 1 .. Len(result) /\ Len(result) \in Nat
    BY DEF SearchTypeOK
  <2>2. \A i \in DOMAIN result : result[i] \in nodes
    BY <2>1 DEF Ordered, Done
  <2>3. Done \in SUBSET Task /\ nodes \in SUBSET Task /\ IsFiniteSet(nodes)
    BY TasksAssumption, FS_Subset DEF SearchTypeOK, TypeOK, Done
  <2>4. ASSUME list = {}, Once
        PROVE  Len(result) = Cardinality(nodes)
                 <=> \A t \in nodes : ~Repeats(t)
    <3>1. CASE \A t \in nodes : ~Repeats(t)
      BY <2>4, <3>1, EmptyQueueIsEnd, AsLongAsDone
    <3>2. ASSUME Len(result) = Cardinality(nodes), NEW t \in nodes
          PROVE  ~Repeats(t)
      <4>1. Done \subseteq nodes /\ Cardinality(Done) = Cardinality(nodes)
        BY <3>2, AsLongAsDone DEF Ordered
      <4>2. t \in Done
        BY <2>3, <4>1, FS_Subset
      <4>3. t \in Task /\ submitted[t] <= 1 /\ inDegree[t] <= 0
        BY <2>3, <2>4, <4>2 DEF Once, Ordered
      <4>4. QED BY <4>3, CountedDown DEF Repeats
    <3>3. QED BY <3>1, <3>2
  <2>5. QED
    BY <2>1, <2>2, <2>4 DEF OrderIsTopological, Ordered
<1>2. SearchSpec => []NoCycle /\ []Mirrored /\ []Backed
  BY NeverCyclic, MirroredHolds, BackedHolds, ImplementsTheGraph, PTL
     DEF ImplementsGraph
<1>3. QED
  BY <1>1, <1>2, SearchTypeCorrect, NodesHold, OrderHolds, PTL
=============================================================================
