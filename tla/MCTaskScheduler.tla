--------------------------- MODULE MCTaskScheduler ---------------------------
(* Instances of TaskScheduler for TLC.                                        *)
EXTENDS TaskScheduler, TLC

CONSTANTS t1, t2, t3, t4, a1, a2

\* t2 waits for t1; t3 is free and more urgent than t1.
ChainDeps == (t1 :> {}) @@ (t2 :> {t1}) @@ (t3 :> {})
ChainPriority == (t1 :> 1) @@ (t2 :> 2) @@ (t3 :> 2)

FreeDeps == (t1 :> {}) @@ (t2 :> {})
FreePriority == (t1 :> 1) @@ (t2 :> 1)

\* Independent tasks in a fixed order.
ListDeps == [t \in {t1, t2, t3, t4} |-> {}]
ListPriority == (t1 :> 4) @@ (t2 :> 3) @@ (t3 :> 2) @@ (t4 :> 1)

SingleDeps == t1 :> {}
SinglePriority == t1 :> 1

AgentSymmetry == Permutations(Agent)

NoLimit == [k \in EnvironmentStep |-> 0]

CoreLimit == [NoLimit EXCEPT !["submit"] = 4, !["register"] = 2]

RetryLimit == [NoLimit EXCEPT !["submit"] = 1, !["register"] = 2]

LiveLimit == [NoLimit EXCEPT !["submit"] = 3, !["register"] = 2]

\* One agent is registered once.
ListLimit == [NoLimit EXCEPT !["submit"] = 4, !["register"] = 1]

\* Users interfere with the board and the agents, the store fails, contexts
\* expire, the scheduler stops and crashes.
FaultLimit ==
  [k \in EnvironmentStep |-> IF k = "submit" THEN 3
                             ELSE IF k = "register" THEN 2 ELSE 1]

\* At most two of those things in one behaviour.
AtMostTwoFaults ==
  Cardinality({k \in EnvironmentStep \ {"submit", "register"} :
                 used[k] > 0}) <= 2
=============================================================================
