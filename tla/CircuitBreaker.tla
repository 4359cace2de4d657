--------------------------- MODULE CircuitBreaker ---------------------------
(* The circuit breaker that stands between the attempts of one agent and its  *)
(* executor (pkg/orchestrator/scheduler/resilience.go). Call takes the lock   *)
(* three times: to look at the state, to be admitted when half-open, and to   *)
(* record how the execution ended. Other calls come in between.               *)
EXTENDS Naturals

CONSTANTS
  Caller,             \* goroutines that call the agent
  FailureThreshold, HalfOpenRequests

ASSUME BreakerAssumption ==
  FailureThreshold \in Nat \ {0} /\ HalfOpenRequests \in Nat \ {0}

VARIABLES
  state,     \* cb.state
  failures,  \* cb.failures, counted up to the threshold: it is only read there
             \* and only decremented below it
  attempts,  \* cb.halfOpenAttempts
  timedOut,  \* time.Since(cb.lastFailureTime) > cb.resetTimeout
  call       \* where each caller is in Call

vars == <<state, failures, attempts, timedOut, call>>

\* The breaker's counters keep their bounds: never more than HalfOpenRequests
\* calls are admitted in one half-open period.
TypeOK ==
  /\ state \in {"closed", "open", "half_open"}
  /\ failures \in 0 .. FailureThreshold
  /\ attempts \in 0 .. HalfOpenRequests
  /\ timedOut \in BOOLEAN
  /\ call \in [Caller -> {"idle", "admit", "exec"}]

\* lastFailureTime is the zero time until the first failure.
Init ==
  /\ state = "closed"
  /\ failures = 0
  /\ attempts = 0
  /\ timedOut = TRUE
  /\ call = [c \in Caller |-> "idle"]

-------------------------------------------------------------------------------

Goes(c, to) == call' = [call EXCEPT ![c] = to]

CallClosed(c) ==
  /\ call[c] = "idle"
  /\ state = "closed"
  /\ Goes(c, "exec")
  /\ UNCHANGED <<state, failures, attempts, timedOut>>

\* Mutant: the count of the last half-open period is kept.
HalfOpenAgain(c) ==
  /\ call[c] = "idle"
  /\ state = "open" /\ timedOut
  /\ state' = "half_open"
  /\ Goes(c, "admit")
  /\ UNCHANGED <<failures, attempts, timedOut>>

\* The reset timeout is over: this caller makes the breaker half-open. Before
\* that an open breaker refuses the call, which changes nothing.
CallHalfOpens(c) ==
  /\ call[c] = "idle"
  /\ state = "open" /\ timedOut
  /\ state' = "half_open"
  /\ attempts' = 0
  /\ Goes(c, "admit")
  /\ UNCHANGED <<failures, timedOut>>

CallHalfOpen(c) ==
  /\ call[c] = "idle"
  /\ state = "half_open"
  /\ Goes(c, "admit")
  /\ UNCHANGED <<state, failures, attempts, timedOut>>

\* Mutant: off by one.
AdmitOneMore(c) ==
  /\ call[c] = "admit"
  /\ IF attempts > HalfOpenRequests
     THEN Goes(c, "idle") /\ UNCHANGED attempts
     ELSE Goes(c, "exec") /\ attempts' = attempts + 1
  /\ UNCHANGED <<state, failures, timedOut>>

\* The lock was released since the state was read: it is not read again.
Admit(c) ==
  /\ call[c] = "admit"
  /\ IF attempts >= HalfOpenRequests
     THEN Goes(c, "idle") /\ UNCHANGED attempts
     ELSE Goes(c, "exec") /\ attempts' = attempts + 1
  /\ UNCHANGED <<state, failures, timedOut>>

\* The execution fails: recordFailure.
RecordFailure(c) ==
  /\ call[c] = "exec"
  /\ failures' = IF failures < FailureThreshold THEN failures + 1 ELSE failures
  /\ timedOut' = FALSE
  /\ state' = IF failures + 1 >= FailureThreshold THEN "open" ELSE state
  /\ Goes(c, "idle")
  /\ UNCHANGED attempts

\* Mutant: every success counts one failure less.
SuccessDecays(c) ==
  /\ call[c] = "exec"
  /\ IF state = "half_open"
     THEN state' = "closed" /\ failures' = 0
     ELSE /\ failures' = IF failures > 0 THEN failures - 1 ELSE 0
          /\ UNCHANGED state
  /\ Goes(c, "idle")
  /\ UNCHANGED <<attempts, timedOut>>

\* Mutant: the breaker closes only when all the probes are used up.
SuccessOfLastProbe(c) ==
  /\ call[c] = "exec"
  /\ IF state = "half_open" /\ attempts = HalfOpenRequests
     THEN state' = "closed" /\ failures' = 0
     ELSE UNCHANGED <<state, failures>>
  /\ Goes(c, "idle")
  /\ UNCHANGED <<attempts, timedOut>>

\* The execution succeeds: recordSuccess, which an open breaker ignores.
RecordSuccess(c) ==
  /\ call[c] = "exec"
  /\ IF state = "half_open"
     THEN state' = "closed" /\ failures' = 0
     ELSE /\ failures' = IF state = "closed" /\ failures > 0 THEN failures - 1
                                                          ELSE failures
          /\ UNCHANGED state
  /\ Goes(c, "idle")
  /\ UNCHANGED <<attempts, timedOut>>

Reset ==
  /\ state' = "closed"
  /\ failures' = 0
  /\ attempts' = 0
  /\ UNCHANGED <<timedOut, call>>

ResetTimeoutPasses ==
  /\ timedOut' = TRUE
  /\ UNCHANGED <<state, failures, attempts, call>>

Step(c) == Admit(c) \/ RecordFailure(c) \/ RecordSuccess(c)

Next ==
  \/ \E c \in Caller : CallClosed(c) \/ CallHalfOpens(c) \/ CallHalfOpen(c)
  \/ \E c \in Caller : Step(c)
  \/ Reset
  \/ ResetTimeoutPasses

Spec == Init /\ [][Next]_vars

\* A call that has begun goes on, and the executor returns: its context has the
\* task's timeout. Nothing is owed by the calls to come, by Reset or by time.
FairSpec == Spec /\ \A c \in Caller : WF_vars(Step(c))

-------------------------------------------------------------------------------

\* The breaker is closed exactly while the failures are below the threshold, so
\* one failed probe opens a half-open breaker again: no success of a call that
\* began earlier brings the count down in between.
ClosedBelowThreshold == state = "closed" <=> failures < FailureThreshold

\* A half-open breaker whose probes are all used up refuses every call, and only
\* a probe can take it out of that state. So a probe is always under way: one
\* is executing or, before the first is counted, on its way in. Calls that began
\* in an earlier period, late results and Reset do not break this.
ProbeUnderWay ==
  state = "half_open" =>
    \E c \in Caller : call[c] = IF attempts = 0 THEN "admit" ELSE "exec"

\* The breaker does not stay half-open, even if no further call comes.
HalfOpenEnds == state = "half_open" ~> state # "half_open"
=============================================================================
