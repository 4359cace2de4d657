------------------------- MODULE CircuitBreakerProofs -------------------------
(* The safety of the circuit breaker for every set of callers, every failure  *)
(* threshold and every number of half-open requests.                          *)
EXTENDS CircuitBreaker, TLAPS

\* The type of every variable, and the two invariants, support one another: that
\* a probe is under way needs every failed probe to open the breaker.
BreakerInv == TypeOK /\ ClosedBelowThreshold /\ ProbeUnderWay

\* A caller that moves on is somewhere in Call.
LEMMA GoesType ==
  ASSUME TypeOK, NEW c \in Caller, NEW to \in {"idle", "admit", "exec"},
         Goes(c, to)
  PROVE  /\ call' \in [Caller -> {"idle", "admit", "exec"}]
         /\ call'[c] = to
         /\ \A d \in Caller \ {c} : call'[d] = call[d]
BY DEF TypeOK, Goes

\* The invariant holds of the breaker NewCircuitBreaker makes ...
LEMMA BreakerInit == Init => BreakerInv
BY BreakerAssumption
   DEF Init, BreakerInv, TypeOK, ClosedBelowThreshold, ProbeUnderWay

\* ... and every step of every call keeps it.
LEMMA BreakerStep == BreakerInv /\ [Next]_vars => BreakerInv'
<1> SUFFICES ASSUME BreakerInv, [Next]_vars
             PROVE  BreakerInv'
  OBVIOUS
<1> USE BreakerAssumption
<1>0. /\ TypeOK /\ ClosedBelowThreshold /\ ProbeUnderWay
      /\ failures \in Nat /\ attempts \in Nat
  BY DEF BreakerInv, TypeOK
<1>1. CASE UNCHANGED vars
  BY <1>0, <1>1 DEF BreakerInv, TypeOK, ClosedBelowThreshold, ProbeUnderWay, vars
<1>2. ASSUME NEW c \in Caller, CallClosed(c)
      PROVE  BreakerInv'
  BY <1>0, <1>2, GoesType
     DEF CallClosed, BreakerInv, TypeOK, ClosedBelowThreshold, ProbeUnderWay
<1>3. ASSUME NEW c \in Caller, CallHalfOpens(c)
      PROVE  BreakerInv'
  BY <1>0, <1>3, GoesType
     DEF CallHalfOpens, BreakerInv, TypeOK, ClosedBelowThreshold, ProbeUnderWay
<1>4. ASSUME NEW c \in Caller, CallHalfOpen(c)
      PROVE  BreakerInv'
  <2>1. TypeOK' /\ ClosedBelowThreshold'
    BY <1>0, <1>4, GoesType DEF CallHalfOpen, TypeOK, ClosedBelowThreshold
  <2>2. PICK d \in Caller : call[d] = IF attempts = 0 THEN "admit" ELSE "exec"
    BY <1>0, <1>4 DEF CallHalfOpen, ProbeUnderWay
  <2>3. d # c /\ call'[d] = call[d] /\ attempts' = attempts
    BY <1>0, <1>4, <2>2, GoesType DEF CallHalfOpen
  <2>4. QED BY <2>1, <2>2, <2>3 DEF BreakerInv, ProbeUnderWay
<1>5. ASSUME NEW c \in Caller, Admit(c)
      PROVE  BreakerInv'
  <2>1. CASE attempts < HalfOpenRequests
    <3>1. call'[c] = "exec" /\ attempts' = attempts + 1
      BY <1>0, <1>5, <2>1, GoesType DEF Admit
    <3>2. TypeOK' /\ ClosedBelowThreshold'
      BY <1>0, <1>5, <2>1, <3>1, GoesType DEF Admit, TypeOK, ClosedBelowThreshold
    <3>3. QED BY <1>0, <3>1, <3>2 DEF BreakerInv, ProbeUnderWay
  <2>2. CASE attempts >= HalfOpenRequests
    <3>1. attempts' = attempts /\ attempts # 0 /\ state' = state
      BY <1>0, <1>5, <2>2 DEF Admit
    <3>2. TypeOK' /\ ClosedBelowThreshold'
      BY <1>0, <1>5, <2>2, GoesType DEF Admit, TypeOK, ClosedBelowThreshold
    <3>3. ASSUME state = "half_open"
          PROVE  \E d \in Caller : call'[d] = "exec"
      <4>1. PICK d \in Caller : call[d] = "exec"
        BY <1>0, <3>1, <3>3 DEF ProbeUnderWay
      <4>2. d # c /\ call'[d] = call[d]
        BY <1>0, <1>5, <2>2, <4>1, GoesType DEF Admit
      <4>3. QED BY <4>1, <4>2
    <3>4. QED BY <3>1, <3>2, <3>3 DEF BreakerInv, ProbeUnderWay
  <2>3. QED BY <1>0, <2>1, <2>2
<1>6. ASSUME NEW c \in Caller, RecordFailure(c)
      PROVE  BreakerInv'
  <2>1. TypeOK' /\ ClosedBelowThreshold'
    <3>1. call' \in [Caller -> {"idle", "admit", "exec"}]
      BY <1>0, <1>6, GoesType DEF RecordFailure
    <3>2. /\ failures' = IF failures < FailureThreshold THEN failures + 1
                                                        ELSE failures
          /\ state' = IF failures + 1 >= FailureThreshold THEN "open" ELSE state
          /\ timedOut' = FALSE /\ attempts' = attempts
      BY <1>6 DEF RecordFailure
    <3>3. failures \in 0 .. FailureThreshold /\ FailureThreshold \in Nat \ {0}
      BY <1>0 DEF TypeOK
    <3>4. failures' \in 0 .. FailureThreshold
      BY <3>2, <3>3
    <3>5. state' \in {"closed", "open", "half_open"} /\ attempts' \in 0 .. HalfOpenRequests
      BY <1>0, <3>2 DEF TypeOK
    <3>6. CASE failures + 1 >= FailureThreshold
      <4>1. state' = "open" /\ ~(failures' < FailureThreshold)
        BY <3>2, <3>3, <3>6
      <4>2. QED BY <3>1, <3>2, <3>4, <3>5, <4>1 DEF TypeOK, ClosedBelowThreshold
    <3>7. CASE ~(failures + 1 >= FailureThreshold)
      <4>1. failures < FailureThreshold /\ failures' < FailureThreshold
        BY <3>2, <3>3, <3>7
      <4>2. state' = "closed"
        BY <1>0, <3>2, <3>7, <4>1 DEF ClosedBelowThreshold
      <4>3. QED
        BY <3>1, <3>2, <3>4, <3>5, <4>1, <4>2 DEF TypeOK, ClosedBelowThreshold
    <3>8. QED BY <3>6, <3>7
  <2>2. state' # "half_open"
    BY <1>0, <1>6 DEF RecordFailure, TypeOK, ClosedBelowThreshold
  <2>3. QED BY <2>1, <2>2 DEF BreakerInv, ProbeUnderWay
<1>7. ASSUME NEW c \in Caller, RecordSuccess(c)
      PROVE  BreakerInv'
  <2>1. TypeOK' /\ ClosedBelowThreshold'
    BY <1>0, <1>7, GoesType DEF RecordSuccess, TypeOK, ClosedBelowThreshold
  <2>2. state' # "half_open"
    BY <1>0, <1>7 DEF RecordSuccess, TypeOK
  <2>3. QED BY <2>1, <2>2 DEF BreakerInv, ProbeUnderWay
<1>8. CASE Reset
  BY <1>0, <1>8 DEF Reset, BreakerInv, TypeOK, ClosedBelowThreshold, ProbeUnderWay
<1>9. CASE ResetTimeoutPasses
  BY <1>0, <1>9
     DEF ResetTimeoutPasses, BreakerInv, TypeOK, ClosedBelowThreshold,
         ProbeUnderWay
<1>10. QED
  BY <1>1, <1>2, <1>3, <1>4, <1>5, <1>6, <1>7, <1>8, <1>9 DEF Next, Step

\* The counters of failures and probes keep their bounds for every number of
\* callers, although a caller is admitted in another state than it saw.
THEOREM TypeCorrect == Spec => []TypeOK
<1>1. BreakerInv => TypeOK
  BY DEF BreakerInv
<1>2. QED
  BY <1>1, BreakerInit, BreakerStep, PTL DEF Spec

\* A breaker is closed exactly while its failures are below the threshold, so a
\* failed probe always opens it again.
THEOREM ProbeFailureReopens == Spec => []ClosedBelowThreshold
<1>1. BreakerInv => ClosedBelowThreshold
  BY DEF BreakerInv
<1>2. QED
  BY <1>1, BreakerInit, BreakerStep, PTL DEF Spec

\* A half-open breaker never waits for a probe that does not exist.
THEOREM HalfOpenIsProbed == Spec => []ProbeUnderWay
<1>1. BreakerInv => ProbeUnderWay
  BY DEF BreakerInv
<1>2. QED
  BY <1>1, BreakerInit, BreakerStep, PTL DEF Spec
=============================================================================
