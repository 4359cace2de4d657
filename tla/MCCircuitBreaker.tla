--------------------------- MODULE MCCircuitBreaker ---------------------------
(* The breaker NewHealthMonitor makes, with four callers.                     *)
EXTENDS CircuitBreaker

CONSTANTS c1, c2, c3, c4
=============================================================================
