-------------------------- MODULE MCCircuitBreaker --------------------------
(* Instances of CircuitBreaker for TLC *)
EXTENDS CircuitBreaker, TLC

CONSTANTS c1, c2, c3

Config(m1, m2, m3, countRetryable, ops) ==
  [mode |-> (c1 :> m1 @@ c2 :> m2 @@ c3 :> m3), countRetryable |-> countRetryable, ops |-> ops]

\* Three executing callers; one of each mode; retrying ones that abort
MCConfigs ==
  { Config("execute", "execute", "execute", TRUE, {"reset"}),
    Config("execute", "withRetry", "executor", TRUE, {}),
    Config("execute", "withRetry", "executor", FALSE, {"abort"}),
    Config("withRetry", "withRetry", "executor", TRUE, {"reset"}) }
=============================================================================
