----------------------- MODULE MCWorkerHealthMonitor -----------------------
(* Instances of WorkerHealthMonitor for TLC *)
EXTENDS WorkerHealthMonitor

CONSTANTS w1, t1, k1, k2

MCConfigs ==
  {[handlers |-> {}, manual |-> FALSE], [handlers |-> Handlers, manual |-> FALSE],
   [handlers |-> Handlers, manual |-> TRUE]}
=============================================================================
