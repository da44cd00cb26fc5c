---------------------------- MODULE MCWorkerPool ----------------------------
(* Instances of WorkerPool for TLC *)
EXTENDS WorkerPool, TLC

CONSTANTS p1, p2, i1, i2, c1, c2, a, b

\* Two processes that share their state, and one that makes two calls at a time
Separate == (c1 :> p1) @@ (c2 :> p2)
Alone == (c1 :> p1) @@ (c2 :> p1)

\* ... for one project, and for two that meet in the same file
OneProject == (c1 :> a) @@ (c2 :> a)
TwoProjects == (c1 :> a) @@ (c2 :> b)

MCConfigs ==
  {[process |-> Separate, project |-> OneProject, orders |-> 1,
    methods |-> {"createWorkOrderWithLock", "assignWork", "completeWork",
                 "reset", "loadStateWithLock", "synchronizeState"}],
   [process |-> Separate, project |-> TwoProjects, orders |-> 1,
    methods |-> {"createWorkOrderWithLock", "completeWork",
                 "loadStateWithLock", "synchronizeState"}],
   [process |-> Alone, project |-> OneProject, orders |-> 2,
    methods |-> (SyncMethods \ {"reset"}) \cup {"createWorkOrder"}],
   [process |-> Alone, project |-> OneProject, orders |-> 1,
    methods |-> {"createWorkOrder", "assignWork", "failWork", "reset", "saveState",
                 "saveStateWithLock", "loadState"}]}
=============================================================================
