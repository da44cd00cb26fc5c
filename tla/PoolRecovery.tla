---------------------------- MODULE PoolRecovery ----------------------------
(***************************************************************************)
(* The worker pool with its health monitor, wired by the integration       *)
(* methods of controller/WorkerPoolManager: the zombie handler calls       *)
(* markWorkerZombie, the reassignment handler reassignTask and the restart *)
(* handler respawnWorker.  They run when the monitor invokes the handler,  *)
(* whose promise settles later.  A worker reports the issue it works on.   *)
(*                                                                         *)
(* The owner of the pool assigns what it dequeues at once.  All handlers   *)
(* are installed, and nobody resets the health of a worker by hand.        *)
(***************************************************************************)
EXTENDS WorkerHealthMonitor

CONSTANTS MaxWorkers, MaxOrders

Wired == [handlers |-> Handlers, manual |-> FALSE]

ASSUME RecoveryAssumption ==
  /\ MaxWorkers \in Nat /\ MaxOrders \in Nat
  /\ Workers = 1..MaxWorkers
  /\ Wired \in Configs

VARIABLE pool

P == INSTANCE PoolMemory WITH Issues <- Tasks, NoIssue <- NoTask

allVars == <<vars, pool>>

Issue(w) == pool.workers[w].issue

-----------------------------------------------------------------------------
(* The pool's own steps; the monitor does not see them *)

OrderOf(i, id) == pool.orders[id] = i

Holds(s, i) == i \in s.queue \/ \E w \in Workers : s.workers[w].issue = i

Submit(i) ==
  /\ ~Holds(pool, i)
  /\ \A id \in P!Orders : OrderOf(i, id) => id \notin pool.completed \cup pool.failed
  /\ pool' = P!Enqueue(pool, i)
  /\ UNCHANGED vars

\* dequeue, getAvailableSlot and assignWork of the issue's work order in one go
StartNext(i) ==
  /\ i \in pool.queue /\ P!HasOrder(pool, i)
  /\ \E w \in P!AvailableSlots(pool) : pool' = P!Assign(pool, w, i)
  /\ UNCHANGED vars

\* The worker that holds the issue delivers its result, late ones included
CompleteWork(w, id, success) ==
  /\ Issue(w) # NoTask /\ OrderOf(Issue(w), id)
  /\ pool' = P!Complete(pool, w, id, success)
  /\ UNCHANGED vars

FailWork(w, id) ==
  /\ Issue(w) # NoTask /\ OrderOf(Issue(w), id)
  /\ pool' = P!Fail(pool, w, id)
  /\ UNCHANGED vars

-----------------------------------------------------------------------------
(* The monitor's steps with what their handlers do to the pool *)

Heartbeat(w, d) ==
  /\ RecordHeartbeat(w, Issue(w), d)
  /\ UNCHANGED pool

Invokes(k, handler) == check[k].pc # handler /\ check'[k].pc = handler

Worker(k) == check'[k].obj[1]

Recover(k) ==
  /\ CheckStep(k)
  /\ \/ /\ Invokes(k, "zombie")
        /\ pool' = P!MarkZombie(pool, Worker(k))
     \/ /\ Invokes(k, "reassign")
        /\ pool' = P!Reassign(pool, check'[k].task)
     \/ /\ Invokes(k, "restart")
        /\ pool' = P!Release(pool, Worker(k))
     \/ /\ \A handler \in Handlers : ~Invokes(k, handler)
        /\ UNCHANGED pool

MonitorStep ==
  /\ \/ \E k \in Checks : Start(k) \/ TimerFires(k)
     \/ Stop
     \/ Advance
  /\ UNCHANGED pool

-----------------------------------------------------------------------------
RecoveryInit ==
  /\ Init
  /\ config = Wired
  /\ pool \in {[P!NewPool EXCEPT !.orders = o] : o \in {f \in [P!Orders -> Tasks] :
                  \A i, j \in P!Orders : f[i] = f[j] => i = j}}

RecoveryNext ==
  \/ \E i \in Tasks : Submit(i) \/ StartNext(i)
  \/ \E w \in Workers :
       \/ \E id \in P!Orders :
            FailWork(w, id) \/ \E success \in BOOLEAN : CompleteWork(w, id, success)
       \/ \E d \in 0..MaxDelay : Heartbeat(w, d)
  \/ \E k \in Checks : Recover(k)
  \/ MonitorStep

RecoverySpec == RecoveryInit /\ [][RecoveryNext]_allVars

-----------------------------------------------------------------------------
(* Properties *)

Finished(s, i) == \E id \in P!Orders : s.orders[id] = i /\ id \in s.completed \cup s.failed

NoOverlap == \A j, k \in Checks : j = k

\* A check that has passed on the task of a worker does not lose it when it then
\* restarts the worker: by then the task has another worker, is queued or finished,
\* whatever the owner of the pool and late results did meanwhile.  This needs checks
\* that do not overlap: another check may restart the worker the task went to.  And
\* it holds of every first restart; the task a worker still reports after a restart
\* that failed may be given to the worker itself, which has become idle meanwhile.
ReassignedTaskKept ==
  [][NoOverlap =>
       \A k \in Checks : check[k].pc = "reassign" /\ Invokes(k, "restart") =>
         LET i == check[k].task
             w == Worker(k)
         IN  \/ Holds(pool', i) \/ Finished(pool', i)
             \/ /\ health[check[k].obj].restarts > 0
                /\ pool.workers[w] = [status |-> "working", issue |-> i]]_allVars

Failed(i) == \E id \in P!Orders : OrderOf(i, id) /\ id \in pool.failed

\* A worker is out of the pool only as long as the monitor works on its recovery, or
\* because its task failed: nothing that happens while a handler is awaited leaves a
\* worker marked in the pool that the monitor has restarted.  When checks overlap,
\* their handlers must settle within the cooldown: of two restarts of a worker one
\* may fail, and a later check mark the worker, before the other succeeds.
RecoveredIsAvailable ==
  MaxStall < Cooldown \/ NoOverlap =>
    \A w \in Workers :
      pool.workers[w].status = "error" /\ ~Failed(Issue(w)) =>
        /\ live[w] # 0
        /\ health[<<w, live[w]>>].status \in {"zombie", "restarting"}
=============================================================================
