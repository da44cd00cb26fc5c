----------------------------- MODULE PoolMemory -----------------------------
(***************************************************************************)
(* The memory of one worker pool, controller/WorkerPoolManager: what its   *)
(* synchronous methods make of the workers, orders, queue and results.     *)
(* Priorities, timestamps, counts of tasks and metrics are left out.       *)
(***************************************************************************)
EXTENDS Naturals

CONSTANTS MaxWorkers,      \* maxWorkers
          MaxOrders,       \* bound: the largest work order number
          Issues,
          NoIssue

ASSUME PoolAssumption ==
  /\ MaxWorkers \in Nat /\ MaxOrders \in Nat
  /\ NoIssue \notin Issues

Slots == 1..MaxWorkers
Orders == 1..MaxOrders

Idle == [status |-> "idle", issue |-> NoIssue]

\* initializeWorkers and reset
NewPool == [workers |-> [w \in Slots |-> Idle],
            orders |-> [id \in Orders |-> NoIssue],   \* NoIssue: no such order
            counter |-> 0,
            queue |-> {}, completed |-> {}, failed |-> {}]

IdleWorkers(s) == {w \in Slots : s.workers[w].status = "idle"}

\* getAvailableSlot: the first idle worker, if there is one
AvailableSlots(s) == {w \in IdleWorkers(s) : \A v \in IdleWorkers(s) : w <= v}

HasOrder(s, i) == \E id \in Orders : s.orders[id] = i

\* Only an idle worker is assigned work
Assign(s, w, i) ==
  [s EXCEPT !.workers[w] = [status |-> "working", issue |-> i], !.queue = @ \ {i}]

\* Mutant: the worker keeps its issue
CompleteForgetful(s, w, id, success) ==
  IF success THEN [s EXCEPT !.workers[w].status = "idle", !.completed = @ \cup {id}]
             ELSE [s EXCEPT !.workers[w].status = "idle", !.failed = @ \cup {id}]

\* The worker need not be working on the order, nor at all
Complete(s, w, id, success) ==
  IF success THEN [s EXCEPT !.workers[w] = Idle, !.completed = @ \cup {id}]
             ELSE [s EXCEPT !.workers[w] = Idle, !.failed = @ \cup {id}]

\* The worker keeps its issue
Fail(s, w, id) == [s EXCEPT !.workers[w].status = "error", !.failed = @ \cup {id}]

\* Mutant: the status is not reset
ReleaseIssueOnly(s, w) == [s EXCEPT !.workers[w].issue = NoIssue]

\* releaseWorker, resetWorker and respawnWorker
Release(s, w) == [s EXCEPT !.workers[w] = Idle]

MarkZombie(s, w) == [s EXCEPT !.workers[w].status = "error"]

Enqueue(s, i) == [s EXCEPT !.queue = @ \cup {i}]

\* Mutant: the task is not queued when no worker is idle
ReassignOrDrop(s, i) ==
  IF ~HasOrder(s, i) \/ IdleWorkers(s) = {} THEN s
  ELSE Assign(s, CHOOSE w \in AvailableSlots(s) : TRUE, i)

\* To the first idle worker, or else to the queue; nothing without an order
Reassign(s, i) ==
  IF ~HasOrder(s, i) THEN s
  ELSE IF IdleWorkers(s) = {} THEN Enqueue(s, i)
  ELSE Assign(s, CHOOSE w \in AvailableSlots(s) : TRUE, i)

-----------------------------------------------------------------------------
(* Types *)

WorkerInfo == [status : {"idle", "working", "error"}, issue : Issues \cup {NoIssue}]

Pool == [workers : [Slots -> WorkerInfo], orders : [Orders -> Issues \cup {NoIssue}],
         counter : 0..MaxOrders, queue : SUBSET Issues,
         completed : SUBSET Orders, failed : SUBSET Orders]

Consistent(info) ==
  /\ info.status = "idle" => info.issue = NoIssue
  /\ info.status = "working" => info.issue # NoIssue
=============================================================================
