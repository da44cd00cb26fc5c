----------------------------- MODULE WorkerPool -----------------------------
(***************************************************************************)
(* The worker pool, controller/WorkerPoolManager, in the processes that    *)
(* share one workOrdersPath: each has its own workers, orders, queue and   *)
(* results in memory, and they meet in the files of that directory.        *)
(*                                                                         *)
(* A synchronous method is one step, and its WithLock variant only delays  *)
(* it.  An asynchronous call is a sequence of steps from one await to the  *)
(* next.  withLock is taken to exclude other holders; a crashed holder's   *)
(* lock expires.                                                           *)
(***************************************************************************)
EXTENDS PoolMemory

CONSTANTS Processes,
          Calls,           \* concurrent asynchronous calls
          NoCall,
          Projects, NoProject,
          Configs          \* how the pool is used, see config

SyncMethods == {"assignWork", "completeWork", "failWork", "releaseWorker", "markWorkerZombie",
                "reassignTask", "enqueue", "dequeue", "reset"}

AsyncMethods == {"createWorkOrder", "createWorkOrderWithLock", "saveState", "saveStateWithLock",
                 "loadState", "loadStateWithLock", "synchronizeState"}

Methods == SyncMethods \cup AsyncMethods

ASSUME CallAssumption ==
  /\ NoCall \notin Calls /\ NoProject \notin Projects
  /\ Configs \subseteq [methods : SUBSET Methods, process : [Calls -> Processes],
                         project : [Calls -> Projects], orders : 0..MaxOrders]

VARIABLES config,     \* the methods used, the process each call is made in and the projectId
                      \* it is given, and a bound on the work order numbers
          pool,       \* the memory of each process
          call,       \* the asynchronous calls in progress
          lock,       \* the call that holds the lock on the shared state
          orderFile,  \* the work order files, NoIssue where there is none
          saved,      \* controller_state.json as last written in full
          torn        \* ... and whether it can not be parsed now

vars == <<config, pool, call, lock, orderFile, saved, torn>>

-----------------------------------------------------------------------------
(* The state file *)

\* What saveState writes
Snapshot(s, project) ==
  [project |-> project, workers |-> s.workers, queue |-> s.queue,
   completed |-> s.completed, failed |-> s.failed]

\* restoreFromState: the orders and their counter are not part of the file
Restore(s, f) ==
  [s EXCEPT !.workers = f.workers, !.queue = f.queue,
            !.completed = f.completed, !.failed = f.failed]

\* synchronizeState after loadState
Merge(s, f) ==
  [s EXCEPT !.completed = @ \cup f.completed, !.failed = @ \cup f.failed]

\* No file
NoState == Snapshot(NewPool, NoProject)

-----------------------------------------------------------------------------
(* The synchronous methods *)

Active == {config.process[c] : c \in Calls}

\* A method turns the memory of process p into s in one step
Update(p, method, s) ==
  /\ method \in config.methods
  /\ pool' = [pool EXCEPT ![p] = s]
  /\ UNCHANGED <<config, call, lock, orderFile, saved, torn>>

AssignWork(p, w, i) ==
  /\ w \in IdleWorkers(pool[p])
  /\ HasOrder(pool[p], i)
  /\ Update(p, "assignWork", Assign(pool[p], w, i))

\* Late results included, of orders the process knows
CompleteWork(p, w, id, success) ==
  /\ pool[p].orders[id] # NoIssue
  /\ Update(p, "completeWork", Complete(pool[p], w, id, success))

FailWork(p, w, id) ==
  /\ pool[p].orders[id] # NoIssue
  /\ Update(p, "failWork", Fail(pool[p], w, id))

ReleaseWorker(p, w) == Update(p, "releaseWorker", Release(pool[p], w))

MarkWorkerZombie(p, w) == Update(p, "markWorkerZombie", MarkZombie(pool[p], w))

ReassignTask(p, i) == Update(p, "reassignTask", Reassign(pool[p], i))

EnqueueIssue(p, i) == Update(p, "enqueue", Enqueue(pool[p], i))

Dequeue(p, i) ==
  /\ i \in pool[p].queue
  /\ Update(p, "dequeue", [pool[p] EXCEPT !.queue = @ \ {i}])

\* Calls in flight go on
Reset(p) == Update(p, "reset", NewPool)

-----------------------------------------------------------------------------
(* The asynchronous calls *)

CallPCs == {"idle",
            "creating",   \* persistWorkOrder
            "reading",    \* readFile in loadState
            "merging",    \* synchronizeState after loadState
            "saving",     \* saveState before its file is opened
            "writing"}    \* ... and since it was truncated

NoCallState == [method |-> "none", pc |-> "idle", order |-> 0, issue |-> NoIssue,
                state |-> NoState, mixed |-> FALSE]

\* Mutant: synchronizeState does not take the lock
LockedUnlessSynchronizing(method) ==
  method \in {"createWorkOrderWithLock", "saveStateWithLock", "loadStateWithLock"}

Locked(method) ==
  method \in {"createWorkOrderWithLock", "saveStateWithLock", "loadStateWithLock",
              "synchronizeState"}

\* Call c starts as r, with the lock if its method takes it
Begin(c, r) ==
  /\ call[c].pc = "idle"
  /\ r.method \in config.methods
  /\ call' = [call EXCEPT ![c] = r]
  /\ IF Locked(r.method) THEN lock = NoCall /\ lock' = c ELSE UNCHANGED lock

\* Mutant: withLock does not release
ReturnHoldingLock(c) ==
  /\ call' = [call EXCEPT ![c] = NoCallState]
  /\ UNCHANGED lock

\* Call c returns or throws
Return(c) ==
  /\ call' = [call EXCEPT ![c] = NoCallState]
  /\ lock' = IF lock = c THEN NoCall ELSE lock

MyPool(c) == pool[config.process[c]]

MyProject(c) == config.project[c]

CreateWorkOrder(c, method, i) ==
  LET id == MyPool(c).counter + 1
  IN  /\ method \in {"createWorkOrder", "createWorkOrderWithLock"}
      /\ id <= config.orders
      /\ Begin(c, [NoCallState EXCEPT !.method = method, !.pc = "creating",
                                      !.order = id, !.issue = i])
      /\ pool' = [pool EXCEPT ![config.process[c]].counter = id,
                              ![config.process[c]].orders[id] = i]
      /\ UNCHANGED <<config, orderFile, saved, torn>>

WorkOrderCreated(c) ==
  /\ call[c].pc = "creating"
  /\ orderFile' = [orderFile EXCEPT ![call[c].order] = call[c].issue]
  /\ Return(c)
  /\ UNCHANGED <<config, pool, saved, torn>>

\* Mutant: the rollback gives the number back
RolledBackCounter(s, id) ==
  [s EXCEPT !.orders[id] = NoIssue, !.counter = IF @ > 0 THEN @ - 1 ELSE 0]

RolledBack(s, id) == [s EXCEPT !.orders[id] = NoIssue]

CreateFails(c) ==
  /\ call[c].pc = "creating"
  /\ pool' = [pool EXCEPT ![config.process[c]] = RolledBack(@, call[c].order)]
  /\ Return(c)
  /\ UNCHANGED <<config, orderFile, saved, torn>>

\* The pool is read before the first await
SaveState(c, method) ==
  /\ method \in {"saveState", "saveStateWithLock"}
  /\ Begin(c, [NoCallState EXCEPT !.method = method, !.pc = "saving",
                                  !.state = Snapshot(MyPool(c), MyProject(c))])
  /\ UNCHANGED <<config, pool, orderFile, saved, torn>>

OpenFile(c) ==
  /\ call[c].pc = "saving"
  /\ call' = [call EXCEPT ![c].pc = "writing"]
  /\ torn' = TRUE
  /\ UNCHANGED <<config, pool, lock, orderFile, saved>>

\* A write over the end of another one can leave a mixture of the two
WriteFile(c) ==
  /\ call[c].pc = "writing"
  /\ saved' = call[c].state
  /\ torn' \in IF call[c].mixed THEN BOOLEAN ELSE {FALSE}
  /\ call' = [d \in Calls |->
                IF d = c THEN NoCallState
                ELSE [call[d] EXCEPT !.mixed = @ \/ call[d].pc = "writing"]]
  /\ lock' = IF lock = c THEN NoCall ELSE lock
  /\ UNCHANGED <<config, pool, orderFile>>

\* loadState, and synchronizeState, of an existing file
LoadState(c, method) ==
  /\ method \in {"loadState", "loadStateWithLock", "synchronizeState"}
  /\ saved # NoState \/ torn
  /\ Begin(c, [NoCallState EXCEPT !.method = method, !.pc = "reading"])
  /\ UNCHANGED <<config, pool, orderFile, saved, torn>>

\* synchronizeState with no file yet
SynchronizeFirst(c) ==
  /\ saved = NoState /\ ~torn
  /\ Begin(c, [NoCallState EXCEPT !.method = "synchronizeState", !.pc = "saving",
                                  !.state = Snapshot(MyPool(c), MyProject(c))])
  /\ UNCHANGED <<config, pool, orderFile, saved, torn>>

\* What loadState returns: nothing if the file is another project's
Loaded(c) == IF saved.project = MyProject(c) THEN saved ELSE NoState

StateLoaded(c) ==
  /\ call[c].pc = "reading"
  /\ ~torn
  /\ IF saved.project = MyProject(c)
     THEN pool' = [pool EXCEPT ![config.process[c]] = Restore(@, saved)]
     ELSE UNCHANGED pool
  /\ IF call[c].method = "synchronizeState"
     THEN /\ call' = [call EXCEPT ![c].pc = "merging", ![c].state = Loaded(c)]
          /\ UNCHANGED lock
     ELSE Return(c)
  /\ UNCHANGED <<config, orderFile, saved, torn>>

\* Also with nothing loaded: then the file of another project is overwritten

MergeState(c) ==
  LET s == Merge(MyPool(c), call[c].state)
  IN  /\ call[c].pc = "merging"
      /\ pool' = [pool EXCEPT ![config.process[c]] = s]
      /\ call' = [call EXCEPT ![c].pc = "saving", ![c].state = Snapshot(s, MyProject(c))]
      /\ UNCHANGED <<config, lock, orderFile, saved, torn>>

\* A file that can not be read or parsed, a directory or file that can not be written
FileFails(c) ==
  /\ call[c].pc \in {"reading", "saving", "writing"}
  /\ Return(c)
  /\ UNCHANGED <<config, pool, orderFile, saved, torn>>

\* A crashed process starts again with nothing
Crash(p) ==
  /\ pool' = [pool EXCEPT ![p] = NewPool]
  /\ call' = [c \in Calls |-> IF config.process[c] = p THEN NoCallState ELSE call[c]]
  /\ lock' = IF lock # NoCall /\ config.process[lock] = p THEN NoCall ELSE lock
  /\ UNCHANGED <<config, orderFile, saved, torn>>

-----------------------------------------------------------------------------
Init ==
  /\ config \in Configs
  /\ pool = [p \in Processes |-> NewPool]
  /\ call = [c \in Calls |-> NoCallState]
  /\ lock = NoCall
  /\ orderFile = [id \in Orders |-> NoIssue]
  /\ saved = NoState
  /\ torn = FALSE

WorkerStep(p, w) ==
  \/ \E i \in Issues : AssignWork(p, w, i)
  \/ \E id \in Orders : FailWork(p, w, id) \/ \E success \in BOOLEAN : CompleteWork(p, w, id, success)
  \/ ReleaseWorker(p, w)
  \/ MarkWorkerZombie(p, w)

CallStep(c) ==
  \/ \E m \in AsyncMethods :
       \/ \E i \in Issues : CreateWorkOrder(c, m, i)
       \/ SaveState(c, m)
       \/ LoadState(c, m)
  \/ WorkOrderCreated(c) \/ CreateFails(c)
  \/ OpenFile(c) \/ WriteFile(c)
  \/ SynchronizeFirst(c) \/ StateLoaded(c) \/ MergeState(c)
  \/ FileFails(c)

Next ==
  \/ \E p \in Active :
       \/ \E w \in Slots : WorkerStep(p, w)
       \/ \E i \in Issues : EnqueueIssue(p, i) \/ Dequeue(p, i) \/ ReassignTask(p, i)
       \/ Reset(p)
       \/ Crash(p)
  \/ \E c \in Calls : CallStep(c)

Spec == Init /\ [][Next]_vars

-----------------------------------------------------------------------------
(* Properties *)

State == [project : Projects \cup {NoProject}, workers : [Slots -> WorkerInfo], queue : SUBSET Issues,
          completed : SUBSET Orders, failed : SUBSET Orders]

\* Every variable has its type, and the lock is held by a call that took it.
TypeOK ==
  /\ config \in Configs
  /\ pool \in [Processes -> Pool]
  /\ call \in [Calls -> [method : Methods \cup {"none"}, pc : CallPCs, order : 0..MaxOrders,
                         issue : Issues \cup {NoIssue}, state : State, mixed : BOOLEAN]]
  /\ lock \in Calls \cup {NoCall}
  /\ \A c \in Calls : Locked(call[c].method) <=> lock = c
  /\ orderFile \in [Orders -> Issues \cup {NoIssue}]
  /\ saved \in State
  /\ torn \in BOOLEAN

\* An idle worker has no issue and a working one has: in every process and in the
\* state file, whatever is loaded over it, marked zombie or completed late, and when.
WorkersConsistent ==
  /\ \A p \in Processes, w \in Slots : Consistent(pool[p].workers[w])
  /\ \A w \in Slots : Consistent(saved.workers[w])

Pending(id) == \E c \in Calls : call[c].pc = "creating" /\ call[c].order = id

OneProcess == \E p \in Processes : Active = {p}

\* A work order in memory is the one on file, once it is created: no rollback of a
\* failed creation, and no order created meanwhile, gets in its way.  This holds in
\* a process that has the directory for itself and does not call reset.
OrderOnFile ==
  OneProcess /\ "reset" \notin config.methods =>
    \A p \in Active, id \in Orders :
      pool[p].orders[id] # NoIssue /\ ~Pending(id) => orderFile[id] = pool[p].orders[id]

\* Processes that persist their pool only by synchronizeState never remove a result of
\* a project from its state file, whichever of them crash and whatever they load in
\* between, until a call for another project overwrites the file: loadState returns
\* nothing of another project's file, and synchronizeState then saves its own.
SharedResultsKept ==
  [][/\ config.methods \cap {"saveState", "saveStateWithLock"} = {}
     /\ saved'.project = saved.project
     => /\ saved.completed \subseteq saved'.completed
        /\ saved.failed \subseteq saved'.failed]_vars
=============================================================================
