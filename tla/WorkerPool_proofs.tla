------------------------- MODULE WorkerPool_proofs -------------------------
(***************************************************************************)
(* Proofs about WorkerPool for any processes, calls, workers, orders and   *)
(* issues, and any choice of the methods in use; and about the handler of  *)
(* stuck workers, for any workers, thresholds and overlapping checks.      *)
(***************************************************************************)
EXTENDS WorkerPool, FiniteSetTheorems, TLAPS

Sound(s) == s \in Pool /\ \A w \in Slots : Consistent(s.workers[w])

SoundState(f) == f \in State /\ \A w \in Slots : Consistent(f.workers[w])

CallRecord == [method : Methods \cup {"none"}, pc : CallPCs, order : 0..MaxOrders,
               issue : Issues \cup {NoIssue}, state : State, mixed : BOOLEAN]

\* t is s but for its workers, queue and results
OrdersKept(s, t) == t.orders = s.orders /\ t.counter = s.counter

-----------------------------------------------------------------------------
(* The operators on the memory of a pool *)

\* A new pool, and the state of no file, are sound.
LEMMA NewPoolSound == Sound(NewPool) /\ SoundState(NoState)
<1>1. NoIssue \in Issues \cup {NoIssue} /\ 0 \in 0..MaxOrders  BY PoolAssumption
<1>2. Idle \in WorkerInfo /\ Consistent(Idle)  BY DEF Idle, WorkerInfo, Consistent
<1> HIDE DEF Idle
<1>3. Sound(NewPool)  BY <1>1, <1>2 DEF Sound, NewPool, Pool
<1>4. SoundState(NoState)  BY <1>1, <1>2, CallAssumption DEF SoundState, NoState, Snapshot, NewPool, State
<1> QED  BY <1>3, <1>4

\* Assigning an issue keeps a pool sound, whatever the worker.
LEMMA AssignSound ==
  ASSUME NEW s, Sound(s), NEW w, NEW i \in Issues
  PROVE  Sound(Assign(s, w, i)) /\ OrdersKept(s, Assign(s, w, i))
<1> DEFINE r == [status |-> "working", issue |-> i]
<1>1. r \in WorkerInfo /\ Consistent(r)  BY PoolAssumption DEF WorkerInfo, Consistent
<1> HIDE DEF r
<1> DEFINE u == [s.workers EXCEPT ![w] = r]
<1>2. s \in Pool  BY DEF Sound
<1>3. Assign(s, w, i) = [s EXCEPT !.workers = u, !.queue = @ \ {i}]  BY <1>2 DEF Assign, r, Pool
<1>4. u \in [Slots -> WorkerInfo] /\ \A v \in Slots : Consistent(u[v])
  BY <1>1, <1>2 DEF Sound, Pool
<1> HIDE DEF u
<1>5. Assign(s, w, i) \in Pool /\ Assign(s, w, i).workers = u  BY <1>2, <1>3, <1>4 DEF Pool
<1>6. OrdersKept(s, Assign(s, w, i))  BY <1>2, <1>3 DEF Pool, OrdersKept
<1> QED  BY <1>4, <1>5, <1>6 DEF Sound

\* So do the results, releases and marks of any worker.
LEMMA CompleteSound ==
  ASSUME NEW s, Sound(s), NEW w \in Slots, NEW id \in Orders, NEW success \in BOOLEAN
  PROVE  Sound(Complete(s, w, id, success)) /\ OrdersKept(s, Complete(s, w, id, success))
<1>1. Idle \in WorkerInfo /\ Consistent(Idle)  BY DEF Idle, WorkerInfo, Consistent
<1> HIDE DEF Idle
<1> QED  BY <1>1 DEF Sound, Complete, Pool, OrdersKept

LEMMA FailSound ==
  ASSUME NEW s, Sound(s), NEW w \in Slots, NEW id \in Orders
  PROVE  Sound(Fail(s, w, id)) /\ OrdersKept(s, Fail(s, w, id))
<1> DEFINE r == [s.workers[w] EXCEPT !.status = "error"]
           u == [s.workers EXCEPT ![w] = r]
           f == s.failed \cup {id}
<1>1. s \in Pool /\ s.workers[w] \in WorkerInfo /\ f \subseteq Orders  BY DEF Sound, Pool
<1>2. r \in WorkerInfo /\ Consistent(r)  BY <1>1 DEF WorkerInfo, Consistent
<1>3. Fail(s, w, id) = [s EXCEPT !.workers = u, !.failed = f]
  BY <1>1 DEF Fail, Pool
<1> HIDE DEF r
<1>4. u \in [Slots -> WorkerInfo] /\ \A v \in Slots : Consistent(u[v])
  BY <1>1, <1>2 DEF Sound, Pool
<1> HIDE DEF u, f
<1>5. Fail(s, w, id) \in Pool /\ Fail(s, w, id).workers = u  BY <1>1, <1>3, <1>4 DEF Pool
<1>6. OrdersKept(s, Fail(s, w, id))  BY <1>1, <1>3 DEF Pool, OrdersKept
<1> QED  BY <1>4, <1>5, <1>6 DEF Sound

LEMMA ReleaseSound ==
  ASSUME NEW s, Sound(s), NEW w \in Slots
  PROVE  /\ Sound(Release(s, w)) /\ OrdersKept(s, Release(s, w))
         /\ Sound(MarkZombie(s, w)) /\ OrdersKept(s, MarkZombie(s, w))
<1>1. Idle \in WorkerInfo /\ Consistent(Idle)  BY DEF Idle, WorkerInfo, Consistent
<1>2. Sound(Release(s, w)) /\ OrdersKept(s, Release(s, w))
  <2> HIDE DEF Idle
  <2> QED  BY <1>1 DEF Sound, Release, Pool, OrdersKept
<1>3. Sound(MarkZombie(s, w)) /\ OrdersKept(s, MarkZombie(s, w))
  <2> DEFINE r == [s.workers[w] EXCEPT !.status = "error"]
             u == [s.workers EXCEPT ![w] = r]
  <2>1. s \in Pool /\ s.workers[w] \in WorkerInfo  BY DEF Sound, Pool
  <2>2. r \in WorkerInfo /\ Consistent(r)  BY <2>1 DEF WorkerInfo, Consistent
  <2>3. MarkZombie(s, w) = [s EXCEPT !.workers = u]  BY <2>1 DEF MarkZombie, Pool
  <2> HIDE DEF r
  <2>4. u \in [Slots -> WorkerInfo] /\ \A v \in Slots : Consistent(u[v])
    BY <2>1, <2>2 DEF Sound, Pool
  <2> HIDE DEF u
  <2>5. MarkZombie(s, w) \in Pool /\ MarkZombie(s, w).workers = u  BY <2>1, <2>3, <2>4 DEF Pool
  <2>6. OrdersKept(s, MarkZombie(s, w))  BY <2>1, <2>3 DEF Pool, OrdersKept
  <2> QED  BY <2>4, <2>5, <2>6 DEF Sound
<1> QED  BY <1>2, <1>3

\* So does the queue, and reassigning a task to a worker or to the queue.
LEMMA QueueSound ==
  ASSUME NEW s, Sound(s), NEW i \in Issues
  PROVE  /\ Sound(Enqueue(s, i)) /\ OrdersKept(s, Enqueue(s, i))
         /\ Sound([s EXCEPT !.queue = @ \ {i}]) /\ OrdersKept(s, [s EXCEPT !.queue = @ \ {i}])
         /\ Sound(Reassign(s, i)) /\ OrdersKept(s, Reassign(s, i))
<1>1. Sound(Enqueue(s, i)) /\ OrdersKept(s, Enqueue(s, i))
  BY DEF Sound, Enqueue, Pool, OrdersKept
<1>2. Sound([s EXCEPT !.queue = @ \ {i}]) /\ OrdersKept(s, [s EXCEPT !.queue = @ \ {i}])
  BY DEF Sound, Pool, OrdersKept
<1>3. \A w : Sound(Assign(s, w, i)) /\ OrdersKept(s, Assign(s, w, i))  BY AssignSound
<1>4. Sound(Reassign(s, i)) /\ OrdersKept(s, Reassign(s, i))
  BY <1>1, <1>3 DEF Reassign, OrdersKept
<1> QED  BY <1>1, <1>2, <1>4

\* Snapshots of sound pools are sound, and so are pools restored from sound files or merged.
LEMMA FileSound ==
  ASSUME NEW s, Sound(s), NEW f, SoundState(f), NEW j \in Projects
  PROVE  /\ SoundState(Snapshot(s, j)) /\ Snapshot(s, j).project = j
         /\ Sound(Restore(s, f)) /\ OrdersKept(s, Restore(s, f))
         /\ Sound(Merge(s, f)) /\ OrdersKept(s, Merge(s, f))
         /\ f.completed \subseteq Snapshot(Merge(s, f), j).completed
         /\ f.failed \subseteq Snapshot(Merge(s, f), j).failed
BY DEF Sound, SoundState, Pool, State, Snapshot, Restore, Merge, OrdersKept

-----------------------------------------------------------------------------
(* Calls and the lock *)

\* A call that is not in progress is blank, the others carry sound states, and the lock is
\* held by the call that took it
CallsSound ==
  \A c \in Calls : /\ call[c].pc = "idle" => call[c] = NoCallState
                   /\ SoundState(call[c].state)
                   /\ Locked(call[c].method) <=> lock = c

CallsTyped ==
  /\ call \in [Calls -> CallRecord]
  /\ lock \in Calls \cup {NoCall}
  /\ CallsSound

PoolsSound == pool \in [Processes -> Pool] /\ \A p \in Processes : Sound(pool[p])

FilesSound ==
  /\ orderFile \in [Orders -> Issues \cup {NoIssue}]
  /\ SoundState(saved)
  /\ torn \in BOOLEAN

\* The invariant that makes types and consistency inductive
Inv == config \in Configs /\ PoolsSound /\ CallsTyped /\ FilesSound

LEMMA Blank == NoCallState \in CallRecord /\ ~Locked(NoCallState.method) /\ SoundState(NoCallState.state)
<1>1. SoundState(NoState) /\ NoState \in State  BY NewPoolSound DEF SoundState
<1> HIDE DEF NoState
<1> QED  BY <1>1, PoolAssumption DEF NoCallState, CallRecord, CallPCs, Locked

LEMMA Begins ==
  ASSUME CallsTyped, NEW c \in Calls, NEW r \in CallRecord, r.pc # "idle", SoundState(r.state),
         Begin(c, r)
  PROVE  /\ CallsTyped' /\ call[c].pc = "idle" /\ call'[c] = r /\ r.method \in config.methods
         /\ \A d \in Calls : d # c => call'[d] = call[d]
<1>1. call' \in [Calls -> CallRecord] /\ call'[c] = r /\ \A d \in Calls : d # c => call'[d] = call[d]
  BY DEF CallsTyped, Begin
<1>2. call[c].pc = "idle" /\ r.method \in config.methods  BY DEF Begin
<1>3. lock # c  BY <1>2, Blank DEF CallsTyped, CallsSound
<1>4. CASE Locked(r.method)
  <2>1. lock = NoCall /\ lock' = c  BY <1>4 DEF Begin
  <2>2. \A d \in Calls : Locked(call'[d].method) <=> lock' = d
    BY <1>1, <1>4, <2>1, CallAssumption DEF CallsTyped, CallsSound
  <2> QED  BY <1>1, <1>2, <2>1, <2>2 DEF CallsTyped, CallsSound
<1>5. CASE ~Locked(r.method)
  <2>1. lock' = lock  BY <1>5 DEF Begin
  <2>2. \A d \in Calls : Locked(call'[d].method) <=> lock' = d
    BY <1>1, <1>3, <1>5, <2>1 DEF CallsTyped, CallsSound
  <2> QED  BY <1>1, <1>2, <2>1, <2>2 DEF CallsTyped, CallsSound
<1> QED  BY <1>4, <1>5

LEMMA Returns ==
  ASSUME CallsTyped, NEW c \in Calls, Return(c)
  PROVE  /\ CallsTyped' /\ call'[c] = NoCallState
         /\ \A d \in Calls : d # c => call'[d] = call[d]
<1>1. /\ call' \in [Calls -> CallRecord] /\ call'[c] = NoCallState
      /\ \A d \in Calls : d # c => call'[d] = call[d]
  BY Blank DEF CallsTyped, Return
<1>2. lock' = IF lock = c THEN NoCall ELSE lock  BY DEF Return
<1>3. \A d \in Calls : Locked(call'[d].method) <=> lock' = d
  BY <1>1, <1>2, Blank, CallAssumption DEF CallsTyped, CallsSound
<1> QED  BY <1>1, <1>2, <1>3, Blank DEF CallsTyped, CallsSound

\* A call that goes on keeps its method and hence the lock.
LEMMA Continues ==
  ASSUME CallsTyped, NEW c \in Calls, NEW r \in CallRecord, r.pc # "idle", SoundState(r.state),
         r.method = call[c].method, call' = [call EXCEPT ![c] = r], lock' = lock
  PROVE  /\ CallsTyped' /\ call'[c] = r
         /\ \A d \in Calls : d # c => call'[d] = call[d]
<1>1. call' \in [Calls -> CallRecord] /\ call'[c] = r /\ \A d \in Calls : d # c => call'[d] = call[d]
  BY DEF CallsTyped
<1> QED  BY <1>1 DEF CallsTyped, CallsSound

\* The file a call has written may mix with what others write; the call returns.
LEMMA Written ==
  ASSUME CallsTyped, NEW c \in Calls, WriteFile(c)
  PROVE  /\ CallsTyped' /\ call'[c] = NoCallState
         /\ \A d \in Calls : d # c => /\ call'[d].method = call[d].method
                                     /\ call'[d].pc = call[d].pc /\ call'[d].order = call[d].order
                                     /\ call'[d].issue = call[d].issue
                                     /\ call'[d].state = call[d].state
<1> DEFINE r(d) == [call[d] EXCEPT !.mixed = @ \/ call[d].pc = "writing"]
<1>1. call' = [d \in Calls |-> IF d = c THEN NoCallState ELSE r(d)]  BY DEF WriteFile
<1>2. lock' = IF lock = c THEN NoCall ELSE lock  BY DEF WriteFile
<1>3. \A d \in Calls : /\ r(d) \in CallRecord
                       /\ r(d).method = call[d].method /\ r(d).pc = call[d].pc
                       /\ r(d).order = call[d].order /\ r(d).issue = call[d].issue
                       /\ r(d).state = call[d].state
  BY DEF CallsTyped, CallRecord
<1>4. \A d \in Calls : call[d].pc = "idle" => r(d) = NoCallState
  <2> SUFFICES ASSUME NEW d \in Calls, call[d].pc = "idle" PROVE r(d) = NoCallState
    OBVIOUS
  <2>1. call[d] = NoCallState  BY DEF CallsTyped, CallsSound
  <2>2. (call[d].mixed \/ call[d].pc = "writing") = call[d].mixed
    <3>1. call[d].mixed = FALSE  BY <2>1 DEF NoCallState
    <3>2. call[d].pc # "writing"  OBVIOUS
    <3> QED  BY <3>1, <3>2, Zenon
  <2>3. r(d) = [call[d] EXCEPT !.mixed = call[d].mixed]  BY <2>2
  <2> HIDE DEF r
  <2>4. r(d) = call[d]  BY <2>3 DEF CallsTyped, CallRecord
  <2> QED  BY <2>1, <2>4
<1> HIDE DEF r
<1>5. /\ call' \in [Calls -> CallRecord] /\ call'[c] = NoCallState
      /\ \A d \in Calls : d # c => call'[d] = r(d)
  BY <1>1, <1>3, Blank
<1>6. \A d \in Calls : Locked(call'[d].method) <=> lock' = d
  BY <1>2, <1>3, <1>5, Blank, CallAssumption DEF CallsTyped, CallsSound
<1>7. CallsSound'  BY <1>3, <1>4, <1>5, <1>6, Blank DEF CallsTyped, CallsSound
<1>8. CallsTyped'  BY <1>2, <1>5, <1>7 DEF CallsTyped
<1> QED  BY <1>3, <1>5, <1>8

-----------------------------------------------------------------------------
(* The invariant is inductive *)

LEMMA ConfigTyped ==
  ASSUME config \in Configs
  PROVE  /\ config.methods \subseteq Methods
         /\ config.process \in [Calls -> Processes]
         /\ config.project \in [Calls -> Projects]
         /\ config.orders \in 0..MaxOrders
         /\ Active \subseteq Processes
BY CallAssumption DEF Active

\* A step of one process' memory, orders and their counter apart
PoolStep(p) ==
  /\ \E s : Sound(s) /\ OrdersKept(pool[p], s) /\ pool' = [pool EXCEPT ![p] = s]
  /\ UNCHANGED <<config, call, lock, orderFile, saved, torn>>

\* The synchronous methods but reset are such steps.
LEMMA SynchronousSteps ==
  ASSUME Inv, Next
  PROVE  \/ \E p \in Processes : PoolStep(p) \/ Reset(p) \/ Crash(p)
         \/ \E c \in Calls : CallStep(c)
<1>1. Active \subseteq Processes  BY ConfigTyped DEF Inv
<1>2. ASSUME NEW p \in Processes, NEW w \in Slots, WorkerStep(p, w)  PROVE PoolStep(p)
  <2>1. Sound(pool[p])  BY DEF Inv, PoolsSound
  <2>2. ASSUME NEW i \in Issues, AssignWork(p, w, i)  PROVE PoolStep(p)
    BY <2>1, <2>2, AssignSound DEF AssignWork, Update, PoolStep
  <2>3. ASSUME NEW id \in Orders, FailWork(p, w, id)  PROVE PoolStep(p)
    BY <2>1, <2>3, FailSound DEF FailWork, Update, PoolStep
  <2>4. ASSUME NEW id \in Orders, NEW b \in BOOLEAN, CompleteWork(p, w, id, b)  PROVE PoolStep(p)
    BY <2>1, <2>4, CompleteSound DEF CompleteWork, Update, PoolStep
  <2>5. ASSUME ReleaseWorker(p, w)  PROVE PoolStep(p)
    BY <2>1, <2>5, ReleaseSound DEF ReleaseWorker, Update, PoolStep
  <2>6. ASSUME MarkWorkerZombie(p, w)  PROVE PoolStep(p)
    BY <2>1, <2>6, ReleaseSound DEF MarkWorkerZombie, Update, PoolStep
  <2> QED  BY <1>2, <2>2, <2>3, <2>4, <2>5, <2>6 DEF WorkerStep
<1>3. ASSUME NEW p \in Processes, NEW i \in Issues,
             EnqueueIssue(p, i) \/ Dequeue(p, i) \/ ReassignTask(p, i)
      PROVE  PoolStep(p)
  <2>1. Sound(pool[p])  BY DEF Inv, PoolsSound
  <2> QED  BY <1>3, <2>1, QueueSound DEF EnqueueIssue, Dequeue, ReassignTask, Update, PoolStep
<1> QED  BY <1>1, <1>2, <1>3 DEF Next

LEMMA PoolReplaced ==
  ASSUME PoolsSound, NEW p \in Processes, NEW s, Sound(s), pool' = [pool EXCEPT ![p] = s]
  PROVE  PoolsSound'
BY DEF PoolsSound, Sound

LEMMA InitInv == ASSUME Init PROVE Inv
<1>1. Sound(NewPool) /\ SoundState(NoState)  BY NewPoolSound
<1>2. PoolsSound  BY <1>1 DEF Init, PoolsSound, Sound
<1>3. CallsTyped  BY Blank, CallAssumption DEF Init, CallsTyped, CallsSound
<1>4. FilesSound  BY <1>1 DEF Init, FilesSound
<1> QED  BY <1>2, <1>3, <1>4 DEF Init, Inv

LEMMA InvStep == ASSUME Inv, [Next]_vars PROVE Inv'
<1> USE DEF Inv
<1>1. CASE UNCHANGED vars
  BY <1>1 DEF vars, PoolsSound, CallsTyped, CallsSound, FilesSound
<1>2. ASSUME NEW p \in Processes, PoolStep(p)  PROVE Inv'
  <2>1. PoolsSound'  BY <1>2, PoolReplaced DEF PoolStep
  <2> QED  BY <1>2, <2>1 DEF PoolStep, CallsTyped, CallsSound, FilesSound
<1>3. ASSUME NEW p \in Processes, Reset(p)  PROVE Inv'
  <2>1. PoolsSound'  BY <1>3, PoolReplaced, NewPoolSound DEF Reset, Update
  <2> QED  BY <1>3, <2>1 DEF Reset, Update, CallsTyped, CallsSound, FilesSound
<1>4. ASSUME NEW p \in Processes, Crash(p)  PROVE Inv'
  <2>1. PoolsSound'  BY <1>4, PoolReplaced, NewPoolSound DEF Crash
  <2>2. /\ call' \in [Calls -> CallRecord]
        /\ \A c \in Calls : call'[c] = IF config.process[c] = p THEN NoCallState ELSE call[c]
    BY <1>4, Blank DEF Crash, CallsTyped
  <2>3. lock' = IF lock # NoCall /\ config.process[lock] = p THEN NoCall ELSE lock
    BY <1>4 DEF Crash
  <2>4. CallsSound'
    <3>1. \A c \in Calls : Locked(call'[c].method) <=> lock' = c
      BY <2>2, <2>3, Blank, CallAssumption DEF CallsTyped, CallsSound
    <3> QED  BY <2>2, <3>1, Blank DEF CallsTyped, CallsSound
  <2>5. CallsTyped'  BY <2>2, <2>3, <2>4 DEF CallsTyped
  <2> QED  BY <1>4, <2>1, <2>5 DEF Crash, FilesSound
<1>5. ASSUME NEW c \in Calls, CallStep(c)  PROVE Inv'
  <2> DEFINE p == config.process[c]
  <2>1. /\ p \in Processes /\ Sound(pool[p]) /\ call[c] \in CallRecord /\ MyPool(c) = pool[p]
        /\ MyProject(c) \in Projects
    BY ConfigTyped DEF PoolsSound, CallsTyped, MyPool, MyProject
  <2>2. ASSUME NEW m \in AsyncMethods, NEW i \in Issues, CreateWorkOrder(c, m, i)  PROVE Inv'
    <3> DEFINE id == MyPool(c).counter + 1
               r == [NoCallState EXCEPT !.method = m, !.pc = "creating", !.order = id, !.issue = i]
               s == [pool[p] EXCEPT !.counter = id, !.orders[id] = i]
    <3>1. id \in 1..MaxOrders
      <4>1. pool[p].counter \in 0..MaxOrders  BY <2>1 DEF Sound, Pool
      <4>2. id \in Orders  BY <2>1, <2>2, <4>1, ConfigTyped, PoolAssumption DEF CreateWorkOrder, Orders
      <4> QED  BY <4>2 DEF Orders
    <3>2. Begin(c, r)  BY <2>2 DEF CreateWorkOrder
    <3>3. pool' = [pool EXCEPT ![p] = s]  BY <2>1, <2>2 DEF CreateWorkOrder, PoolsSound, Pool
    <3> HIDE DEF id
    <3>4. r \in CallRecord /\ r.pc = "creating" /\ r.state = NoCallState.state /\ r.method = m
      <4>1. m \in Methods /\ id \in 0..MaxOrders /\ "creating" \in CallPCs
        BY <3>1 DEF Methods, CallPCs
      <4> QED  BY <4>1, Blank DEF CallRecord
    <3> HIDE DEF r
    <3>5. CallsTyped'  BY <3>4, <3>2, Begins, Blank
    <3>6. Sound(s)
      <4>1. pool[p] \in Pool /\ id \in 0..MaxOrders  BY <2>1, <3>1 DEF Sound
      <4>2. s.workers = pool[p].workers /\ s \in Pool  BY <4>1 DEF Pool
      <4> QED  BY <2>1, <4>2 DEF Sound
    <3>7. PoolsSound'  BY <2>1, <3>3, <3>6, PoolReplaced
    <3> QED  BY <2>2, <3>5, <3>7 DEF CreateWorkOrder, FilesSound
  <2>3. ASSUME WorkOrderCreated(c)  PROVE Inv'
    <3>1. CallsTyped'  BY <2>3, Returns DEF WorkOrderCreated
    <3> QED  BY <2>1, <2>3, <3>1 DEF WorkOrderCreated, FilesSound, PoolsSound, CallRecord
  <2>4. ASSUME CreateFails(c)  PROVE Inv'
    <3>1. CallsTyped'  BY <2>4, Returns DEF CreateFails
    <3>2. Sound(RolledBack(pool[p], call[c].order))
      BY <2>1, PoolAssumption DEF RolledBack, Sound, Pool
    <3>3. PoolsSound'  BY <2>1, <2>4, <3>2, PoolReplaced DEF CreateFails, PoolsSound
    <3> QED  BY <2>4, <3>1, <3>3 DEF CreateFails, FilesSound
  <2>5. ASSUME NEW m, SaveState(c, m)  PROVE Inv'
    <3> DEFINE r == [NoCallState EXCEPT !.method = m, !.pc = "saving", !.state = Snapshot(MyPool(c), MyProject(c))]
    <3>1. SoundState(Snapshot(MyPool(c), MyProject(c)))  BY <2>1, FileSound, Blank
    <3>2. r \in CallRecord /\ r.pc = "saving" /\ r.state = Snapshot(MyPool(c), MyProject(c))
      BY <2>5, <3>1, Blank DEF SaveState, CallRecord, CallPCs, Methods, AsyncMethods, SoundState
    <3>3. Begin(c, r)  BY <2>5 DEF SaveState
    <3> HIDE DEF r
    <3>4. CallsTyped'  BY <3>1, <3>2, <3>3, Begins
    <3> QED  BY <2>5, <3>4 DEF SaveState, FilesSound, PoolsSound
  <2>6. ASSUME OpenFile(c)  PROVE Inv'
    <3> DEFINE r == [call[c] EXCEPT !.pc = "writing"]
    <3>1. /\ r \in CallRecord /\ r.pc = "writing" /\ r.state = call[c].state
          /\ r.method = call[c].method
      BY <2>1 DEF CallRecord, CallPCs
    <3>2. call' = [call EXCEPT ![c] = r] /\ lock' = lock  BY <2>6 DEF OpenFile, CallsTyped
    <3> HIDE DEF r
    <3>3. CallsTyped'  BY <3>1, <3>2, Continues DEF CallsTyped, CallsSound
    <3> QED  BY <2>6, <3>3 DEF OpenFile, FilesSound, PoolsSound
  <2>7. ASSUME WriteFile(c)  PROVE Inv'
    <3>1. CallsTyped'  BY <2>7, Written
    <3>2. SoundState(saved')  BY <2>7 DEF WriteFile, CallsTyped, CallsSound
    <3> QED  BY <2>7, <3>1, <3>2 DEF WriteFile, FilesSound, PoolsSound
  <2>8. ASSUME NEW m, LoadState(c, m)  PROVE Inv'
    <3> DEFINE r == [NoCallState EXCEPT !.method = m, !.pc = "reading"]
    <3>1. r \in CallRecord /\ r.pc = "reading" /\ r.state = NoCallState.state
      BY <2>8, Blank DEF LoadState, CallRecord, CallPCs, Methods, AsyncMethods
    <3>2. Begin(c, r)  BY <2>8 DEF LoadState
    <3> HIDE DEF r
    <3>3. CallsTyped'  BY <3>1, <3>2, Begins, Blank
    <3> QED  BY <2>8, <3>3 DEF LoadState, FilesSound, PoolsSound
  <2>9. ASSUME SynchronizeFirst(c)  PROVE Inv'
    <3> DEFINE r == [NoCallState EXCEPT !.method = "synchronizeState", !.pc = "saving",
                                        !.state = Snapshot(MyPool(c), MyProject(c))]
    <3>1. SoundState(Snapshot(MyPool(c), MyProject(c)))  BY <2>1, FileSound, Blank
    <3>2. r \in CallRecord /\ r.pc = "saving" /\ r.state = Snapshot(MyPool(c), MyProject(c))
      BY <3>1, Blank DEF CallRecord, CallPCs, Methods, AsyncMethods, SoundState
    <3>3. Begin(c, r)  BY <2>9 DEF SynchronizeFirst
    <3> HIDE DEF r
    <3>4. CallsTyped'  BY <3>1, <3>2, <3>3, Begins
    <3> QED  BY <2>9, <3>4 DEF SynchronizeFirst, FilesSound, PoolsSound
  <2>10. ASSUME StateLoaded(c)  PROVE Inv'
    <3>1. SoundState(saved) /\ SoundState(Loaded(c))
      <4> HIDE DEF NoState
      <4> QED  BY NewPoolSound DEF FilesSound, Loaded
    <3>2. PoolsSound'
      <4>1. Sound(Restore(pool[p], saved))  BY <2>1, <3>1, FileSound
      <4>2. CASE saved.project = MyProject(c)
        BY <2>1, <2>10, <4>1, <4>2, PoolReplaced DEF StateLoaded, PoolsSound
      <4>3. CASE saved.project # MyProject(c)
        BY <2>10, <4>3 DEF StateLoaded, PoolsSound
      <4> QED  BY <4>2, <4>3
    <3>3. CASE call[c].method = "synchronizeState"
      <4> DEFINE r == [call[c] EXCEPT !.pc = "merging", !.state = Loaded(c)]
      <4>1. r \in CallRecord /\ r.pc = "merging" /\ r.state = Loaded(c) /\ r.method = call[c].method
        BY <2>1, <3>1 DEF CallRecord, CallPCs, SoundState
      <4>2. call' = [call EXCEPT ![c] = r] /\ lock' = lock
        BY <2>10, <3>3 DEF StateLoaded, CallsTyped
      <4> HIDE DEF r
      <4>3. CallsTyped'  BY <3>1, <4>1, <4>2, Continues
      <4> QED  BY <2>10, <3>2, <4>3 DEF StateLoaded, FilesSound
    <3>4. CASE call[c].method # "synchronizeState"
      <4>1. CallsTyped'  BY <2>10, <3>4, Returns DEF StateLoaded
      <4> QED  BY <2>10, <3>2, <4>1 DEF StateLoaded, FilesSound
    <3> QED  BY <3>3, <3>4
  <2>11. ASSUME MergeState(c)  PROVE Inv'
    <3> DEFINE s == Merge(MyPool(c), call[c].state)
               r == [call[c] EXCEPT !.pc = "saving", !.state = Snapshot(s, MyProject(c))]
    <3>1. SoundState(call[c].state)  BY DEF CallsTyped, CallsSound
    <3>2. Sound(s)  BY <2>1, <3>1, FileSound
    <3>3. SoundState(Snapshot(s, MyProject(c)))  BY <2>1, <3>1, <3>2, FileSound
    <3>4. PoolsSound'  BY <2>1, <2>11, <3>2, PoolReplaced DEF MergeState
    <3>5. /\ r \in CallRecord /\ r.pc = "saving" /\ r.state = Snapshot(s, MyProject(c))
          /\ r.method = call[c].method
      BY <2>1, <3>3 DEF CallRecord, CallPCs, SoundState
    <3>6. call' = [call EXCEPT ![c] = r] /\ lock' = lock  BY <2>11 DEF MergeState, CallsTyped
    <3> HIDE DEF r
    <3>7. CallsTyped'  BY <3>3, <3>5, <3>6, Continues
    <3> QED  BY <2>11, <3>4, <3>7 DEF MergeState, FilesSound
  <2>12. ASSUME FileFails(c)  PROVE Inv'
    <3>1. CallsTyped'  BY <2>12, Returns DEF FileFails
    <3> QED  BY <2>12, <3>1 DEF FileFails, FilesSound, PoolsSound
  <2> QED  BY <1>5, <2>2, <2>3, <2>4, <2>5, <2>6, <2>7, <2>8, <2>9, <2>10, <2>11, <2>12
             DEF CallStep
<1> QED  BY <1>1, <1>2, <1>3, <1>4, <1>5, SynchronousSteps

\* What TypeOK and WorkersConsistent say follows from it.
LEMMA InvImplies == ASSUME Inv PROVE TypeOK /\ WorkersConsistent
<1>1. TypeOK
  BY DEF Inv, PoolsSound, CallsTyped, CallsSound, CallRecord, FilesSound, SoundState, TypeOK
<1>2. WorkersConsistent
  BY DEF Inv, PoolsSound, FilesSound, Sound, SoundState, WorkersConsistent
<1> QED  BY <1>1, <1>2

LEMMA Invariant == Spec => []Inv
BY InitInv, InvStep, PTL DEF Spec

\* Every variable keeps its type, and the lock is always held by the one call that took it.
THEOREM TypeCorrect == Spec => []TypeOK
<1>1. Inv => TypeOK  BY InvImplies
<1> QED  BY <1>1, Invariant, PTL

\* In every process and in the state file idle workers have no issue and working ones have,
\* whatever is assigned, reassigned, completed late, marked, loaded, merged or lost in crashes.
THEOREM WorkersStayConsistent == Spec => []WorkersConsistent
<1>1. Inv => WorkersConsistent  BY InvImplies
<1> QED  BY <1>1, Invariant, PTL

-----------------------------------------------------------------------------
(* Work orders *)

Alone(p) == Active = {p} /\ "reset" \notin config.methods

\* The counter is past every order in memory, a creation in progress has its order there, for
\* itself, and the other orders are on file
OrdersTracked(p) ==
  /\ \A id \in Orders : pool[p].orders[id] # NoIssue => id <= pool[p].counter
  /\ \A c \in Calls : call[c].pc = "creating" =>
       /\ call[c].order \in Orders /\ call[c].issue \in Issues
       /\ pool[p].orders[call[c].order] = call[c].issue
  /\ \A c, d \in Calls :
       call[c].pc = "creating" /\ call[d].pc = "creating" /\ call[c].order = call[d].order => c = d
  /\ \A id \in Orders :
       pool[p].orders[id] # NoIssue /\ ~Pending(id) => orderFile[id] = pool[p].orders[id]

OrdersInv == \A p \in Processes : Alone(p) => OrdersTracked(p)

LEMMA AloneKept == ASSUME config' = config, NEW p PROVE Alone(p)' = Alone(p)
BY DEF Alone, Active

\* A step that keeps orders, counters, files and creations keeps OrdersInv.
LEMMA Quiet ==
  ASSUME OrdersInv, config' = config, orderFile' = orderFile,
         \A p \in Processes : OrdersKept(pool[p], pool'[p]),
         \A c \in Calls : /\ call'[c].pc = "creating" <=> call[c].pc = "creating"
                          /\ call[c].pc = "creating" =>
                               call'[c].order = call[c].order /\ call'[c].issue = call[c].issue
  PROVE  OrdersInv'
<1> SUFFICES ASSUME NEW p \in Processes, Alone(p)' PROVE OrdersTracked(p)'
  BY DEF OrdersInv
<1>1. OrdersTracked(p)  BY AloneKept DEF OrdersInv
<1>2. \A id \in Orders : Pending(id)' <=> Pending(id)  BY DEF Pending
<1> QED  BY <1>1, <1>2 DEF OrdersTracked, OrdersKept

LEMMA OrdersStep == ASSUME Inv, OrdersInv, [Next]_vars PROVE OrdersInv'
<1>1. CASE UNCHANGED vars  BY <1>1, Quiet DEF vars, OrdersKept
<1>2. ASSUME NEW p \in Processes, PoolStep(p)  PROVE OrdersInv'
  <2>1. \A q \in Processes : OrdersKept(pool[q], pool'[q])
    BY <1>2 DEF PoolStep, OrdersKept, Inv, PoolsSound
  <2> QED  BY <1>2, <2>1, Quiet DEF PoolStep
<1>3. ASSUME NEW p \in Processes, Reset(p)  PROVE OrdersInv'
  BY <1>3, AloneKept DEF Reset, Update, Alone, OrdersInv
<1>4. ASSUME NEW q \in Processes, Crash(q)  PROVE OrdersInv'
  <2> SUFFICES ASSUME NEW p \in Processes, Alone(p)' PROVE OrdersTracked(p)'
    BY DEF OrdersInv
  <2>1. Alone(p) /\ OrdersTracked(p)  BY <1>4, AloneKept DEF Crash, OrdersInv
  <2>2. \A c \in Calls : config.process[c] = p  BY <2>1 DEF Alone, Active
  <2>3. CASE q = p
    <3>1. pool'[p] = NewPool /\ \A c \in Calls : call'[c] = NoCallState
      BY <1>4, <2>2, <2>3 DEF Crash, Inv, PoolsSound
    <3> QED  BY <3>1 DEF OrdersTracked, NewPool, NoCallState
  <2>4. CASE q # p
    <3>1. pool'[p] = pool[p] /\ \A c \in Calls : call'[c] = call[c]
      BY <1>4, <2>2, <2>4 DEF Crash, Inv, PoolsSound
    <3>2. \A id \in Orders : Pending(id)' <=> Pending(id)  BY <3>1 DEF Pending
    <3> QED  BY <1>4, <2>1, <3>1, <3>2 DEF Crash, OrdersTracked
  <2> QED  BY <2>3, <2>4
<1>5. ASSUME NEW c \in Calls, CallStep(c)  PROVE OrdersInv'
  <2> USE DEF Inv
  <2> DEFINE q == config.process[c]
  <2>1. q \in Processes /\ Sound(pool[q]) /\ MyPool(c) = pool[q] /\ q \in Active
    BY ConfigTyped DEF PoolsSound, MyPool, Active
  <2>2. ASSUME NEW m \in AsyncMethods, NEW i \in Issues, CreateWorkOrder(c, m, i)  PROVE OrdersInv'
    <3> SUFFICES ASSUME NEW p \in Processes, Alone(p)' PROVE OrdersTracked(p)'
      BY DEF OrdersInv
    <3>1. Alone(p) /\ OrdersTracked(p)  BY <2>2, AloneKept DEF CreateWorkOrder, OrdersInv
    <3>2. q = p  BY <2>1, <3>1 DEF Alone
    <3> DEFINE id == pool[p].counter + 1
    <3>3. id \in Orders /\ pool[p].orders[id] = NoIssue /\ pool[p].counter \in Nat
      <4>1. pool[p].counter \in 0..MaxOrders /\ id <= config.orders
        BY <2>1, <2>2, <3>2 DEF CreateWorkOrder, Sound, Pool
      <4>2. id \in Orders  BY <4>1, ConfigTyped, PoolAssumption DEF Orders
      <4>3. ~(id <= pool[p].counter)  BY <4>1
      <4> QED  BY <3>1, <4>1, <4>2, <4>3 DEF OrdersTracked
    <3>4. /\ pool'[p].counter = id /\ pool'[p].orders = [pool[p].orders EXCEPT ![id] = i]
          /\ pool[p].orders \in [Orders -> Issues \cup {NoIssue}]
      BY <2>1, <2>2, <3>2 DEF CreateWorkOrder, PoolsSound, Sound, Pool
    <3>5. /\ call[c].pc = "idle"
          /\ call'[c].pc = "creating" /\ call'[c].order = id /\ call'[c].issue = i
          /\ \A d \in Calls : d # c => call'[d] = call[d]
      <4> DEFINE r == [NoCallState EXCEPT !.method = m, !.pc = "creating", !.order = id, !.issue = i]
      <4>1. Begin(c, r)  BY <2>1, <2>2, <3>2 DEF CreateWorkOrder
      <4>2. r.pc = "creating" /\ r.order = id /\ r.issue = i  BY DEF NoCallState
      <4> HIDE DEF r
      <4> QED  BY <4>1, <4>2 DEF Begin, CallsTyped
    <3> HIDE DEF id
    <3>6. \A d \in Calls : call[d].pc = "creating" => call[d].order # id
      BY <3>1, <3>3, PoolAssumption DEF OrdersTracked
    <3>7. \A k \in Orders : pool'[p].orders[k] # NoIssue => k <= pool'[p].counter
      BY <3>1, <3>3, <3>4 DEF OrdersTracked, Orders, id
    <3>8. \A k \in Orders : Pending(k)' <=> Pending(k) \/ k = id
      BY <3>5 DEF Pending
    <3>9. orderFile' = orderFile  BY <2>2 DEF CreateWorkOrder
    <3> QED  BY <3>1, <3>3, <3>4, <3>5, <3>6, <3>7, <3>8, <3>9 DEF OrdersTracked
  <2>3. ASSUME WorkOrderCreated(c)  PROVE OrdersInv'
    <3> SUFFICES ASSUME NEW p \in Processes, Alone(p)' PROVE OrdersTracked(p)'
      BY DEF OrdersInv
    <3>1. OrdersTracked(p)  BY <2>3, AloneKept DEF WorkOrderCreated, OrdersInv
    <3>2. call'[c].pc = "idle" /\ \A d \in Calls : d # c => call'[d] = call[d]
      BY <2>3, Returns DEF WorkOrderCreated, NoCallState
    <3>3. \A k \in Orders : k # call[c].order => (Pending(k)' <=> Pending(k))
      BY <3>2 DEF Pending
    <3>4. /\ orderFile' = [orderFile EXCEPT ![call[c].order] = call[c].issue]
          /\ call[c].pc = "creating" /\ pool' = pool
      BY <2>3 DEF WorkOrderCreated
    <3> QED  BY <3>1, <3>2, <3>3, <3>4 DEF OrdersTracked, FilesSound
  <2>4. ASSUME CreateFails(c)  PROVE OrdersInv'
    <3> SUFFICES ASSUME NEW p \in Processes, Alone(p)' PROVE OrdersTracked(p)'
      BY DEF OrdersInv
    <3>1. Alone(p) /\ OrdersTracked(p)  BY <2>4, AloneKept DEF CreateFails, OrdersInv
    <3>2. q = p  BY <2>1, <3>1 DEF Alone
    <3>3. call'[c].pc = "idle" /\ \A d \in Calls : d # c => call'[d] = call[d]
      BY <2>4, Returns DEF CreateFails, NoCallState
    <3>4. \A k \in Orders : k # call[c].order => (Pending(k)' <=> Pending(k))
      BY <3>3 DEF Pending
    <3>5. call[c].pc = "creating" /\ orderFile' = orderFile  BY <2>4 DEF CreateFails
    <3>6. /\ pool'[p].counter = pool[p].counter
          /\ pool'[p].orders = [pool[p].orders EXCEPT ![call[c].order] = NoIssue]
          /\ pool[p].orders \in [Orders -> Issues \cup {NoIssue}]
      BY <2>1, <2>4, <3>2 DEF CreateFails, RolledBack, PoolsSound, Sound, Pool
    <3> QED  BY <3>1, <3>3, <3>4, <3>5, <3>6 DEF OrdersTracked
  <2>5. ASSUME NEW m, SaveState(c, m) \/ LoadState(c, m) \/ SynchronizeFirst(c)  PROVE OrdersInv'
    <3>1. /\ call[c].pc = "idle" /\ call'[c].pc # "creating"
          /\ \A d \in Calls : d # c => call'[d] = call[d]
      BY <2>5 DEF SaveState, LoadState, SynchronizeFirst, Begin, CallsTyped, NoCallState
    <3>2. UNCHANGED <<config, pool, orderFile>>  BY <2>5 DEF SaveState, LoadState, SynchronizeFirst
    <3> QED  BY <3>1, <3>2, Quiet DEF OrdersKept
  <2>6. ASSUME OpenFile(c) \/ FileFails(c)  PROVE OrdersInv'
    <3>1. /\ call[c].pc # "creating" /\ call'[c].pc # "creating"
          /\ \A d \in Calls : d # c => call'[d] = call[d]
      BY <2>6 DEF OpenFile, FileFails, Return, CallsTyped, CallRecord, NoCallState
    <3>2. UNCHANGED <<config, pool, orderFile>>  BY <2>6 DEF OpenFile, FileFails
    <3> QED  BY <3>1, <3>2, Quiet DEF OrdersKept
  <2>7. ASSUME WriteFile(c)  PROVE OrdersInv'
    <3>1. call[c].pc # "creating" /\ call'[c].pc # "creating"
      BY <2>7, Written DEF WriteFile, NoCallState
    <3>2. UNCHANGED <<config, pool, orderFile>>  BY <2>7 DEF WriteFile
    <3> QED  BY <2>7, <3>1, <3>2, Written, Quiet DEF OrdersKept
  <2>8. ASSUME StateLoaded(c)  PROVE OrdersInv'
    <3>1. /\ call[c].pc # "creating" /\ call'[c].pc # "creating"
          /\ \A d \in Calls : d # c => call'[d] = call[d]
      BY <2>8 DEF StateLoaded, Return, CallsTyped, CallRecord, NoCallState
    <3>2. \A p \in Processes : OrdersKept(pool[p], pool'[p])
      <4>1. CASE saved.project = MyProject(c)
        <5>1. pool' = [pool EXCEPT ![q] = Restore(pool[q], saved)]
          BY <2>8, <4>1 DEF StateLoaded
        <5>2. OrdersKept(pool[q], Restore(pool[q], saved))
          BY <2>1, ConfigTyped, FileSound DEF PoolsSound, FilesSound
        <5> QED  BY <2>1, <5>1, <5>2 DEF OrdersKept, PoolsSound
      <4>2. CASE saved.project # MyProject(c)
        BY <2>8, <4>2 DEF StateLoaded, OrdersKept
      <4> QED  BY <4>1, <4>2
    <3> QED  BY <2>8, <3>1, <3>2, Quiet DEF StateLoaded
  <2>9. ASSUME MergeState(c)  PROVE OrdersInv'
    <3>1. /\ call[c].pc # "creating" /\ call'[c].pc # "creating"
          /\ \A d \in Calls : d # c => call'[d] = call[d]
      BY <2>9 DEF MergeState, CallsTyped, CallRecord
    <3>2. \A p \in Processes : OrdersKept(pool[p], pool'[p])
      BY <2>1, <2>9 DEF MergeState, Merge, OrdersKept, PoolsSound, Pool
    <3> QED  BY <2>9, <3>1, <3>2, Quiet DEF MergeState
  <2> QED  BY <1>5, <2>2, <2>3, <2>4, <2>5, <2>6, <2>7, <2>8, <2>9 DEF CallStep
<1> QED  BY <1>1, <1>2, <1>3, <1>4, <1>5, SynchronousSteps

\* A process that has the directory for itself and never resets keeps its work orders in memory
\* and on file equal, whatever creations fail or overlap and whenever it crashes.
THEOREM OrdersStayOnFile == Spec => []OrderOnFile
<1>1. Init => OrdersInv
  BY DEF Init, OrdersInv, OrdersTracked, NewPool, NoCallState
<1>2. ASSUME Inv, OrdersInv  PROVE OrderOnFile
  BY <1>2, ConfigTyped DEF Inv, OrdersInv, Alone, OrdersTracked, OrderOnFile, OneProcess
<1> QED  BY <1>1, <1>2, OrdersStep, Invariant, PTL DEF Spec

-----------------------------------------------------------------------------
(* Results in the state file *)

\* The pool is only persisted by synchronizeState
OnlySynchronized == config.methods \cap {"saveState", "saveStateWithLock"} = {}

\* A synchronizing call for project j, past loading the file f: it holds the results of f
\* if f is of that project
Synchronizes(r, j, f) ==
  /\ r.method = "synchronizeState"
  /\ r.pc # "merging" => r.state.project = j
  /\ f.project = j => f.completed \subseteq r.state.completed /\ f.failed \subseteq r.state.failed

HasLoaded == {"merging", "saving", "writing"}

\* What a call is to write holds the results of the file
SharedInv ==
  OnlySynchronized =>
    \A c \in Calls : call[c].pc \in HasLoaded => Synchronizes(call[c], MyProject(c), saved)

\* A step that does not write the file, and takes a call no further than it may, keeps this.
LEMMA SharedKept ==
  ASSUME SharedInv, config' = config, saved' = saved,
         \A d \in Calls : \/ call'[d] = call[d]
                          \/ call'[d].pc \notin HasLoaded
                          \/ OnlySynchronized => Synchronizes(call'[d], MyProject(d), saved)
  PROVE  SharedInv'
BY DEF SharedInv, OnlySynchronized, MyProject

LEMMA SharedStep ==
  ASSUME Inv, SharedInv, [Next]_vars
  PROVE  /\ SharedInv'
         /\ OnlySynchronized /\ saved'.project = saved.project
            => /\ saved.completed \subseteq saved'.completed
               /\ saved.failed \subseteq saved'.failed
<1>1. CASE UNCHANGED vars  BY <1>1, SharedKept DEF vars
<1>2. ASSUME NEW p \in Processes, PoolStep(p) \/ Reset(p)
      PROVE  SharedInv' /\ saved' = saved
  BY <1>2, SharedKept DEF PoolStep, Reset, Update
<1>3. ASSUME NEW p \in Processes, Crash(p)  PROVE SharedInv' /\ saved' = saved
  <2>1. \A d \in Calls : call'[d] = call[d] \/ call'[d].pc \notin HasLoaded
    BY <1>3 DEF Crash, NoCallState, HasLoaded
  <2> QED  BY <1>3, <2>1, SharedKept DEF Crash
<1>4. ASSUME NEW c \in Calls, CallStep(c), ~WriteFile(c)  PROVE SharedInv' /\ saved' = saved
  <2> USE DEF Inv
  <2> DEFINE q == config.process[c]
  <2>1. /\ q \in Processes /\ Sound(pool[q]) /\ MyPool(c) = pool[q] /\ call[c] \in CallRecord
        /\ MyProject(c) \in Projects
    BY ConfigTyped DEF PoolsSound, MyPool, CallsTyped, MyProject
  <2>2. ASSUME NEW m \in AsyncMethods, NEW i \in Issues, CreateWorkOrder(c, m, i)
        PROVE  SharedInv' /\ saved' = saved
    <3>1. \A d \in Calls : call'[d] = call[d] \/ call'[d].pc \notin HasLoaded
      BY <2>2 DEF CreateWorkOrder, Begin, CallsTyped, NoCallState, HasLoaded
    <3> QED  BY <2>2, <3>1, SharedKept DEF CreateWorkOrder
  <2>3. ASSUME NEW m, LoadState(c, m)  PROVE SharedInv' /\ saved' = saved
    <3>1. \A d \in Calls : call'[d] = call[d] \/ call'[d].pc \notin HasLoaded
      BY <2>3 DEF LoadState, Begin, CallsTyped, NoCallState, HasLoaded
    <3> QED  BY <2>3, <3>1, SharedKept DEF LoadState
  <2>4. ASSUME WorkOrderCreated(c) \/ CreateFails(c) \/ FileFails(c)
        PROVE  SharedInv' /\ saved' = saved
    <3>1. Return(c) /\ UNCHANGED <<config, saved>>
      BY <2>4 DEF WorkOrderCreated, CreateFails, FileFails
    <3>2. \A d \in Calls : call'[d] = call[d] \/ call'[d].pc \notin HasLoaded
      BY <3>1, Returns DEF NoCallState, HasLoaded
    <3> QED  BY <3>1, <3>2, SharedKept
  <2>5. ASSUME NEW m, SaveState(c, m)  PROVE SharedInv' /\ saved' = saved
    <3>1. m \in config.methods  BY <2>5 DEF SaveState, Begin, NoCallState
    <3>2. ~OnlySynchronized  BY <2>5, <3>1 DEF SaveState, OnlySynchronized
    <3> QED  BY <2>5, <3>2 DEF SaveState, SharedInv, OnlySynchronized
  <2>6. ASSUME SynchronizeFirst(c)  PROVE SharedInv' /\ saved' = saved
    <3> DEFINE f == Snapshot(MyPool(c), MyProject(c))
               r == [NoCallState EXCEPT !.method = "synchronizeState", !.pc = "saving", !.state = f]
    <3>1. Begin(c, r) /\ saved.project \notin Projects
      BY <2>6, CallAssumption DEF SynchronizeFirst, NoState, Snapshot
    <3>2. f.project = MyProject(c)  BY DEF Snapshot
    <3>3. r.method = "synchronizeState" /\ r.state = f  BY DEF NoCallState
    <3> HIDE DEF f, r
    <3>4. Synchronizes(r, MyProject(c), saved)
      BY <2>1, <3>1, <3>2, <3>3 DEF Synchronizes
    <3>5. call'[c] = r /\ \A d \in Calls : d # c => call'[d] = call[d]
      BY <3>1 DEF Begin, CallsTyped
    <3> QED  BY <2>6, <3>4, <3>5, SharedKept DEF SynchronizeFirst
  <2>7. ASSUME OpenFile(c)  PROVE SharedInv' /\ saved' = saved
    <3>1. /\ call'[c] = [call[c] EXCEPT !.pc = "writing"]
          /\ \A d \in Calls : d # c => call'[d] = call[d]
      BY <2>7 DEF OpenFile, CallsTyped
    <3>2. OnlySynchronized => Synchronizes(call[c], MyProject(c), saved)
      BY <2>7 DEF OpenFile, SharedInv, HasLoaded
    <3>3. OnlySynchronized => Synchronizes(call'[c], MyProject(c), saved)
      BY <2>1, <2>7, <3>1, <3>2 DEF OpenFile, Synchronizes, CallRecord
    <3> QED  BY <2>7, <3>1, <3>3, SharedKept DEF OpenFile
  <2>8. ASSUME StateLoaded(c)  PROVE SharedInv' /\ saved' = saved
    <3>1. \A d \in Calls : d # c => call'[d] = call[d]
      BY <2>8 DEF StateLoaded, Return, CallsTyped
    <3>2. CASE call[c].method = "synchronizeState"
      <4>1. call'[c] = [call[c] EXCEPT !.pc = "merging", !.state = Loaded(c)]
        BY <2>8, <3>2 DEF StateLoaded, CallsTyped
      <4>2. Synchronizes(call'[c], MyProject(c), saved)
        BY <2>1, <3>2, <4>1 DEF Synchronizes, CallRecord, Loaded
      <4> QED  BY <2>8, <3>1, <4>2, SharedKept DEF StateLoaded
    <3>3. CASE call[c].method # "synchronizeState"
      <4>1. call'[c].pc \notin HasLoaded
        BY <2>8, <3>3, Returns DEF StateLoaded, NoCallState, HasLoaded
      <4> QED  BY <2>8, <3>1, <4>1, SharedKept DEF StateLoaded
    <3> QED  BY <3>2, <3>3
  <2>9. ASSUME MergeState(c)  PROVE SharedInv' /\ saved' = saved
    <3> DEFINE f == call[c].state
               g == Snapshot(Merge(MyPool(c), f), MyProject(c))
    <3>1. /\ call'[c] = [call[c] EXCEPT !.pc = "saving", !.state = g]
          /\ \A d \in Calls : d # c => call'[d] = call[d]
      BY <2>9 DEF MergeState, CallsTyped
    <3>2. g.project = MyProject(c) /\ f.completed \subseteq g.completed /\ f.failed \subseteq g.failed
      <4>1. SoundState(f)  BY DEF CallsTyped, CallsSound
      <4>2. Sound(Merge(MyPool(c), f))  BY <2>1, <4>1, FileSound
      <4>3. f.completed \subseteq g.completed /\ f.failed \subseteq g.failed
        BY <2>1, <4>1, FileSound
      <4> QED  BY <2>1, <4>1, <4>2, <4>3, FileSound
    <3>3. OnlySynchronized => Synchronizes(call[c], MyProject(c), saved)
      BY <2>9 DEF MergeState, SharedInv, HasLoaded
    <3> HIDE DEF g
    <3>4. OnlySynchronized => Synchronizes(call'[c], MyProject(c), saved)
      BY <2>1, <3>1, <3>2, <3>3 DEF Synchronizes, CallRecord
    <3> QED  BY <2>9, <3>1, <3>4, SharedKept DEF MergeState
  <2> QED  BY <1>4, <2>2, <2>3, <2>4, <2>5, <2>6, <2>7, <2>8, <2>9 DEF CallStep
<1>5. ASSUME NEW c \in Calls, WriteFile(c)
      PROVE  /\ SharedInv'
             /\ OnlySynchronized /\ saved'.project = saved.project
                => /\ saved.completed \subseteq saved'.completed
                   /\ saved.failed \subseteq saved'.failed
  <2>1. config' = config /\ saved' = call[c].state /\ call[c].pc = "writing"
    BY <1>5 DEF WriteFile
  <2>2. OnlySynchronized <=> OnlySynchronized'  BY <2>1 DEF OnlySynchronized
  <2>3. CASE ~OnlySynchronized  BY <2>2, <2>3 DEF SharedInv
  <2>4. CASE OnlySynchronized
    <3>1. Synchronizes(call[c], MyProject(c), saved)  BY <2>1, <2>4 DEF SharedInv, HasLoaded
    <3>2. lock = c  BY <3>1 DEF Synchronizes, Locked, Inv, CallsTyped, CallsSound
    <3>3. \A d \in Calls : d # c => call[d].pc \notin HasLoaded
      BY <2>4, <3>2 DEF SharedInv, Synchronizes, Locked, Inv, CallsTyped, CallsSound
    <3>4. \A d \in Calls : call'[d].pc \notin HasLoaded
      BY <1>5, <3>3, Written DEF Inv, NoCallState, HasLoaded
    <3>5. saved'.project = MyProject(c)  BY <2>1, <3>1 DEF Synchronizes
    <3>6. saved'.project = saved.project
          => saved.completed \subseteq saved'.completed /\ saved.failed \subseteq saved'.failed
      BY <2>1, <3>1, <3>5 DEF Synchronizes
    <3> QED  BY <3>4, <3>6 DEF SharedInv
  <2> QED  BY <2>3, <2>4
<1> QED  BY <1>1, <1>2, <1>3, <1>4, <1>5, SynchronousSteps DEF vars

\* Processes that persist their pool only by synchronizeState never remove a result of a project
\* from its state file, until a call for another project overwrites it: what one of them is about
\* to write contains the file it loaded under the lock, if that was of its project, and nobody
\* else can have written since.
THEOREM SharedResultsStay == Spec => SharedResultsKept
<1>1. Init => SharedInv
  BY DEF Init, NoCallState, HasLoaded, SharedInv
<1>2. ASSUME Inv, SharedInv, [Next]_vars
      PROVE  [/\ config.methods \cap {"saveState", "saveStateWithLock"} = {}
              /\ saved'.project = saved.project
              => /\ saved.completed \subseteq saved'.completed
                 /\ saved.failed \subseteq saved'.failed]_vars
  BY <1>2, SharedStep DEF OnlySynchronized
<1> QED  BY <1>1, <1>2, SharedStep, Invariant, PTL DEF Spec, SharedResultsKept
-----------------------------------------------------------------------------
(***************************************************************************)
(* The handler that looks after the pool's stuck workers, of which this    *)
(* module has an instance: its workers, checks and configurations are its  *)
(* own, and HandlerAssumption says of them what StuckAssumption does.      *)
(***************************************************************************)
CONSTANTS Workers, Checks, Warning, Stuck, Critical, MaxAttempts, MaxLag, HandlerConfigs

VARIABLES handlerConfig, task, object, tracked, check, manual

S == INSTANCE StuckWorkerHandler WITH Configs <- HandlerConfigs, config <- handlerConfig

HandlerAssumption ==
  /\ Warning \in Nat /\ Stuck \in Nat /\ Critical \in Nat
  /\ 0 < Warning /\ Warning < Stuck /\ Stuck < Critical
  /\ MaxAttempts \in Nat /\ MaxLag \in Nat
  /\ IsFiniteSet(Workers) /\ IsFiniteSet(Checks)
  /\ HandlerConfigs \subseteq [workers : SUBSET Workers, checks : SUBSET Checks,
                              handlers : SUBSET S!Handlers,
                              failing : SUBSET (S!Handlers \cup S!HandOvers),
                              ending : SUBSET Workers]

\* What the handler tracks of a worker
StateType == [age : S!Ages, last : S!Levels, attempts : 0..MaxAttempts]

\* A check refers to an object, and to a worker, while it waits
WaitsForObject(c) ==
  /\ IF c.pc \in {"off", "next", "thrown"} THEN c.ref = S!NoObject
     ELSE c.ref \in S!Objects /\ c.worker \in Workers
  /\ c.pc = "acting" => c.action \in S!Handlers

\* A worker is tracked by one of its own references
OwnObject(tr) == \A w \in Workers : tr[w] # S!NoObject => tr[w][1] = w

\* The tracked states are exactly those that a worker or a waiting check refers to
StuckInv ==
  /\ S!TypeOK
  /\ DOMAIN object = S!References(tracked, check)
  /\ OwnObject(tracked)
  /\ \A k \in Checks : WaitsForObject(check[k])

-----------------------------------------------------------------------------
\* The instance has its own name for Cardinality
LEMMA SameCardinality == S!Cardinality(Checks) = Cardinality(Checks)
BY DEF S!Cardinality, Cardinality

\* No reference is taken for the missing one
LEMMA ReferencesArePairs == \A r \in S!Objects : r # S!NoObject
<1> SUFFICES ASSUME NEW r \in S!Objects PROVE r # S!NoObject
  OBVIOUS
<1>1. PICK w \in Workers, n \in 0..Cardinality(Checks) : r = <<w, n>>
  BY SameCardinality DEF S!Objects
<1>2. <<w, n>> # <<>>
  OBVIOUS
<1> QED
  BY <1>1, <1>2 DEF S!NoObject

\* The thresholds and bounds, and zero within each range
LEMMA StuckNumbers ==
  HandlerAssumption =>
    /\ S!Cap \in Nat /\ S!Cap >= Critical /\ S!NoTask = S!Cap + 1 /\ MaxLag \in Nat /\ MaxAttempts \in Nat
    /\ Warning \in Nat /\ Stuck \in Nat /\ Critical \in Nat
    /\ 0 < Warning /\ Warning < Stuck /\ Stuck < Critical
    /\ 0 \in S!Ages /\ 0 \in 0..MaxLag /\ 0 \in 0..MaxAttempts
BY DEF HandlerAssumption, S!Cap, S!NoTask, S!Ages

\* An age stays within its cap, and the level and the action chosen from it are of their kinds
LEMMA OlderType == HandlerAssumption => \A age \in S!Ages : S!Older(age) \in S!Ages
BY StuckNumbers DEF S!Older, S!Ages

LEMMA LevelType ==
  HandlerAssumption => \A age \in S!Ages, lag \in 0..MaxLag : S!LevelOf(age, lag) \in S!Levels
BY StuckNumbers DEF S!LevelOf, S!Levels, S!Ages

LEMMA ActionType ==
  ASSUME NEW level, NEW n PROVE S!ActionFor(level, n) \in S!Actions
BY DEF S!ActionFor, S!Actions, S!Handlers

\* Checks: none, one that has looked at a worker, one that goes on
LEMMA OffType ==
  HandlerAssumption =>
    S!Off \in S!CheckType /\ WaitsForObject(S!Off) /\ S!Off.ref = S!NoObject /\ S!Off.pc = "off"
<1> SUFFICES ASSUME HandlerAssumption
             PROVE  S!Off \in S!CheckType /\ WaitsForObject(S!Off) /\ S!Off.ref = S!NoObject /\ S!Off.pc = "off"
  OBVIOUS
<1>1. [w \in Workers |-> S!NoTask] \in [Workers -> S!Ages \cup {S!NoTask}]
  OBVIOUS
<1> QED
  BY <1>1, StuckNumbers DEF S!Off, S!CheckType, WaitsForObject, S!Levels, S!Actions

LEMMA ThrownType ==
  HandlerAssumption => S!Thrown \in S!CheckType /\ WaitsForObject(S!Thrown) /\ S!Thrown.ref = S!NoObject
<1> SUFFICES ASSUME HandlerAssumption
             PROVE  S!Thrown \in S!CheckType /\ WaitsForObject(S!Thrown) /\ S!Thrown.ref = S!NoObject
  OBVIOUS
<1>1. S!Off \in S!CheckType /\ S!Off.ref = S!NoObject
  BY OffType
<1>2. S!Thrown \in S!CheckType /\ S!Thrown.pc = "thrown" /\ S!Thrown.ref = S!Off.ref
  BY <1>1 DEF S!Thrown, S!CheckType
<1> QED
  BY <1>1, <1>2 DEF WaitsForObject

LEMMA TakenType ==
  ASSUME NEW c \in S!CheckType, NEW w \in Workers
  PROVE  /\ S!Taken(c, w) \in S!CheckType
         /\ S!Taken(c, w).pc = c.pc /\ S!Taken(c, w).ref = c.ref /\ S!Taken(c, w).worker = c.worker
         /\ S!Taken(c, w).action = c.action
BY DEF S!Taken, S!CheckType

LEMMA ContinueType ==
  ASSUME NEW c \in S!CheckType
  PROVE  S!Continue(c) \in S!CheckType /\ WaitsForObject(S!Continue(c)) /\ S!Continue(c).ref = S!NoObject
BY DEF S!Continue, S!CheckType, WaitsForObject, S!Levels, S!Actions

\* What StuckInv says of each variable; nobody refers to a state that is gone
LEMMA StuckParts ==
  ASSUME HandlerAssumption, StuckInv
  PROVE  /\ object \in [DOMAIN object -> StateType] /\ DOMAIN object \subseteq S!Objects
         /\ tracked \in [Workers -> S!Objects \cup {S!NoObject}]
         /\ check \in [Checks -> S!CheckType]
         /\ \A w \in Workers : tracked[w] # S!NoObject => tracked[w] \in DOMAIN object
         /\ \A k \in Checks : check[k].ref # S!NoObject => check[k].ref \in DOMAIN object
BY DEF StuckInv, S!TypeOK, StateType, S!References

\* A worker that is not tracked has a reference that is free: only checks refer to objects
\* that were its.
LEMMA FreeReference ==
  ASSUME HandlerAssumption, StuckInv, NEW w \in Workers, tracked[w] = S!NoObject
  PROVE  \E r \in {w} \X (0..Cardinality(Checks)) : r \notin DOMAIN object
<1> SUFFICES ASSUME \A n \in 0..Cardinality(Checks) : <<w, n>> \in DOMAIN object PROVE FALSE
  OBVIOUS
<1> DEFINE N == Cardinality(Checks)
           f == [n \in 0..N |-> CHOOSE k \in Checks : check[k].ref = <<w, n>>]
<1>1. N \in Nat /\ IsFiniteSet(Checks)
  BY FS_CardinalityType DEF HandlerAssumption
<1>2. ASSUME NEW n \in 0..N PROVE \E k \in Checks : check[k].ref = <<w, n>>
  <2>1. <<w, n>> \in S!References(tracked, check) /\ <<w, n>>[1] = w
    BY DEF StuckInv
  <2>2. ASSUME NEW v \in Workers, tracked[v] = <<w, n>> PROVE FALSE
    <3>1. tracked[v] # S!NoObject
      BY <2>1, <2>2 DEF S!References
    <3>2. v = w
      BY <2>1, <2>2, <3>1 DEF StuckInv, OwnObject
    <3> QED
      BY <3>1, <3>2
  <2> QED
    BY <2>1, <2>2 DEF S!References
<1>3. \A n \in 0..N : f[n] \in Checks /\ check[f[n]].ref = <<w, n>>
  BY <1>2
<1>4. f \in [0..N -> Checks]
  BY <1>3
<1>5. IsFiniteSet(0..N) /\ Cardinality(0..N) = N + 1
  BY <1>1, FS_Interval
<1>6. Cardinality(Checks) < Cardinality(0..N)
  BY <1>1, <1>5
<1> HIDE DEF f
<1>7. PICK m \in 0..N, n \in 0..N : m # n /\ f[m] = f[n]
  BY <1>1, <1>4, <1>5, <1>6, FS_PigeonHole
<1>8. <<w, m>> = <<w, n>>
  BY <1>3, <1>7
<1> QED
  BY <1>7, <1>8

-----------------------------------------------------------------------------
\* What a step of one check does
LEMMA OneCheckRefers ==
  ASSUME HandlerAssumption, StuckInv, NEW k \in Checks, NEW c \in S!CheckType, WaitsForObject(c),
         NEW tr \in [Workers -> S!Objects \cup {S!NoObject}], OwnObject(tr),
         NEW ob, DOMAIN object \subseteq DOMAIN ob, ob \in [DOMAIN ob -> StateType],
         \A w \in Workers : tr[w] = S!NoObject \/ tr[w] = tracked[w] \/ tr[w] \in DOMAIN ob,
         c.ref # S!NoObject => c.ref \in DOMAIN ob,
         S!Refer(tr, [check EXCEPT ![k] = c], ob),
         handlerConfig' = handlerConfig, task' = task, manual' \subseteq Workers
  PROVE  StuckInv'
<1> DEFINE ch == [check EXCEPT ![k] = c]
<1>1. /\ check \in [Checks -> S!CheckType] /\ tracked \in [Workers -> S!Objects \cup {S!NoObject}]
      /\ \A w \in Workers : tracked[w] # S!NoObject => tracked[w] \in DOMAIN ob
      /\ \A j \in Checks : check[j].ref # S!NoObject => check[j].ref \in DOMAIN ob
  BY StuckParts
<1>2. /\ ch \in [Checks -> S!CheckType] /\ ch[k] = c
      /\ \A j \in Checks : j # k => ch[j] = check[j]
  BY <1>1
<1>3. \A j \in Checks : WaitsForObject(ch[j])
  BY <1>2 DEF StuckInv
<1>4. S!References(tr, ch) \subseteq DOMAIN ob
  BY <1>1, <1>2 DEF S!References
<1>5. S!References(tr, ch) \subseteq S!Objects
  BY <1>2 DEF S!References, S!CheckType
<1>6. tracked' = tr /\ check' = ch /\ object' = [r \in S!References(tr, ch) |-> ob[r]]
  BY DEF S!Refer
<1> HIDE DEF ch
<1>7. object' \in [S!References(tr, ch) -> StateType] /\ DOMAIN object' = S!References(tr, ch)
  BY <1>4, <1>6
<1>8. S!TypeOK'
  BY <1>2, <1>5, <1>6, <1>7 DEF StuckInv, S!TypeOK, StateType
<1> QED
  BY <1>3, <1>6, <1>7, <1>8 DEF StuckInv, OwnObject, WaitsForObject

\* A tracked state that is set leaves the others in place
LEMMA WithType ==
  ASSUME HandlerAssumption, StuckInv, NEW ref \in S!Objects, NEW state \in StateType
  PROVE  /\ DOMAIN object \subseteq DOMAIN S!With(ref, state) /\ ref \in DOMAIN S!With(ref, state)
         /\ S!With(ref, state) \in [DOMAIN S!With(ref, state) -> StateType]
BY StuckParts DEF S!With

\* A worker that is no longer tracked leaves the others tracked as they were
LEMMA UntrackedType ==
  ASSUME HandlerAssumption, StuckInv, NEW w
  PROVE  /\ S!Untracked(w) \in [Workers -> S!Objects \cup {S!NoObject}] /\ OwnObject(S!Untracked(w))
         /\ \A v \in Workers : S!Untracked(w)[v] = S!NoObject \/ S!Untracked(w)[v] = tracked[v]
<1>1. tracked \in [Workers -> S!Objects \cup {S!NoObject}]
  BY StuckParts
<1>2. \A v \in Workers : S!Untracked(w)[v] = S!NoObject \/ S!Untracked(w)[v] = tracked[v]
  BY <1>1 DEF S!Untracked
<1> QED
  BY <1>1, <1>2 DEF S!Untracked, StuckInv, OwnObject

\* A worker seen without a task is dropped
LEMMA IdleStep ==
  ASSUME HandlerAssumption, StuckInv, NEW k \in Checks, NEW w \in Workers,
         check[k].pc = "next", S!Idle(k, w), UNCHANGED <<handlerConfig, task, manual>>
  PROVE  StuckInv'
<1> DEFINE c == S!Taken(check[k], w)
<1>1. check[k] \in S!CheckType /\ WaitsForObject(check[k]) /\ manual \subseteq Workers
  BY StuckParts DEF StuckInv, S!TypeOK
<1>2. c \in S!CheckType /\ WaitsForObject(c) /\ c.ref = S!NoObject
  BY <1>1, TakenType DEF WaitsForObject
<1>3. S!Refer(S!Untracked(w), [check EXCEPT ![k] = c], object)
  BY DEF S!Idle
<1> HIDE DEF c
<1>4. /\ S!Untracked(w) \in [Workers -> S!Objects \cup {S!NoObject}] /\ OwnObject(S!Untracked(w))
      /\ \A v \in Workers : S!Untracked(w)[v] = S!NoObject \/ S!Untracked(w)[v] = tracked[v]
  BY UntrackedType
<1>5. object \in [DOMAIN object -> StateType]
  BY StuckParts
<1> QED
  BY <1>1, <1>2, <1>3, <1>4, <1>5, OneCheckRefers

\* A worker seen with a task is tracked by a state nobody else has, and may be escalated
LEMMA WorkingStep ==
  ASSUME HandlerAssumption, StuckInv, NEW k \in Checks, NEW w \in Workers,
         check[k].pc = "next", S!Working(k, w), UNCHANGED <<handlerConfig, task, manual>>
  PROVE  StuckInv'
<1> DEFINE ref == IF tracked[w] # S!NoObject THEN tracked[w]
                  ELSE CHOOSE r \in {w} \X (0..Cardinality(Checks)) : r \notin DOMAIN object
           state == S!Tracked(k, w)
           level == S!LevelOf(state.age, check[k].lag)
           escalates == level \notin {"none", state.last}
           tr == [tracked EXCEPT ![w] = ref]
           c == IF ~escalates THEN S!Taken(check[k], w)
                ELSE [S!Taken(check[k], w) EXCEPT !.pc = "escalating", !.worker = w,
                                                !.ref = ref, !.level = level]
           st == IF escalates THEN [state EXCEPT !.last = level] ELSE state
<1>1. /\ check[k] \in S!CheckType /\ check[k].ref = S!NoObject /\ manual \subseteq Workers
      /\ check[k].lag \in 0..MaxLag /\ check[k].seen[w] \in S!Ages \cup {S!NoTask}
  BY StuckParts DEF StuckInv, S!TypeOK, WaitsForObject, S!CheckType
<1>2. /\ tracked \in [Workers -> S!Objects \cup {S!NoObject}] /\ object \in [DOMAIN object -> StateType]
      /\ tracked[w] # S!NoObject => tracked[w] \in DOMAIN object
  BY StuckParts
<1>3. ref \in S!Objects /\ ref[1] = w
  <2>1. CASE tracked[w] # S!NoObject
    BY <1>2, <2>1 DEF StuckInv, OwnObject
  <2>2. CASE tracked[w] = S!NoObject
    <3>1. ref \in {w} \X (0..Cardinality(Checks))
      BY <2>2, FreeReference
    <3> QED
      BY <3>1, SameCardinality DEF S!Objects
  <2> QED
    BY <2>1, <2>2
<1> HIDE DEF ref
<1>4. state \in StateType
  <2>1. CASE tracked[w] # S!NoObject
    BY <1>2, <2>1 DEF S!Tracked
  <2>2. CASE tracked[w] = S!NoObject
    <3> DEFINE age == check[k].seen[w] + check[k].lag
               n == IF age < S!Cap THEN age ELSE S!Cap
    <3>1. n \in S!Ages
      BY <1>1, StuckNumbers DEF S!Ages
    <3>2. state = [age |-> n, last |-> "none", attempts |-> 0]
      BY <2>2 DEF S!Tracked, S!NewObject
    <3> HIDE DEF n
    <3> QED
      BY <3>1, <3>2, StuckNumbers DEF StateType, S!Levels
  <2> QED
    BY <2>1, <2>2
<1> HIDE DEF state
<1>5. level \in S!Levels
  BY <1>1, <1>4, LevelType DEF StateType
<1> HIDE DEF level
<1>6. st \in StateType
  BY <1>4, <1>5 DEF StateType
<1>7. c \in S!CheckType /\ WaitsForObject(c) /\ (c.ref = S!NoObject \/ c.ref = ref)
  <2>1. /\ S!Taken(check[k], w) \in S!CheckType
        /\ S!Taken(check[k], w).pc = "next" /\ S!Taken(check[k], w).ref = S!NoObject
    BY <1>1, TakenType
  <2>2. CASE ~escalates
    BY <2>1, <2>2 DEF WaitsForObject
  <2>3. CASE escalates
    <3> DEFINE d == S!Taken(check[k], w)
    <3>1. c = [d EXCEPT !.pc = "escalating", !.worker = w, !.ref = ref, !.level = level]
      BY <2>3
    <3> HIDE DEF d, c, escalates
    <3>2. d \in S!CheckType
      BY <2>1 DEF d
    <3>3. c \in S!CheckType /\ c.pc = "escalating" /\ c.worker = w /\ c.ref = ref
      BY <1>3, <1>5, <3>1, <3>2 DEF S!CheckType
    <3> QED
      BY <1>3, <3>3 DEF WaitsForObject
  <2> QED
    BY <2>2, <2>3
<1>8. S!Refer(tr, [check EXCEPT ![k] = c], S!With(ref, st))
  BY SameCardinality DEF S!Working, ref, state, level
<1> HIDE DEF c, st, escalates
<1>9. /\ tr \in [Workers -> S!Objects \cup {S!NoObject}] /\ OwnObject(tr)
      /\ \A v \in Workers : tr[v] = tracked[v] \/ tr[v] = ref
  BY <1>2, <1>3 DEF StuckInv, OwnObject
<1> HIDE DEF tr
<1>10. /\ DOMAIN object \subseteq DOMAIN S!With(ref, st) /\ ref \in DOMAIN S!With(ref, st)
       /\ S!With(ref, st) \in [DOMAIN S!With(ref, st) -> StateType]
  BY <1>3, <1>6, WithType
<1> QED
  BY <1>1, <1>7, <1>8, <1>9, <1>10, OneCheckRefers

\* What a check that waits holds
LEMMA WaitingCheck ==
  ASSUME HandlerAssumption, StuckInv, NEW k \in Checks, check[k].pc \notin {"off", "next", "thrown"}
  PROVE  /\ check[k] \in S!CheckType /\ check[k].ref \in DOMAIN object /\ check[k].ref \in S!Objects
         /\ check[k].worker \in Workers
         /\ object[check[k].ref] \in StateType
         /\ check[k].pc = "acting" => check[k].action \in S!Handlers
         /\ manual \subseteq Workers
         /\ tracked \in [Workers -> S!Objects \cup {S!NoObject}] /\ OwnObject(tracked)
<1>1. check[k] \in S!CheckType /\ WaitsForObject(check[k]) /\ OwnObject(tracked) /\ manual \subseteq Workers
      /\ tracked \in [Workers -> S!Objects \cup {S!NoObject}] /\ object \in [DOMAIN object -> StateType]
  BY StuckParts DEF StuckInv, S!TypeOK
<1>2. check[k].ref \in S!Objects /\ check[k].worker \in Workers
  BY <1>1 DEF WaitsForObject
<1>3. check[k].ref \in DOMAIN object
  BY <1>2, ReferencesArePairs, StuckParts
<1> QED
  BY <1>1, <1>2, <1>3 DEF WaitsForObject

\* The attempts of an object are counted below the limit only
LEMMA AttemptStep ==
  ASSUME HandlerAssumption, StuckInv, NEW k \in Checks, S!Attempt(k)
  PROVE  StuckInv'
<1> DEFINE c == check[k]
           o == object[c.ref]
           action == S!ActionFor(c.level, o.attempts)
<1>1. c.pc = "escalating" /\ handlerConfig' = handlerConfig /\ task' = task /\ manual' = manual
  BY DEF S!Attempt
<1>2. /\ c \in S!CheckType /\ c.ref \in DOMAIN object /\ c.ref \in S!Objects /\ c.worker \in Workers
      /\ o \in StateType /\ manual \subseteq Workers
      /\ tracked \in [Workers -> S!Objects \cup {S!NoObject}] /\ OwnObject(tracked)
  BY <1>1, WaitingCheck
<1>3. S!Continue(c) \in S!CheckType /\ WaitsForObject(S!Continue(c)) /\ S!Continue(c).ref = S!NoObject
  BY <1>2, ContinueType
<1>4. CASE S!Exhausted(o)
  <2> DEFINE d == IF c.level = "critical" THEN [c EXCEPT !.pc = "manual"] ELSE S!Continue(c)
  <2>1. d \in S!CheckType /\ WaitsForObject(d) /\ d.ref \in {c.ref, S!NoObject}
    <3>1. [c EXCEPT !.pc = "manual"] \in S!CheckType /\ WaitsForObject([c EXCEPT !.pc = "manual"])
          /\ [c EXCEPT !.pc = "manual"].ref = c.ref
      BY <1>2 DEF S!CheckType, WaitsForObject
    <3> QED
      BY <1>3, <3>1
  <2>2. S!Refer(tracked, [check EXCEPT ![k] = d], object)
    BY <1>4 DEF S!Attempt
  <2> HIDE DEF d
  <2> QED
    BY <1>1, <1>2, <2>1, <2>2, StuckParts, OneCheckRefers
<1>5. CASE ~S!Exhausted(o)
  <2> DEFINE d == IF action \in handlerConfig.handlers THEN [c EXCEPT !.pc = "acting", !.action = action]
                  ELSE S!Continue(c)
  <2>1. d \in S!CheckType /\ WaitsForObject(d) /\ d.ref \in {c.ref, S!NoObject}
    <3>1. handlerConfig.handlers \subseteq S!Handlers
      BY DEF HandlerAssumption, StuckInv, S!TypeOK
    <3>2. CASE action \in handlerConfig.handlers
      <4>1. action \in S!Handlers /\ action \in S!Actions
        BY <3>1, <3>2 DEF S!Actions
      <4>2. d = [c EXCEPT !.pc = "acting", !.action = action]
        BY <3>2
      <4> HIDE DEF action, d
      <4>3. d \in S!CheckType /\ d.pc = "acting" /\ d.ref = c.ref 
            /\ d.worker = c.worker /\ d.action = action
        BY <1>2, <4>1, <4>2 DEF S!CheckType
      <4> QED
        BY <1>2, <4>1, <4>3 DEF WaitsForObject
    <3>3. CASE action \notin handlerConfig.handlers
      BY <1>3, <3>3
    <3> QED
      BY <3>2, <3>3
  <2>2. S!Refer(tracked, [check EXCEPT ![k] = d], S!With(c.ref, S!Counted(o)))
    BY <1>5 DEF S!Attempt
  <2> HIDE DEF d
  <2>3. S!Counted(o) \in StateType
    BY <1>2, <1>5, StuckNumbers DEF S!Counted, S!Exhausted, StateType
  <2>4. /\ DOMAIN object \subseteq DOMAIN S!With(c.ref, S!Counted(o))
        /\ c.ref \in DOMAIN S!With(c.ref, S!Counted(o))
        /\ S!With(c.ref, S!Counted(o)) \in [DOMAIN S!With(c.ref, S!Counted(o)) -> StateType]
    BY <1>2, <2>3, WithType
  <2> QED
    BY <1>1, <1>2, <2>1, <2>2, <2>4, OneCheckRefers
<1> QED
  BY <1>4, <1>5

\* A handler that resolves changes the state its check holds, tracked or not
LEMMA ActsStep ==
  ASSUME HandlerAssumption, StuckInv, NEW k \in Checks, S!Acts(k)
  PROVE  StuckInv'
<1> DEFINE c == check[k]
           o == object[c.ref]
           p == CASE c.action = "extend_deadline" -> [o EXCEPT !.age = 0]
                  [] c.action = "reassign_task" -> o
                  [] c.action = "restart_worker" -> S!Restarted(o)
<1>1. c.pc = "acting" /\ handlerConfig' = handlerConfig /\ task' = task /\ manual' = manual
  BY DEF S!Acts
<1>2. /\ c \in S!CheckType /\ c.ref \in S!Objects /\ c.action \in S!Handlers
      /\ o \in StateType /\ manual \subseteq Workers
      /\ tracked \in [Workers -> S!Objects \cup {S!NoObject}] /\ OwnObject(tracked)
  BY <1>1, WaitingCheck
<1>3. S!Continue(c) \in S!CheckType /\ WaitsForObject(S!Continue(c)) /\ S!Continue(c).ref = S!NoObject
  BY <1>2, ContinueType
<1>4. p \in StateType
  <2>1. [o EXCEPT !.age = 0] \in StateType /\ S!Restarted(o) \in StateType
    BY <1>2, StuckNumbers DEF StateType, S!Restarted, S!Levels
  <2> QED
    BY <1>2, <2>1 DEF S!Handlers
<1>5. PICK tr \in {tracked, S!Untracked(c.worker)} :
        S!Refer(tr, [check EXCEPT ![k] = S!Continue(c)], S!With(c.ref, p))
  BY DEF S!Acts
<1> HIDE DEF p
<1>6. /\ DOMAIN object \subseteq DOMAIN S!With(c.ref, p)
      /\ S!With(c.ref, p) \in [DOMAIN S!With(c.ref, p) -> StateType]
  BY <1>2, <1>4, WithType
<1>7. /\ tr \in [Workers -> S!Objects \cup {S!NoObject}] /\ OwnObject(tr)
      /\ \A v \in Workers : tr[v] = S!NoObject \/ tr[v] = tracked[v]
  BY <1>2, UntrackedType
<1> QED
  BY <1>1, <1>2, <1>3, <1>5, <1>6, <1>7, OneCheckRefers

\* A check that ends its wait and does nothing more
LEMMA EndsWait ==
  ASSUME HandlerAssumption, StuckInv, NEW k \in Checks, check[k].pc \notin {"off", "next", "thrown"},
         NEW d \in {S!Continue(check[k]), S!Thrown}, S!Refer(tracked, [check EXCEPT ![k] = d], object),
         handlerConfig' = handlerConfig, task' = task, manual' \subseteq Workers
  PROVE  StuckInv'
<1>1. /\ check[k] \in S!CheckType
      /\ tracked \in [Workers -> S!Objects \cup {S!NoObject}] /\ OwnObject(tracked)
  BY WaitingCheck
<1>2. d \in S!CheckType /\ WaitsForObject(d) /\ d.ref = S!NoObject
  BY <1>1, ContinueType, ThrownType
<1> QED
  BY <1>1, <1>2, StuckParts, OneCheckRefers

\* The steps of a check, of the pool, of the interval and of time, and the invariant
LEMMA CheckStepStuck ==
  ASSUME HandlerAssumption, StuckInv, NEW k \in Checks, S!CheckStep(k)
  PROVE  StuckInv'
<1>1. CASE S!Take(k)
  <2>1. check[k].pc = "next" /\ check[k].left \subseteq Workers
    BY <1>1, StuckParts DEF S!Take, S!CheckType
  <2> QED
    BY <1>1, <2>1, IdleStep, WorkingStep DEF S!Take
<1>2. CASE S!Finish(k)
  <2>1. /\ check[k].pc = "next" /\ check' = [check EXCEPT ![k] = S!Off]
        /\ UNCHANGED <<handlerConfig, task, object, tracked, manual>>
    BY <1>2 DEF S!Finish
  <2>2. check[k].ref = S!NoObject /\ check \in [Checks -> S!CheckType]
    BY <2>1, StuckParts DEF StuckInv, WaitsForObject
  <2>3. /\ check' \in [Checks -> S!CheckType] /\ check'[k] = S!Off
        /\ \A j \in Checks : j # k => check'[j] = check[j]
    BY <2>1, <2>2, OffType
  <2>4. \A j \in Checks : WaitsForObject(check[j])' /\ check'[j].ref = check[j].ref
    BY <2>2, <2>3, OffType DEF StuckInv, WaitsForObject
  <2>5. S!References(tracked', check') = S!References(tracked, check)
    BY <2>1, <2>4 DEF S!References
  <2> QED
    BY <2>1, <2>3, <2>4, <2>5 DEF StuckInv, S!TypeOK, OwnObject
<1>3. CASE S!ActionFails(k)
  <2>1. PICK d \in {S!Continue(check[k]), S!Thrown} : S!Refer(tracked, [check EXCEPT ![k] = d], object)
    BY <1>3 DEF S!ActionFails
  <2> QED
    BY <1>3, <2>1, EndsWait DEF S!ActionFails, StuckInv, S!TypeOK
<1>4. CASE S!HandOver(k)
  <2>1. check[k].pc = "manual" /\ manual' = manual \cup {check[k].worker}
        /\ handlerConfig' = handlerConfig /\ task' = task
    BY <1>4 DEF S!HandOver
  <2>2. manual' \subseteq Workers
    BY <2>1, WaitingCheck
  <2> QED
    BY <1>4, <2>1, <2>2, EndsWait DEF S!HandOver
<1> QED
  BY <1>1, <1>2, <1>3, <1>4, AttemptStep, ActsStep DEF S!CheckStep

LEMMA PoolStepStuck ==
  ASSUME HandlerAssumption, StuckInv, NEW w \in Workers, S!StartTask(w) \/ S!EndTask(w)
  PROVE  StuckInv'
<1>1. UNCHANGED <<handlerConfig, object, tracked, check>> /\ manual' \subseteq Workers
  BY DEF S!StartTask, S!EndTask, StuckInv, S!TypeOK
<1>2. task' \in [Workers -> S!Ages \cup {S!NoTask}]
  BY StuckNumbers DEF S!StartTask, S!EndTask, StuckInv, S!TypeOK
<1> QED
  BY <1>1, <1>2 DEF StuckInv, S!TypeOK, OwnObject, WaitsForObject, S!References

LEMMA PollStuck ==
  ASSUME HandlerAssumption, StuckInv, NEW k \in Checks, S!Poll(k)
  PROVE  StuckInv'
<1> DEFINE c == [S!Off EXCEPT !.pc = "next", !.seen = task, !.left = handlerConfig.workers]
<1>1. check' = [check EXCEPT ![k] = c] /\ check[k].pc = "off"
      /\ UNCHANGED <<handlerConfig, task, object, tracked, manual>>
  BY DEF S!Poll
<1>2. handlerConfig.workers \subseteq Workers /\ task \in [Workers -> S!Ages \cup {S!NoTask}]
  BY DEF HandlerAssumption, StuckInv, S!TypeOK
<1>3. c \in S!CheckType /\ WaitsForObject(c) /\ c.ref = S!NoObject
  BY <1>2, OffType DEF S!CheckType, WaitsForObject
<1> HIDE DEF c
<1>4. check[k].ref = S!NoObject /\ check \in [Checks -> S!CheckType]
  BY <1>1, StuckParts DEF StuckInv, WaitsForObject
<1>5. /\ check' \in [Checks -> S!CheckType]
      /\ \A j \in Checks : WaitsForObject(check[j])' /\ check'[j].ref = check[j].ref
  <2>1. check'[k] = c /\ \A j \in Checks : j # k => check'[j] = check[j]
    BY <1>1, <1>4
  <2> QED
    BY <1>1, <1>3, <1>4, <2>1 DEF StuckInv, WaitsForObject
<1>6. S!References(tracked', check') = S!References(tracked, check)
  BY <1>1, <1>5 DEF S!References
<1> QED
  BY <1>1, <1>5, <1>6 DEF StuckInv, S!TypeOK, OwnObject

LEMMA TickStuck ==
  ASSUME HandlerAssumption, StuckInv, S!Tick
  PROVE  StuckInv'
<1>1. /\ object \in [DOMAIN object -> StateType] /\ check \in [Checks -> S!CheckType]
      /\ \A k \in Checks : WaitsForObject(check[k])
      /\ task \in [Workers -> S!Ages \cup {S!NoTask}]
  BY StuckParts DEF StuckInv, S!TypeOK
<1>2. task' \in [Workers -> S!Ages \cup {S!NoTask}]
  BY <1>1, OlderType DEF S!Tick
<1>3. DOMAIN object' = DOMAIN object /\ object' \in [DOMAIN object -> StateType]
  <2>1. \A s \in StateType : [s EXCEPT !.age = S!Older(@)] \in StateType
    BY OlderType DEF StateType
  <2> QED
    BY <1>1, <2>1 DEF S!Tick
<1>4. ASSUME NEW k \in Checks
      PROVE  check'[k] \in S!CheckType /\ WaitsForObject(check[k])' /\ check'[k].ref = check[k].ref
  <2>1. CASE check[k].pc = "off"
    <3>1. check'[k] = S!Off /\ check[k].ref = S!NoObject
      BY <1>1, <2>1 DEF S!Tick, WaitsForObject
    <3> QED
      BY <3>1, OffType DEF WaitsForObject
  <2>2. CASE check[k].pc # "off"
    <3>1. check'[k] = [check[k] EXCEPT !.lag = @ + 1] /\ check[k].lag < MaxLag
      BY <2>2 DEF S!Tick
    <3>2. /\ check'[k] \in S!CheckType /\ check'[k].pc = check[k].pc /\ check'[k].ref = check[k].ref
          /\ check'[k].worker = check[k].worker /\ check'[k].action = check[k].action
      <4> DEFINE n == check[k].lag + 1
      <4>1. MaxLag \in Nat
        BY StuckNumbers
      <4>2. check[k] \in S!CheckType /\ n \in 0..MaxLag
        BY <1>1, <3>1, <4>1 DEF S!CheckType
      <4>3. check'[k] = [check[k] EXCEPT !.lag = n]
        BY <3>1
      <4> HIDE DEF n
      <4> QED
        BY <4>2, <4>3 DEF S!CheckType
    <3> QED
      BY <1>1, <3>2 DEF WaitsForObject
  <2> QED
    BY <2>1, <2>2
<1>5. check' \in [Checks -> S!CheckType] /\ UNCHANGED <<handlerConfig, tracked, manual>>
  BY <1>4 DEF S!Tick
<1>6. S!References(tracked', check') = S!References(tracked, check)
  BY <1>4, <1>5 DEF S!References
<1> QED
  BY <1>2, <1>3, <1>4, <1>5, <1>6 DEF StuckInv, S!TypeOK, OwnObject, StateType

LEMMA InitStuck == HandlerAssumption /\ S!Init => StuckInv
<1> SUFFICES ASSUME HandlerAssumption, S!Init PROVE StuckInv
  OBVIOUS
<1>1. /\ handlerConfig \in HandlerConfigs /\ manual = {} /\ object = <<>>
      /\ tracked = [w \in Workers |-> S!NoObject] /\ check = [k \in Checks |-> S!Off]
      /\ task \in [Workers -> {0, S!NoTask}]
  BY DEF S!Init
<1>2. DOMAIN object = {} /\ object \in [DOMAIN object -> StateType]
  BY <1>1
<1>3. S!References(tracked, check) = {}
  BY <1>1, OffType DEF S!References
<1>4. task \in [Workers -> S!Ages \cup {S!NoTask}]
  BY <1>1, StuckNumbers
<1>5. check \in [Checks -> S!CheckType] /\ \A k \in Checks : WaitsForObject(check[k])
  BY <1>1, OffType
<1> QED
  BY <1>1, <1>2, <1>3, <1>4, <1>5 DEF StuckInv, S!TypeOK, OwnObject, StateType

LEMMA NextStuck == HandlerAssumption /\ StuckInv /\ [S!Next]_S!vars => StuckInv'
<1> SUFFICES ASSUME HandlerAssumption, StuckInv, [S!Next]_S!vars PROVE StuckInv'
  OBVIOUS
<1>1. CASE UNCHANGED S!vars
  BY <1>1 DEF S!vars, StuckInv, S!TypeOK, OwnObject, WaitsForObject, S!References
<1> QED
  BY <1>1, CheckStepStuck, PoolStepStuck, PollStuck, TickStuck DEF S!Next

\* No tracked state counts more than maxRecoveryAttempts attempts, however many checks
\* overlap and hold it, or an older state of its worker; and what a worker or a waiting
\* check refers to is still there.
THEOREM StuckTypes ==
  HandlerAssumption =>
    (S!SafeSpec => [](S!TypeOK /\ S!References(tracked, check) \subseteq DOMAIN object))
<1> SUFFICES ASSUME HandlerAssumption
             PROVE  S!SafeSpec => [](S!TypeOK /\ S!References(tracked, check) \subseteq DOMAIN object)
  OBVIOUS
<1>1. S!Init => StuckInv
  BY InitStuck
<1>2. StuckInv /\ [S!Next]_S!vars => StuckInv'
  BY NextStuck
<1>3. StuckInv => S!TypeOK /\ S!References(tracked, check) \subseteq DOMAIN object
  BY DEF StuckInv
<1> QED
  BY <1>1, <1>2, <1>3, PTL DEF S!SafeSpec

-----------------------------------------------------------------------------
\* Whoever is handed over has no attempt left: a state that is held counts no attempt less
LEMMA SpentStays ==
  ASSUME HandlerAssumption, StuckInv, S!HandedOverExhausted, NEW k \in Checks, NEW c, NEW tr, NEW ob,
         S!Refer(tr, [check EXCEPT ![k] = c], ob),
         c.pc = "manual" => /\ c.level = "critical" /\ c.ref \in DOMAIN object
                            /\ object[c.ref].attempts = MaxAttempts,
         DOMAIN object \subseteq DOMAIN ob,
         \A r \in DOMAIN object : ob[r].attempts \in object[r].attempts..MaxAttempts
  PROVE  S!HandedOverExhausted'
<1> SUFFICES ASSUME NEW j \in Checks, check'[j].pc = "manual"
             PROVE  check'[j].level = "critical" /\ object'[check'[j].ref].attempts = MaxAttempts
  BY DEF S!HandedOverExhausted
<1>1. /\ check \in [Checks -> S!CheckType] /\ object \in [DOMAIN object -> StateType]
      /\ check' = [check EXCEPT ![k] = c]
      /\ object' = [r \in S!References(tr, check') |-> ob[r]]
  BY StuckParts DEF S!Refer
<1>2. /\ check'[j].level = "critical" /\ check'[j].ref \in DOMAIN object
      /\ object[check'[j].ref].attempts = MaxAttempts
  <2>1. CASE j = k
    BY <1>1, <2>1
  <2>2. CASE j # k
    <3>1. check'[j] = check[j]
      BY <1>1, <2>2
    <3> QED
      BY <3>1, WaitingCheck DEF S!HandedOverExhausted
  <2> QED
    BY <2>1, <2>2
<1>3. check'[j].ref # S!NoObject
  BY <1>2, ReferencesArePairs, StuckParts
<1>4. object'[check'[j].ref] = ob[check'[j].ref]
  BY <1>1, <1>3 DEF S!References
<1>5. ob[check'[j].ref].attempts \in MaxAttempts..MaxAttempts /\ MaxAttempts \in Nat
  BY <1>2, StuckNumbers
<1> QED
  BY <1>2, <1>4, <1>5

\* A state that is set anew with no attempt less takes none from any other
LEMMA WithAttempts ==
  ASSUME HandlerAssumption, StuckInv, NEW ref, NEW state \in StateType,
         ref \in DOMAIN object => state.attempts >= object[ref].attempts
  PROVE  /\ DOMAIN object \subseteq DOMAIN S!With(ref, state)
         /\ \A r \in DOMAIN object : S!With(ref, state)[r].attempts \in object[r].attempts..MaxAttempts
<1>1. object \in [DOMAIN object -> StateType] /\ MaxAttempts \in Nat
  BY StuckParts, StuckNumbers
<1>2. ASSUME NEW r \in DOMAIN object
      PROVE  S!With(ref, state)[r].attempts \in object[r].attempts..MaxAttempts
  <2>1. S!With(ref, state)[r] = IF r = ref THEN state ELSE object[r]
    BY <1>2 DEF S!With
  <2> QED
    BY <1>1, <1>2, <2>1 DEF StateType
<1> QED
  BY <1>2 DEF S!With

LEMMA KeptAttempts ==
  ASSUME HandlerAssumption, StuckInv
  PROVE  \A r \in DOMAIN object : object[r].attempts \in object[r].attempts..MaxAttempts
BY StuckParts, StuckNumbers DEF StateType

LEMMA TakeSpent ==
  ASSUME HandlerAssumption, StuckInv, S!HandedOverExhausted, NEW k \in Checks, S!Take(k)
  PROVE  S!HandedOverExhausted'
<1>1. PICK w \in check[k].left : S!Idle(k, w) \/ S!Working(k, w)
  BY DEF S!Take
<1>2. check[k] \in S!CheckType /\ check[k].pc = "next" /\ w \in Workers
  BY <1>1, StuckParts DEF S!Take, S!CheckType
<1>3. S!Taken(check[k], w) \in S!CheckType /\ S!Taken(check[k], w).pc = "next"
  BY <1>2, TakenType
<1>4. CASE S!Idle(k, w)
  <2> DEFINE c == S!Taken(check[k], w)
  <2>1. S!Refer(S!Untracked(w), [check EXCEPT ![k] = c], object)
    BY <1>4 DEF S!Idle
  <2>2. c.pc # "manual"
    BY <1>3
  <2> HIDE DEF c
  <2> QED
    BY <2>1, <2>2, SpentStays, KeptAttempts
<1>5. CASE S!Working(k, w)
  <2> DEFINE ref == IF tracked[w] # S!NoObject THEN tracked[w]
                    ELSE CHOOSE r \in {w} \X (0..Cardinality(Checks)) : r \notin DOMAIN object
             state == S!Tracked(k, w)
             level == S!LevelOf(state.age, check[k].lag)
             escalates == level \notin {"none", state.last}
             st == IF escalates THEN [state EXCEPT !.last = level] ELSE state
             c == IF ~escalates THEN S!Taken(check[k], w)
                  ELSE [S!Taken(check[k], w) EXCEPT !.pc = "escalating", !.worker = w,
                                                    !.ref = ref, !.level = level]
             tr == [tracked EXCEPT ![w] = ref]
  <2>1. S!Refer(tr, [check EXCEPT ![k] = c], S!With(ref, st))
    BY <1>5, SameCardinality DEF S!Working
  <2>2. c.pc # "manual"
    BY <1>3 DEF S!CheckType
  <2>3. state \in StateType
    <3>1. CASE tracked[w] # S!NoObject
      BY <1>2, <3>1, StuckParts DEF S!Tracked
    <3>2. CASE tracked[w] = S!NoObject
      <4> DEFINE age == check[k].seen[w] + check[k].lag
                 n == IF age < S!Cap THEN age ELSE S!Cap
      <4>1. check[k].seen[w] \in S!Ages \cup {S!NoTask} /\ check[k].lag \in 0..MaxLag
        BY <1>2 DEF S!CheckType
      <4>2. n \in S!Ages
        BY <4>1, StuckNumbers DEF S!Ages
      <4>3. state = [age |-> n, last |-> "none", attempts |-> 0]
        BY <3>2 DEF S!Tracked, S!NewObject
      <4> HIDE DEF n, state
      <4> QED
        BY <4>2, <4>3, StuckNumbers DEF StateType, S!Levels
    <3> QED
      BY <3>1, <3>2
  <2>4. ref \in DOMAIN object => state = object[ref]
    <3>1. CASE tracked[w] # S!NoObject
      BY <3>1 DEF S!Tracked
    <3>2. CASE tracked[w] = S!NoObject
      <4>1. ref = CHOOSE r \in {w} \X (0..Cardinality(Checks)) : r \notin DOMAIN object
        BY <3>2
      <4>2. ref \notin DOMAIN object
        BY <1>2, <3>2, <4>1, FreeReference
      <4> QED
        BY <4>2
    <3> QED
      BY <3>1, <3>2
  <2>5. level \in S!Levels
    BY <1>2, <2>3, LevelType DEF S!CheckType, StateType
  <2> HIDE DEF state, level, ref, tr
  <2>6. st \in StateType /\ st.attempts = state.attempts
    BY <2>3, <2>5 DEF StateType
  <2> HIDE DEF st, c
  <2>7. ref \in DOMAIN object => st.attempts >= object[ref].attempts
    BY <2>3, <2>4, <2>6, StuckNumbers DEF StateType
  <2> QED
    BY <2>1, <2>2, <2>6, <2>7, WithAttempts, SpentStays
<1> QED
  BY <1>1, <1>4, <1>5

LEMMA AttemptSpent ==
  ASSUME HandlerAssumption, StuckInv, S!HandedOverExhausted, NEW k \in Checks, S!Attempt(k)
  PROVE  S!HandedOverExhausted'
<1> DEFINE c == check[k]
           o == object[c.ref]
           action == S!ActionFor(c.level, o.attempts)
<1>1. c.pc = "escalating"
  BY DEF S!Attempt
<1>2. c \in S!CheckType /\ c.ref \in DOMAIN object /\ o \in StateType
  BY <1>1, WaitingCheck
<1>3. S!Continue(c).pc = "next"
  BY <1>2 DEF S!Continue, S!CheckType
<1>4. CASE S!Exhausted(o)
  <2> DEFINE d == IF c.level = "critical" THEN [c EXCEPT !.pc = "manual"] ELSE S!Continue(c)
  <2>1. S!Refer(tracked, [check EXCEPT ![k] = d], object)
    BY <1>4 DEF S!Attempt
  <2>2. o.attempts = MaxAttempts
    BY <1>2, <1>4, StuckNumbers DEF S!Exhausted, StateType
  <2>3. d.pc = "manual" => d.level = "critical" /\ d.ref = c.ref
    <3>1. CASE c.level = "critical"
      BY <1>2, <3>1 DEF S!CheckType
    <3>2. CASE c.level # "critical"
      BY <1>3, <3>2
    <3> QED
      BY <3>1, <3>2
  <2> HIDE DEF d
  <2> QED
    BY <1>2, <2>1, <2>2, <2>3, SpentStays, KeptAttempts
<1>5. CASE ~S!Exhausted(o)
  <2> DEFINE d == IF action \in handlerConfig.handlers THEN [c EXCEPT !.pc = "acting", !.action = action]
                  ELSE S!Continue(c)
  <2>1. S!Refer(tracked, [check EXCEPT ![k] = d], S!With(c.ref, S!Counted(o)))
    BY <1>5 DEF S!Attempt
  <2>2. d.pc # "manual"
    BY <1>2, <1>3 DEF S!CheckType
  <2>3. S!Counted(o) \in StateType /\ S!Counted(o).attempts >= o.attempts
    BY <1>2, <1>5, StuckNumbers DEF S!Counted, S!Exhausted, StateType
  <2> HIDE DEF d
  <2> QED
    BY <1>2, <2>1, <2>2, <2>3, WithAttempts, SpentStays
<1> QED
  BY <1>4, <1>5

\* A restart that ends gives no attempt back, nor does an extension or a reassignment
LEMMA ActsSpent ==
  ASSUME HandlerAssumption, StuckInv, S!HandedOverExhausted, NEW k \in Checks, S!Acts(k)
  PROVE  S!HandedOverExhausted'
<1> DEFINE c == check[k]
           o == object[c.ref]
           p == CASE c.action = "extend_deadline" -> [o EXCEPT !.age = 0]
                  [] c.action = "reassign_task" -> o
                  [] c.action = "restart_worker" -> S!Restarted(o)
<1>1. c.pc = "acting"
  BY DEF S!Acts
<1>2. c \in S!CheckType /\ c.ref \in DOMAIN object /\ o \in StateType /\ c.action \in S!Handlers
  BY <1>1, WaitingCheck
<1>3. S!Continue(c).pc = "next"
  BY <1>2 DEF S!Continue, S!CheckType
<1>4. p \in StateType /\ p.attempts = o.attempts
  <2>1. /\ [o EXCEPT !.age = 0] \in StateType /\ S!Restarted(o) \in StateType
        /\ [o EXCEPT !.age = 0].attempts = o.attempts /\ S!Restarted(o).attempts = o.attempts
    BY <1>2, StuckNumbers DEF StateType, S!Restarted, S!Levels
  <2> QED
    BY <1>2, <2>1 DEF S!Handlers
<1>5. PICK tr \in {tracked, S!Untracked(c.worker)} :
        S!Refer(tr, [check EXCEPT ![k] = S!Continue(c)], S!With(c.ref, p))
  BY DEF S!Acts
<1> HIDE DEF p
<1>6. p.attempts >= o.attempts
  BY <1>2, <1>4, StuckNumbers DEF StateType
<1> QED
  BY <1>3, <1>4, <1>5, <1>6, WithAttempts, SpentStays

LEMMA TickSpent ==
  ASSUME HandlerAssumption, StuckInv, S!HandedOverExhausted, S!Tick
  PROVE  S!HandedOverExhausted'
<1> SUFFICES ASSUME NEW k \in Checks, check'[k].pc = "manual"
             PROVE  check'[k].level = "critical" /\ object'[check'[k].ref].attempts = MaxAttempts
  BY DEF S!HandedOverExhausted
<1>1. check[k] \in S!CheckType /\ object \in [DOMAIN object -> StateType]
  BY StuckParts
<1>2. check'[k] = [check[k] EXCEPT !.lag = @ + 1]
  BY OffType DEF S!Tick
<1>3. check'[k].pc = check[k].pc /\ check'[k].level = check[k].level /\ check'[k].ref = check[k].ref
  BY <1>1, <1>2 DEF S!CheckType
<1>4. check[k].ref \in DOMAIN object
  BY <1>3, WaitingCheck
<1>5. object'[check[k].ref].attempts = object[check[k].ref].attempts
  BY <1>1, <1>4 DEF S!Tick, StateType
<1> QED
  BY <1>3, <1>5 DEF S!HandedOverExhausted

LEMMA NextSpent ==
  HandlerAssumption /\ StuckInv /\ S!HandedOverExhausted /\ [S!Next]_S!vars => S!HandedOverExhausted'
<1> SUFFICES ASSUME HandlerAssumption, StuckInv, S!HandedOverExhausted, [S!Next]_S!vars
             PROVE  S!HandedOverExhausted'
  OBVIOUS
<1>1. ASSUME UNCHANGED <<check, object>> PROVE S!HandedOverExhausted'
  BY <1>1 DEF S!HandedOverExhausted
<1>2. ASSUME NEW k \in Checks, NEW c, check' = [check EXCEPT ![k] = c], c.pc # "manual", object' = object
      PROVE  S!HandedOverExhausted'
  <2>1. \A j \in Checks : check'[j].pc = "manual" => check'[j] = check[j]
    BY <1>2, StuckParts
  <2> QED
    BY <1>2, <2>1 DEF S!HandedOverExhausted
<1>3. ASSUME NEW k \in Checks, S!Poll(k) \/ S!Finish(k) PROVE S!HandedOverExhausted'
  <2>1. S!Off.pc = "off" /\ [S!Off EXCEPT !.pc = "next", !.seen = task, !.left = handlerConfig.workers].pc = "next"
    BY DEF S!Off
  <2> QED
    BY <1>2, <1>3, <2>1 DEF S!Poll, S!Finish
<1>4. ASSUME NEW k \in Checks, S!ActionFails(k) \/ S!HandOver(k) PROVE S!HandedOverExhausted'
  <2>1. PICK d \in {S!Continue(check[k]), S!Thrown} : S!Refer(tracked, [check EXCEPT ![k] = d], object)
    BY <1>4 DEF S!ActionFails, S!HandOver
  <2>2. d.pc # "manual"
    <3>1. check[k] \in S!CheckType
      BY StuckParts
    <3>2. S!Thrown.pc = "thrown" /\ S!Continue(check[k]).pc = "next"
      BY <3>1 DEF S!Continue, S!Thrown, S!Off, S!CheckType
    <3> QED
      BY <3>2
  <2> QED
    BY <2>1, <2>2, SpentStays, KeptAttempts
<1>5. CASE UNCHANGED S!vars
  BY <1>1, <1>5 DEF S!vars
<1>6. ASSUME NEW w \in Workers, S!StartTask(w) \/ S!EndTask(w) PROVE S!HandedOverExhausted'
  BY <1>1, <1>6 DEF S!StartTask, S!EndTask
<1> QED
  BY <1>3, <1>4, <1>5, <1>6, TakeSpent, AttemptSpent, ActsSpent, TickSpent DEF S!Next, S!CheckStep

\* When a human is asked for a worker every automatic attempt was spent, as the handler then
\* says, for any number of checks that overlap, and any restarts that end late.
THEOREM AskedWhenSpent == HandlerAssumption => (S!SafeSpec => []S!HandedOverExhausted)
<1> SUFFICES ASSUME HandlerAssumption PROVE S!SafeSpec => []S!HandedOverExhausted
  OBVIOUS
<1>1. S!Init => StuckInv
  BY InitStuck
<1>2. StuckInv /\ [S!Next]_S!vars => StuckInv'
  BY NextStuck
<1>3. S!Init => S!HandedOverExhausted
  BY DEF S!Init, S!Off, S!HandedOverExhausted
<1>4. StuckInv /\ S!HandedOverExhausted /\ [S!Next]_S!vars => S!HandedOverExhausted'
  BY NextSpent
<1> QED
  BY <1>1, <1>2, <1>3, <1>4, PTL DEF S!SafeSpec
=============================================================================
