-------------------------- MODULE BoundedWorkQueue --------------------------
(***************************************************************************)
(* The bounded work queue of the worker pool, controller/BoundedWorkQueue. *)
(*                                                                         *)
(* Node runs one callback at a time, so a call is a sequence of steps that *)
(* are atomic up to the next await.  Every caller of enqueue or of         *)
(* retryFromDeadLetter is a process whose "pc" names the await it is       *)
(* suspended at; consumers are the callers of dequeue.  The synchronous    *)
(* methods (remove, clear, ...) are single actions.                        *)
(*                                                                         *)
(* A Map is a function on its set of keys.  "pos" is the rank of a key in  *)
(* the Map's insertion order and "at" the rank of its timestamp (queuedAt, *)
(* movedAt); only the order of positions and timestamps is ever used.      *)
(***************************************************************************)
EXTENDS Naturals, FiniteSets

CONSTANTS Tasks,              \* issue identifiers
          NoTask,             \* no issue
          Priorities,         \* the priority scores callers use
          Callers,            \* concurrent calls of enqueue, retryFromDeadLetter
          Consumers,          \* concurrent calls of dequeue
          MaxSize,            \* maxSize
          SoftLimit,          \* least size with ratio >= softLimitRatio
          BackpressureAt,     \* least size with ratio >= backpressureThreshold
          Configs,            \* the configurations considered, see config
          MaxDeadLetterSize,
          EntryBytes,         \* estimated bytes of a queue entry ...
          DeadLetterBytes,    \* ... and of a dead letter entry
          MaxMemoryBytes

RejectionPolicies == {"reject", "drop-oldest", "drop-lowest-priority"}

ASSUME QueueAssumption ==
  /\ IsFiniteSet(Tasks) /\ NoTask \notin Tasks 
  /\ IsFiniteSet(Callers)
  /\ Priorities \subseteq Nat
  /\ MaxSize \in Nat \ {0} /\ SoftLimit \in Nat \ {0} /\ BackpressureAt \in Nat
  /\ Configs \subseteq [rejectionPolicy : RejectionPolicies, enableDeadLetter : BOOLEAN]
  /\ MaxDeadLetterSize \in Nat
  /\ EntryBytes \in Nat /\ DeadLetterBytes \in Nat /\ MaxMemoryBytes \in Nat

VARIABLES config,                 \* the queue's configuration, never changed
          queue,                  \* Map issueId -> entry
          deadLetter,             \* Map issueId -> dead letter entry
          backpressureActive,
          softLimitWarningActive,
          call,                   \* the enqueue call each caller is in
          consumer                \* the dequeue call each consumer is in

vars == <<config, queue, deadLetter, backpressureActive, softLimitWarningActive, call, consumer>>

-----------------------------------------------------------------------------
(* Maps with an insertion order and a timestamp per key *)

EmptyMap == [t \in {} |-> 0]

Size(q) == Cardinality(DOMAIN q)

\* q restricted to the keys D, positions and timestamps renumbered from 1
Keep(q, D) ==
  [t \in D |-> [prio |-> q[t].prio,
                pos  |-> Cardinality({u \in D : q[u].pos <= q[t].pos}),
                at   |-> Cardinality({u \in D : q[u].at <= q[t].at})]]

Delete(q, t) == Keep(q, DOMAIN q \ {t})

\* Map.set: a present key keeps its position, the timestamp is now
Set(q, t, p) ==
  LET n == Size(q) + 1
      D == DOMAIN q \cup {t}
  IN  Keep([u \in D |-> IF u = t
                        THEN [prio |-> p,
                              pos  |-> IF t \in DOMAIN q THEN q[t].pos ELSE n,
                              at   |-> n]
                        ELSE q[u]], D)

\* The first of these in the Map's order is unique, so these are sets of at most one key
HighestPriority(q) ==
  {t \in DOMAIN q : \A u \in DOMAIN q :
     \/ q[u].prio < q[t].prio
     \/ q[u].prio = q[t].prio /\ q[t].pos <= q[u].pos}

LowestPriority(q) ==
  {t \in DOMAIN q : \A u \in DOMAIN q :
     \/ q[t].prio < q[u].prio
     \/ q[u].prio = q[t].prio /\ q[t].pos <= q[u].pos}

Oldest(q) == {t \in DOMAIN q : \A u \in DOMAIN q : q[t].at <= q[u].at}

MemoryUsage(q, d) == EntryBytes * Size(q) + DeadLetterBytes * Size(d)

ShouldApplyBackpressure(q) == Size(q) >= BackpressureAt

-----------------------------------------------------------------------------
(* Calls *)

CallPCs == {"idle",
            "full",        \* awaits the memory_limit_warning or hard_limit_reached event
            "moving",      \* awaits the task_moved_to_dead_letter event
            "evicting",    \* awaits moveToDeadLetter
            "delaying",    \* awaits the backpressure event and delay
            "accepting"}   \* awaits the task_enqueued event, or the call itself

Idle == [pc |-> "idle", task |-> NoTask, prio |-> 0, victim |-> NoTask, retry |-> FALSE]

\* c's call moves on to pc
Suspended(c, pc) == call' = [call EXCEPT ![c].pc = pc]

Returned(c) == call' = [call EXCEPT ![c] = Idle]

\* the successful call r waits for its last event: only a retry still needs its task
Accepting(r) == [Idle EXCEPT !.pc = "accepting", !.retry = r.retry,
                             !.task = IF r.retry THEN r.task ELSE NoTask]

\* queue.set, checkSoftLimit
Admit(c, r, q) ==
  /\ queue' = Set(q, r.task, r.prio)
  /\ softLimitWarningActive' = (softLimitWarningActive \/ Size(queue') >= SoftLimit)
  /\ call' = [call EXCEPT ![c] = Accepting(r)]

\* enqueue from its start to its first await, on the queue q it finds
Enter(c, r, q) ==
  LET next(pc) == call' = [call EXCEPT ![c] = [r EXCEPT !.pc = pc]]
      overMemory == MemoryUsage(q, deadLetter) > MaxMemoryBytes
  IN  \/ /\ r.task \in DOMAIN q
         /\ call' = [call EXCEPT ![c] = Accepting(r)]
         /\ queue' = q /\ UNCHANGED <<backpressureActive, softLimitWarningActive>>
      \/ /\ r.task \notin DOMAIN q
         /\ overMemory \/ Size(q) >= MaxSize
         /\ next("full")
         /\ queue' = q /\ UNCHANGED <<backpressureActive, softLimitWarningActive>>
      \/ /\ r.task \notin DOMAIN q /\ ~overMemory /\ Size(q) < MaxSize
         /\ ShouldApplyBackpressure(q)
         /\ next("delaying")
         /\ backpressureActive' = TRUE
         /\ queue' = q /\ UNCHANGED softLimitWarningActive
      \/ /\ r.task \notin DOMAIN q /\ ~overMemory /\ Size(q) < MaxSize
         /\ ~ShouldApplyBackpressure(q)
         /\ Admit(c, r, q)
         /\ UNCHANGED backpressureActive

-----------------------------------------------------------------------------
(* enqueue *)

Enqueue(c, t, p) ==
  /\ call[c].pc = "idle"
  /\ Enter(c, [Idle EXCEPT !.task = t, !.prio = p], queue)
  /\ UNCHANGED <<config, deadLetter, consumer>>

\* retryFromDeadLetter up to the first await of its enqueue
RetryFromDeadLetter(c, t) ==
  /\ call[c].pc = "idle"
  /\ t \in DOMAIN deadLetter
  /\ Enter(c, [Idle EXCEPT !.task = t, !.prio = deadLetter[t].prio, !.retry = TRUE], queue)
  /\ UNCHANGED <<config, deadLetter, consumer>>

\* The victim of the rejection policy, chosen when the full event has been handled
Victims(q) == IF config.rejectionPolicy = "drop-oldest" THEN Oldest(q) ELSE LowestPriority(q)

Evictable(p) ==
  /\ config.rejectionPolicy # "reject"
  /\ DOMAIN queue # {}
  /\ config.rejectionPolicy = "drop-lowest-priority" => \E t \in DOMAIN queue : p > queue[t].prio

\* handleFull with nothing to evict
HandleFullReject(c) ==
  /\ call[c].pc = "full"
  /\ ~Evictable(call[c].prio)
  /\ Returned(c)
  /\ UNCHANGED <<config, queue, deadLetter, backpressureActive, softLimitWarningActive, consumer>>

\* handleFull with an entry to evict, up to the first await of moveToDeadLetter
HandleFullEvict(c) ==
  /\ call[c].pc = "full"
  /\ Evictable(call[c].prio)
  /\ \E v \in Victims(queue) :
       IF config.enableDeadLetter
       THEN /\ deadLetter' = Set(deadLetter, v, queue[v].prio)
            /\ call' = [call EXCEPT ![c].pc = "moving", ![c].victim = v]
       ELSE /\ call' = [call EXCEPT ![c].pc = "evicting", ![c].victim = v]
            /\ UNCHANGED deadLetter
  /\ UNCHANGED <<config, queue, backpressureActive, softLimitWarningActive, consumer>>

\* Mutant: the dead letter queue is trimmed one entry too late
TrimLate(d) ==
  IF Size(d) > MaxDeadLetterSize + 1 THEN {Delete(d, t) : t \in Oldest(d)} ELSE {d}

\* The dead letter queue after dropping its oldest entry if it is over its limit
Trim(d) ==
  IF Size(d) > MaxDeadLetterSize THEN {Delete(d, t) : t \in Oldest(d)} ELSE {d}

\* moveToDeadLetter after its event: the dead letter queue is trimmed by one
TrimDeadLetter(c) ==
  /\ call[c].pc = "moving"
  /\ Suspended(c, "evicting")
  /\ deadLetter' \in Trim(deadLetter)
  /\ UNCHANGED <<config, queue, backpressureActive, softLimitWarningActive, consumer>>

\* Mutant: having evicted, the call inserts its task without entering enqueue again
EvictAndInsert(c) ==
  /\ call[c].pc = "evicting"
  /\ Admit(c, call[c], Delete(queue, call[c].victim))
  /\ UNCHANGED <<config, deadLetter, backpressureActive, consumer>>

\* The victim leaves the queue and enqueue is entered again in the same step
Evict(c) ==
  /\ call[c].pc = "evicting"
  /\ Enter(c, [call[c] EXCEPT !.victim = NoTask],
           Delete(queue, call[c].victim))
  /\ UNCHANGED <<config, deadLetter, consumer>>

\* enqueue after the backpressure delay: the limits are not looked at again
DelayedInsert(c) ==
  /\ call[c].pc = "delaying"
  /\ Admit(c, call[c], queue)
  /\ UNCHANGED <<config, deadLetter, backpressureActive, consumer>>

\* enqueue returns success; retryFromDeadLetter then drops the dead letter entry
Accept(c) ==
  /\ call[c].pc = "accepting"
  /\ Returned(c)
  /\ deadLetter' = IF call[c].retry THEN Delete(deadLetter, call[c].task) ELSE deadLetter
  /\ UNCHANGED <<config, queue, backpressureActive, softLimitWarningActive, consumer>>

-----------------------------------------------------------------------------
(* dequeue *)

ConsumerPCs == {"idle",
                "dequeued",     \* awaits the task_dequeued event
                "settling"}     \* awaits the backpressure_deactivated event

Dequeue(k) ==
  /\ consumer[k] = "idle"
  /\ \E t \in HighestPriority(queue) : queue' = Delete(queue, t)
  /\ consumer' = [consumer EXCEPT ![k] = "dequeued"]
  /\ UNCHANGED <<config, deadLetter, backpressureActive, softLimitWarningActive, call>>

\* Mutant: the warning is reset at the soft limit instead of below it
ResetSoftLimitEarly(k) ==
  /\ softLimitWarningActive' = (softLimitWarningActive /\ Size(queue) > SoftLimit)
  /\ consumer' = [consumer EXCEPT ![k] = "idle"]

\* The last part of dequeue: reset the soft limit warning and return
ResetSoftLimit(k) ==
  /\ softLimitWarningActive' = (softLimitWarningActive /\ Size(queue) >= SoftLimit)
  /\ consumer' = [consumer EXCEPT ![k] = "idle"]

DeactivateBackpressure(k) ==
  /\ consumer[k] = "dequeued"
  /\ IF backpressureActive /\ ~ShouldApplyBackpressure(queue)
     THEN /\ backpressureActive' = FALSE
          /\ consumer' = [consumer EXCEPT ![k] = "settling"]
          /\ UNCHANGED softLimitWarningActive
     ELSE /\ ResetSoftLimit(k)
          /\ UNCHANGED backpressureActive
  /\ UNCHANGED <<config, queue, deadLetter, call>>

FinishDequeue(k) ==
  /\ consumer[k] = "settling"
  /\ ResetSoftLimit(k)
  /\ UNCHANGED <<config, queue, deadLetter, backpressureActive, call>>

-----------------------------------------------------------------------------
(* The synchronous methods *)

\* remove, called by the pool's assignWork and by its synchronous dequeue
Remove(t) ==
  /\ t \in DOMAIN queue
  /\ queue' = Delete(queue, t)
  /\ UNCHANGED <<config, deadLetter, backpressureActive, softLimitWarningActive, call, consumer>>

Clear ==
  /\ queue' = EmptyMap
  /\ backpressureActive' = FALSE
  /\ softLimitWarningActive' = FALSE
  /\ UNCHANGED <<config, deadLetter, call, consumer>>

ClearFromDeadLetter(t) ==
  /\ t \in DOMAIN deadLetter
  /\ deadLetter' = Delete(deadLetter, t)
  /\ UNCHANGED <<config, queue, backpressureActive, softLimitWarningActive, call, consumer>>

ClearDeadLetterQueue ==
  /\ deadLetter' = EmptyMap
  /\ UNCHANGED <<config, queue, backpressureActive, softLimitWarningActive, call, consumer>>

-----------------------------------------------------------------------------
(* Specification *)

Init ==
  /\ config \in Configs
  /\ queue = EmptyMap
  /\ deadLetter = EmptyMap
  /\ backpressureActive = FALSE
  /\ softLimitWarningActive = FALSE
  /\ call = [c \in Callers |-> Idle]
  /\ consumer = [k \in Consumers |-> "idle"]

CallStep(c) ==
  \/ HandleFullReject(c) \/ HandleFullEvict(c) \/ TrimDeadLetter(c) \/ Evict(c)
  \/ DelayedInsert(c) \/ Accept(c)

ConsumerStep(k) == DeactivateBackpressure(k) \/ FinishDequeue(k)

Next ==
  \/ \E c \in Callers, t \in Tasks :
       \/ \E p \in Priorities : Enqueue(c, t, p)
       \/ RetryFromDeadLetter(c, t)
  \/ \E c \in Callers : CallStep(c)
  \/ \E k \in Consumers : Dequeue(k) \/ ConsumerStep(k)
  \/ \E t \in Tasks : Remove(t) \/ ClearFromDeadLetter(t)
  \/ Clear
  \/ ClearDeadLetterQueue

Spec == Init /\ [][Next]_vars

-----------------------------------------------------------------------------
(* Properties *)

Entry == [prio : Nat, pos : Nat, at : Nat]

EntryMap(m) == DOMAIN m \subseteq Tasks /\ m \in [DOMAIN m -> Entry]

CallRecord == [pc : CallPCs, task : Tasks \cup {NoTask}, prio : Nat,
               victim : Tasks \cup {NoTask}, retry : BOOLEAN]

KnowsTask(r) == r.pc \in {"full", "moving", "evicting", "delaying"} => r.task \in Tasks

\* Types of the two Maps, the flags and the calls in progress; a call that has
\* still to insert knows its task.
TypeOK ==
  /\ config \in Configs
  /\ EntryMap(queue)
  /\ EntryMap(deadLetter)
  /\ backpressureActive \in BOOLEAN
  /\ softLimitWarningActive \in BOOLEAN
  /\ call \in [Callers -> CallRecord]
  /\ \A c \in Callers : KnowsTask(call[c])
  /\ consumer \in [Consumers -> ConsumerPCs]

At(pc) == {c \in Callers : call[c].pc = pc}

\* enqueue checks maxSize before the backpressure delay and inserts after it, so
\* the queue can grow past maxSize; but never by more than the calls that can be
\* delayed at once less one.  With a single caller this is the hard limit itself.
OvershootBounded ==
  Size(queue) + Cardinality(At("delaying")) <= MaxSize + Cardinality(Callers) - 1

\* moveToDeadLetter inserts, awaits its event and trims one entry: whatever the
\* interleaving, only the calls still awaiting the event can exceed the limit.
DeadLetterBounded ==
  Size(deadLetter) <= MaxDeadLetterSize + Cardinality(At("moving"))

\* The soft limit warning is never missing while the queue is at the soft limit:
\* checkSoftLimit after each insertion, and dequeue's reset, which reads the size
\* only after awaiting its events, cannot get in each other's way.
SoftLimitWarned == Size(queue) >= SoftLimit => softLimitWarningActive
=============================================================================
