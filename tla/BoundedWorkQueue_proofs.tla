---------------------- MODULE BoundedWorkQueue_proofs ----------------------
(***************************************************************************)
(* Proofs about BoundedWorkQueue for every set of tasks and callers and    *)
(* every limit.  The four invariants are inductive together: a bound on    *)
(* the queue needs the count of the delayed calls, a bound on the dead     *)
(* letters the count of the calls awaiting the move event.                 *)
(***************************************************************************)
EXTENDS BoundedWorkQueue, FiniteSetTheorems, TLAPS

IInv == TypeOK /\ OvershootBounded /\ DeadLetterBounded /\ SoftLimitWarned

-----------------------------------------------------------------------------
(* Maps *)

LEMMA MapFinite ==
  ASSUME NEW m, EntryMap(m)
  PROVE  IsFiniteSet(DOMAIN m) /\ Size(m) \in Nat
BY QueueAssumption, FS_Subset, FS_CardinalityType DEF EntryMap, Size

\* Renumbering keeps the keys and yields entries whatever the numbers were.
LEMMA KeepType ==
  ASSUME NEW m, NEW D \in SUBSET Tasks,
         \A t \in D : m[t].prio \in Nat
  PROVE  EntryMap(Keep(m, D)) /\ DOMAIN Keep(m, D) = D
<1>1. IsFiniteSet(D)
  BY QueueAssumption, FS_Subset
<1>2. ASSUME NEW t \in D
      PROVE  /\ Cardinality({u \in D : m[u].pos <= m[t].pos}) \in Nat
             /\ Cardinality({u \in D : m[u].at <= m[t].at}) \in Nat
  <2>1. {u \in D : m[u].pos <= m[t].pos} \in SUBSET D
    OBVIOUS
  <2>2. {u \in D : m[u].at <= m[t].at} \in SUBSET D
    OBVIOUS
  <2>. QED  BY <1>1, <2>1, <2>2, FS_Subset, FS_CardinalityType
<1>. QED  BY <1>2 DEF EntryMap, Entry, Keep

LEMMA DeleteType ==
  ASSUME NEW m, NEW t, EntryMap(m)
  PROVE  /\ EntryMap(Delete(m, t))
         /\ DOMAIN Delete(m, t) = DOMAIN m \ {t}
         /\ Size(Delete(m, t)) = IF t \in DOMAIN m THEN Size(m) - 1 ELSE Size(m)
<1>1. DOMAIN m \ {t} \in SUBSET Tasks /\ \A u \in DOMAIN m \ {t} : m[u].prio \in Nat
  BY DEF EntryMap, Entry
<1>2. EntryMap(Delete(m, t)) /\ DOMAIN Delete(m, t) = DOMAIN m \ {t}
  BY <1>1, KeepType DEF Delete
<1>. QED  BY <1>2, MapFinite, FS_RemoveElement DEF Size

LEMMA SetType ==
  ASSUME NEW m, NEW t \in Tasks, NEW p \in Nat, EntryMap(m)
  PROVE  /\ EntryMap(Set(m, t, p))
         /\ DOMAIN Set(m, t, p) = DOMAIN m \cup {t}
         /\ Size(Set(m, t, p)) = IF t \in DOMAIN m THEN Size(m) ELSE Size(m) + 1
<1>. DEFINE D == DOMAIN m \cup {t}
            n == Size(m) + 1
            f == [u \in D |-> IF u = t
                              THEN [prio |-> p,
                                    pos  |-> IF t \in DOMAIN m THEN m[t].pos ELSE n,
                                    at   |-> n]
                              ELSE m[u]]
<1>1. D \in SUBSET Tasks /\ \A u \in D : f[u].prio \in Nat
  BY DEF EntryMap, Entry
<1>2. Set(m, t, p) = Keep(f, D)
  BY DEF Set
<1>3. EntryMap(Set(m, t, p)) /\ DOMAIN Set(m, t, p) = D
  <2>. HIDE DEF f, D
  <2>. QED  BY <1>1, <1>2, KeepType
<1>. QED  BY <1>3, MapFinite, FS_AddElement DEF Size

LEMMA EmptyMapType ==
  EntryMap(EmptyMap) /\ DOMAIN EmptyMap = {} /\ Size(EmptyMap) = 0
BY FS_EmptySet DEF EntryMap, EmptyMap, Size

\* What the actions need of the lemmas above.
LEMMA DeleteShrinks ==
  ASSUME NEW m, NEW t, EntryMap(m)
  PROVE  /\ EntryMap(Delete(m, t))
         /\ Size(Delete(m, t)) <= Size(m)
         /\ t \in DOMAIN m => Size(Delete(m, t)) <= Size(m) - 1
<1>1. Size(m) \in Nat
  BY MapFinite
<1>2. EntryMap(Delete(m, t))
  BY DeleteType
<1>3. Size(Delete(m, t)) = IF t \in DOMAIN m THEN Size(m) - 1 ELSE Size(m)
  BY DeleteType
<1>4. CASE t \in DOMAIN m
  BY <1>1, <1>2, <1>3, <1>4
<1>5. CASE t \notin DOMAIN m
  BY <1>1, <1>2, <1>3, <1>5
<1>. QED  BY <1>4, <1>5

LEMMA SetGrows ==
  ASSUME NEW m, NEW t \in Tasks, NEW p \in Nat, EntryMap(m)
  PROVE  /\ EntryMap(Set(m, t, p))
         /\ Size(Set(m, t, p)) <= Size(m) + 1
         /\ Size(Set(m, t, p)) \in Nat
<1>1. Size(m) \in Nat
  BY MapFinite
<1>2. EntryMap(Set(m, t, p))
  BY SetType
<1>3. Size(Set(m, t, p)) = IF t \in DOMAIN m THEN Size(m) ELSE Size(m) + 1
  BY SetType
<1>4. CASE t \in DOMAIN m
  BY <1>1, <1>2, <1>3, <1>4
<1>5. CASE t \notin DOMAIN m
  BY <1>1, <1>2, <1>3, <1>5
<1>. QED  BY <1>4, <1>5

-----------------------------------------------------------------------------
(* Calls *)

LEMMA IdleType == Idle \in CallRecord
BY DEF Idle, CallRecord, CallPCs

\* The calls at an await after one call has moved.
LEMMA AtUpdate ==
  ASSUME call \in [Callers -> CallRecord], NEW c \in Callers, NEW STATE r, NEW pc,
         call' = [call EXCEPT ![c] = r]
  PROVE  At(pc)' = IF r.pc = pc THEN At(pc) \cup {c} ELSE At(pc) \ {c}
BY DEF At

LEMMA AtFinite ==
  ASSUME NEW pc
  PROVE  /\ IsFiniteSet(At(pc)) /\ Cardinality(At(pc)) \in Nat
         /\ Cardinality(At(pc)) <= Cardinality(Callers)
         /\ Cardinality(Callers) \in Nat
<1>1. At(pc) \in SUBSET Callers
  BY DEF At
<1>. QED  BY <1>1, QueueAssumption, FS_Subset, FS_CardinalityType

LEMMA AddNew ==
  ASSUME NEW S, NEW x, IsFiniteSet(S), x \notin S
  PROVE  Cardinality(S \cup {x}) = Cardinality(S) + 1
BY FS_AddElement

\* A caller that is not among the calls at pc leaves room for one more.
LEMMA AtNotAll ==
  ASSUME NEW pc, NEW c \in Callers, c \notin At(pc)
  PROVE  Cardinality(At(pc)) + 1 <= Cardinality(Callers)
<1>1. At(pc) \cup {c} \in SUBSET Callers
  BY DEF At
<1>2. Cardinality(At(pc) \cup {c}) <= Cardinality(Callers)
  BY <1>1, QueueAssumption, FS_Subset
<1>3. Cardinality(At(pc) \cup {c}) = Cardinality(At(pc)) + 1
  BY AtFinite, AddNew
<1>. QED  BY <1>2, <1>3

LEMMA AtCount ==
  ASSUME call \in [Callers -> CallRecord], NEW c \in Callers, NEW STATE r, NEW pc,
         call' = [call EXCEPT ![c] = r]
  PROVE  /\ Cardinality(At(pc)') \in Nat
         /\ Cardinality(At(pc)') =
              IF r.pc = pc
              THEN IF call[c].pc = pc THEN Cardinality(At(pc)) ELSE Cardinality(At(pc)) + 1
              ELSE IF call[c].pc = pc THEN Cardinality(At(pc)) - 1 ELSE Cardinality(At(pc))
<1>1. At(pc)' = IF r.pc = pc THEN At(pc) \cup {c} ELSE At(pc) \ {c}
  BY AtUpdate
<1>2. c \in At(pc) <=> call[c].pc = pc
  BY DEF At
<1>3. IsFiniteSet(At(pc))
  BY AtFinite
<1>4. IsFiniteSet(At(pc)')
  BY <1>1, <1>3, FS_AddElement, FS_RemoveElement
<1>. QED  BY <1>1, <1>2, <1>3, <1>4, FS_AddElement, FS_RemoveElement, FS_CardinalityType

-----------------------------------------------------------------------------
(* Insertion and the first part of enqueue *)

LEMMA AcceptingType ==
  ASSUME NEW r \in CallRecord
  PROVE  Accepting(r) \in CallRecord /\ Accepting(r).pc = "accepting"
         /\ KnowsTask(Accepting(r))
BY DEF Accepting, Idle, CallRecord, CallPCs, KnowsTask

\* q: what is left of the queue once the caller's victim, if any, is gone.
LEMMA AdmitPreserves ==
  ASSUME IInv, NEW c \in Callers, NEW STATE r, r \in CallRecord, r.task \in Tasks,
         NEW STATE q, EntryMap(q), Size(q) <= Size(queue),
         call[c].pc # "moving",
         call[c].pc # "delaying" => Size(q) + 1 <= MaxSize,
         Admit(c, r, q), UNCHANGED <<config, deadLetter, consumer>>,
         backpressureActive' \in BOOLEAN
  PROVE  IInv'
<1>. USE DEF IInv
<1>1. call' = [call EXCEPT ![c] = Accepting(r)] /\ call \in [Callers -> CallRecord]
  BY DEF Admit, TypeOK
<1>2. /\ EntryMap(queue')
      /\ Size(queue') = IF r.task \in DOMAIN q THEN Size(q) ELSE Size(q) + 1
  BY SetType DEF Admit, CallRecord
<1>3. Size(q) \in Nat /\ Size(queue) \in Nat /\ Size(deadLetter) \in Nat
  BY MapFinite DEF TypeOK
<1>4. softLimitWarningActive' = (softLimitWarningActive \/ Size(queue') >= SoftLimit)
  BY DEF Admit
<1>5. TypeOK'
  BY <1>1, <1>2, <1>4, AcceptingType DEF TypeOK
<1>6. OvershootBounded'
  <2>1. Cardinality(At("delaying")') =
          IF call[c].pc = "delaying" THEN Cardinality(At("delaying")) - 1
                                     ELSE Cardinality(At("delaying"))
    BY <1>1, AtCount, AcceptingType
  <2>2. CASE call[c].pc = "delaying"
    BY <2>1, <2>2, <1>2, <1>3, AtFinite, QueueAssumption DEF OvershootBounded, Size
  <2>3. CASE call[c].pc # "delaying"
    <3>1. c \notin At("delaying")
      BY <2>3 DEF At
    <3>2. Cardinality(At("delaying")) + 1 <= Cardinality(Callers)
      BY <3>1, AtNotAll
    <3>3. Size(queue') <= MaxSize
      BY <2>3, <1>2, <1>3, QueueAssumption
    <3>4. Size(queue') \in Nat
      BY <1>2, MapFinite
    <3>. QED
      BY <2>1, <2>3, <3>2, <3>3, <3>4, AtFinite, QueueAssumption DEF OvershootBounded, Size
  <2>. QED  BY <2>2, <2>3
<1>7. DeadLetterBounded'
  <2>1. Cardinality(At("moving")') = Cardinality(At("moving"))
    BY <1>1, AtCount, AcceptingType
  <2>. QED  BY <2>1 DEF DeadLetterBounded, Size
<1>8. SoftLimitWarned'
  BY <1>4 DEF SoftLimitWarned, Size
<1>. QED  BY <1>5, <1>6, <1>7, <1>8

\* The counts when no call starts to wait for a delay or a move event.
LEMMA CountsKept ==
  ASSUME IInv, NEW c \in Callers, NEW STATE r, r \in CallRecord,
         KnowsTask(r), call' = [call EXCEPT ![c] = r], r.pc \notin {"delaying", "moving"},
         EntryMap(queue'), Size(queue') <= Size(queue),
         EntryMap(deadLetter'), UNCHANGED config, consumer' \in [Consumers -> ConsumerPCs],
         \/ Size(deadLetter') <= Size(deadLetter) /\ call[c].pc # "moving"
         \/ Size(deadLetter') <= MaxDeadLetterSize
         \/ Size(deadLetter') <= Size(deadLetter) - 1,
         UNCHANGED <<backpressureActive, softLimitWarningActive>>
  PROVE  IInv'
<1>. USE DEF IInv
<1>1. call \in [Callers -> CallRecord]
  BY DEF TypeOK
<1>2. /\ Size(queue) \in Nat /\ Size(deadLetter) \in Nat
      /\ Size(queue') \in Nat /\ Size(deadLetter') \in Nat
  BY MapFinite DEF TypeOK
<1>3. TypeOK'
  BY DEF TypeOK
<1>4. /\ Cardinality(At("delaying")') \in Nat
      /\ Cardinality(At("delaying")') = IF call[c].pc = "delaying"
                                        THEN Cardinality(At("delaying")) - 1
                                        ELSE Cardinality(At("delaying"))
  BY <1>1, AtCount
<1>5. OvershootBounded'
  BY <1>2, <1>4, AtFinite, QueueAssumption DEF OvershootBounded, Size
<1>6. /\ Cardinality(At("moving")') \in Nat
      /\ Cardinality(At("moving")') = IF call[c].pc = "moving"
                                      THEN Cardinality(At("moving")) - 1
                                      ELSE Cardinality(At("moving"))
  BY <1>1, AtCount
<1>7. DeadLetterBounded'
  BY <1>2, <1>6, AtFinite, QueueAssumption DEF DeadLetterBounded, Size
<1>8. SoftLimitWarned'
  BY <1>2, QueueAssumption DEF SoftLimitWarned, Size
<1>. QED  BY <1>3, <1>5, <1>7, <1>8

LEMMA EnterPreserves ==
  ASSUME IInv, NEW c \in Callers, NEW STATE r, r \in CallRecord, r.task \in Tasks,
         NEW STATE q, EntryMap(q), Size(q) <= Size(queue),
         call[c].pc \in {"idle", "evicting"}, r.pc \in {"idle", "evicting"},
         Enter(c, r, q), UNCHANGED <<config, deadLetter, consumer>>
  PROVE  IInv'
<1>. DEFINE overMemory == MemoryUsage(q, deadLetter) > MaxMemoryBytes
<1>1. Size(q) \in Nat /\ Size(queue) \in Nat /\ Size(deadLetter) \in Nat
  BY MapFinite DEF IInv, TypeOK
<1>2. CASE /\ r.task \in DOMAIN q
           /\ call' = [call EXCEPT ![c] = Accepting(r)]
           /\ queue' = q /\ UNCHANGED <<backpressureActive, softLimitWarningActive>>
  <2>. DEFINE s == Accepting(r)
  <2>1. s \in CallRecord /\ s.pc \notin {"delaying", "moving"} /\ KnowsTask(s)
    BY AcceptingType
  <2>2. call' = [call EXCEPT ![c] = s] /\ call[c].pc # "moving"
    BY <1>2
  <2>. HIDE DEF s
  <2>3. EntryMap(queue') /\ Size(queue') <= Size(queue)
    BY <1>2
  <2>4. /\ EntryMap(deadLetter') /\ Size(deadLetter') <= Size(deadLetter)
        /\ consumer' \in [Consumers -> ConsumerPCs]
    BY <1>1 DEF IInv, TypeOK
  <2>. QED  BY <1>2, <2>1, <2>2, <2>3, <2>4, CountsKept
<1>3. CASE /\ call' = [call EXCEPT ![c] = [r EXCEPT !.pc = "full"]]
           /\ queue' = q /\ UNCHANGED <<backpressureActive, softLimitWarningActive>>
  <2>. DEFINE s == [r EXCEPT !.pc = "full"]
  <2>1. s \in CallRecord /\ s.pc \notin {"delaying", "moving"} /\ KnowsTask(s)
    BY DEF CallRecord, CallPCs, KnowsTask
  <2>2. call' = [call EXCEPT ![c] = s] /\ call[c].pc # "moving"
    BY <1>3
  <2>. HIDE DEF s
  <2>3. EntryMap(queue') /\ Size(queue') <= Size(queue)
    BY <1>3
  <2>4. /\ EntryMap(deadLetter') /\ Size(deadLetter') <= Size(deadLetter)
        /\ consumer' \in [Consumers -> ConsumerPCs]
    BY <1>1 DEF IInv, TypeOK
  <2>. QED  BY <1>3, <2>1, <2>2, <2>3, <2>4, CountsKept
<1>4. CASE /\ Size(q) < MaxSize
           /\ call' = [call EXCEPT ![c] = [r EXCEPT !.pc = "delaying"]]
           /\ backpressureActive' = TRUE
           /\ queue' = q /\ UNCHANGED softLimitWarningActive
  <2>. DEFINE s == [r EXCEPT !.pc = "delaying"]
  <2>1. s \in CallRecord /\ s.pc = "delaying" /\ KnowsTask(s)
    BY DEF CallRecord, CallPCs, KnowsTask
  <2>s. call' = [call EXCEPT ![c] = s] /\ call[c].pc \notin {"delaying", "moving"}
    BY <1>4
  <2>2. call \in [Callers -> CallRecord]
    BY DEF IInv, TypeOK
  <2>. HIDE DEF s
  <2>3. TypeOK'
    BY <1>4, <2>1 DEF IInv, TypeOK, s
  <2>4. Cardinality(At("delaying")') = Cardinality(At("delaying")) + 1
    BY <2>1, <2>2, <2>s, AtCount
  <2>5. Cardinality(At("moving")') = Cardinality(At("moving"))
    BY <2>1, <2>2, <2>s, AtCount
  <2>6. Cardinality(At("delaying")) + 1 <= Cardinality(Callers)
    <3>1. c \notin At("delaying")
      BY DEF At
    <3>. QED  BY <3>1, AtNotAll
  <2>7. OvershootBounded'
    BY <1>1, <1>4, <2>4, <2>6, AtFinite, QueueAssumption DEF OvershootBounded, Size
  <2>8. DeadLetterBounded'
    BY <2>5 DEF IInv, DeadLetterBounded, Size
  <2>9. SoftLimitWarned'
    BY <1>1, <1>4, QueueAssumption DEF IInv, SoftLimitWarned, Size
  <2>. QED  BY <2>3, <2>7, <2>8, <2>9 DEF IInv
<1>5. CASE /\ Size(q) < MaxSize
           /\ Admit(c, r, q)
           /\ UNCHANGED backpressureActive
  <2>1. Size(q) + 1 <= MaxSize
    BY <1>1, <1>5, QueueAssumption
  <2>. QED  BY <1>5, <2>1, AdmitPreserves DEF IInv, TypeOK
<1>. QED  BY <1>2, <1>3, <1>4, <1>5 DEF Enter

-----------------------------------------------------------------------------
(* The invariants *)

LEMMA InitIInv == Init => IInv
<1>. SUFFICES ASSUME Init PROVE IInv
  OBVIOUS
<1>1. TypeOK
  BY EmptyMapType, IdleType, QueueAssumption DEF Init, TypeOK, ConsumerPCs, KnowsTask, Idle
<1>2. At("delaying") = {} /\ At("moving") = {}
  BY DEF Init, At, Idle
<1>3. Cardinality(At("delaying")) = 0 /\ Cardinality(At("moving")) = 0
  BY <1>2, FS_EmptySet
<1>4. Cardinality(Callers) \in Nat
  BY AtFinite
<1>5. Size(queue) = 0 /\ Size(deadLetter) = 0
  BY EmptyMapType DEF Init
<1>6. Cardinality(Callers) >= 0 /\ MaxSize + Cardinality(Callers) - 1 >= 0
  BY <1>4, QueueAssumption
<1>7. OvershootBounded /\ DeadLetterBounded /\ SoftLimitWarned
  BY <1>3, <1>4, <1>5, <1>6, QueueAssumption
     DEF OvershootBounded, DeadLetterBounded, SoftLimitWarned
<1>. QED  BY <1>1, <1>7 DEF IInv

\* One step per action; the synchronous methods and dequeue share <1>9.
LEMMA StepIInv == IInv /\ [Next]_vars => IInv'
<1>. SUFFICES ASSUME IInv, [Next]_vars PROVE IInv'
  OBVIOUS
<1>t. TypeOK
  BY DEF IInv
<1>e. EntryMap(queue) /\ EntryMap(deadLetter) /\ consumer \in [Consumers -> ConsumerPCs]
  BY <1>t DEF TypeOK
<1>n. /\ Size(queue) \in Nat /\ Size(deadLetter) \in Nat
  BY <1>t, MapFinite DEF TypeOK
<1>i. Idle \in CallRecord /\ Idle.pc = "idle" /\ KnowsTask(Idle)
  BY IdleType DEF Idle, KnowsTask
<1>1. ASSUME NEW c \in Callers, NEW t \in Tasks, NEW p \in Priorities, Enqueue(c, t, p)
      PROVE  IInv'
  <2>. DEFINE r == [Idle EXCEPT !.task = t, !.prio = p]
  <2>1. r \in CallRecord /\ r.task \in Tasks /\ r.pc = "idle"
    BY QueueAssumption DEF Idle, CallRecord, CallPCs
  <2>2. Enter(c, r, queue) /\ call[c].pc = "idle" /\ UNCHANGED <<config, deadLetter, consumer>>
    BY <1>1 DEF Enqueue
  <2>. HIDE DEF r
  <2>. QED  BY <1>t, <1>n, <2>1, <2>2, EnterPreserves DEF TypeOK
<1>2. ASSUME NEW c \in Callers, NEW t \in Tasks, RetryFromDeadLetter(c, t)
      PROVE  IInv'
  <2>. DEFINE r == [Idle EXCEPT !.task = t, !.prio = deadLetter[t].prio, !.retry = TRUE]
  <2>1. r \in CallRecord /\ r.task \in Tasks /\ r.pc = "idle"
    BY <1>2, <1>t DEF RetryFromDeadLetter, Idle, CallRecord, CallPCs, TypeOK, EntryMap, Entry
  <2>2. Enter(c, r, queue) /\ call[c].pc = "idle" /\ UNCHANGED <<config, deadLetter, consumer>>
    BY <1>2 DEF RetryFromDeadLetter
  <2>. HIDE DEF r
  <2>. QED  BY <1>t, <1>n, <2>1, <2>2, EnterPreserves DEF TypeOK
<1>3. ASSUME NEW c \in Callers, HandleFullReject(c)
      PROVE  IInv'
  <2>1. /\ call' = [call EXCEPT ![c] = Idle] /\ call[c].pc # "moving"
        /\ EntryMap(queue') /\ Size(queue') <= Size(queue)
        /\ EntryMap(deadLetter') /\ Size(deadLetter') <= Size(deadLetter)
        /\ consumer' \in [Consumers -> ConsumerPCs]
        /\ UNCHANGED <<config, backpressureActive, softLimitWarningActive>>
    BY <1>3, <1>t, <1>n DEF HandleFullReject, Returned, TypeOK
  <2>. QED  BY <2>1, <1>i, CountsKept
<1>4. ASSUME NEW c \in Callers, HandleFullEvict(c)
      PROVE  IInv'
  <2>1. PICK v \in Victims(queue) :
           IF config.enableDeadLetter
           THEN /\ deadLetter' = Set(deadLetter, v, queue[v].prio)
                /\ call' = [call EXCEPT ![c].pc = "moving", ![c].victim = v]
           ELSE /\ call' = [call EXCEPT ![c].pc = "evicting", ![c].victim = v]
                /\ UNCHANGED deadLetter
    BY <1>4 DEF HandleFullEvict
  <2>2. v \in Tasks /\ queue[v].prio \in Nat
    BY <1>t DEF TypeOK, EntryMap, Entry, Victims, Oldest, LowestPriority
  <2>3. /\ call[c] \in CallRecord /\ call[c].pc = "full" /\ call[c].task \in Tasks
        /\ call \in [Callers -> CallRecord]
    BY <1>4, <1>t DEF HandleFullEvict, TypeOK, KnowsTask
  <2>4. UNCHANGED <<config, queue, backpressureActive, softLimitWarningActive, consumer>>
    BY <1>4 DEF HandleFullEvict
  <2>5. CASE config.enableDeadLetter
    <3>. DEFINE r == [call[c] EXCEPT !.pc = "moving", !.victim = v]
    <3>1. r \in CallRecord /\ r.pc = "moving" /\ KnowsTask(r)
      BY <2>2, <2>3 DEF CallRecord, CallPCs, KnowsTask
    <3>2. call' = [call EXCEPT ![c] = r] /\ deadLetter' = Set(deadLetter, v, queue[v].prio)
      BY <2>1, <2>3, <2>5
    <3>. HIDE DEF r
    <3>3. EntryMap(deadLetter') /\ Size(deadLetter') <= Size(deadLetter) + 1
          /\ Size(deadLetter') \in Nat
      BY <3>2, <2>2, <1>e, SetGrows
    <3>4. TypeOK'
      BY <3>1, <3>2, <3>3, <2>4, <1>t DEF TypeOK
    <3>5. Cardinality(At("delaying")') = Cardinality(At("delaying"))
      BY <3>1, <3>2, <2>3, AtCount
    <3>6. Cardinality(At("moving")') = Cardinality(At("moving")) + 1
      BY <3>1, <3>2, <2>3, AtCount
    <3>7. OvershootBounded' /\ SoftLimitWarned'
      BY <3>5, <2>4 DEF IInv, OvershootBounded, SoftLimitWarned, Size
    <3>8. DeadLetterBounded'
      BY <3>3, <3>6, <1>n, AtFinite, QueueAssumption DEF IInv, DeadLetterBounded, Size
    <3>. QED  BY <3>4, <3>7, <3>8 DEF IInv
  <2>6. CASE ~config.enableDeadLetter
    <3>. DEFINE r == [call[c] EXCEPT !.pc = "evicting", !.victim = v]
    <3>1. r \in CallRecord /\ r.pc \notin {"delaying", "moving"} /\ KnowsTask(r)
      BY <2>2, <2>3 DEF CallRecord, CallPCs, KnowsTask
    <3>2. call' = [call EXCEPT ![c] = r] /\ deadLetter' = deadLetter /\ call[c].pc # "moving"
      BY <2>1, <2>3, <2>6
    <3>. HIDE DEF r
    <3>3. /\ EntryMap(queue') /\ Size(queue') <= Size(queue)
          /\ EntryMap(deadLetter') /\ Size(deadLetter') <= Size(deadLetter)
          /\ consumer' \in [Consumers -> ConsumerPCs]
      BY <3>2, <2>4, <1>t, <1>n DEF TypeOK
    <3>. QED  BY <3>1, <3>2, <3>3, <2>4, CountsKept
  <2>. QED  BY <2>5, <2>6
<1>5. ASSUME NEW c \in Callers, TrimDeadLetter(c)
      PROVE  IInv'
  <2>. DEFINE r == [call[c] EXCEPT !.pc = "evicting"]
  <2>1. /\ call[c] \in CallRecord /\ call[c].pc = "moving" /\ call[c].task \in Tasks
        /\ call' = [call EXCEPT ![c] = r]
        /\ UNCHANGED <<config, queue, backpressureActive, softLimitWarningActive, consumer>>
    BY <1>5, <1>t DEF TrimDeadLetter, Suspended, TypeOK, KnowsTask
  <2>2. r \in CallRecord /\ r.pc \notin {"delaying", "moving"} /\ KnowsTask(r)
    BY <2>1 DEF CallRecord, CallPCs, KnowsTask
  <2>. HIDE DEF r
  <2>3. /\ EntryMap(deadLetter')
        /\ Size(deadLetter') <= MaxDeadLetterSize \/ Size(deadLetter') <= Size(deadLetter) - 1
    <3>1. deadLetter' \in Trim(deadLetter)
      BY <1>5 DEF TrimDeadLetter
    <3>2. CASE Size(deadLetter) > MaxDeadLetterSize
      <4>1. PICK t \in Oldest(deadLetter) : deadLetter' = Delete(deadLetter, t)
        BY <3>1, <3>2 DEF Trim
      <4>2. t \in DOMAIN deadLetter
        BY DEF Oldest
      <4>. QED  BY <4>1, <4>2, <1>e, DeleteShrinks
    <3>3. CASE ~(Size(deadLetter) > MaxDeadLetterSize)
      BY <3>1, <3>3, <1>t, <1>n, QueueAssumption DEF Trim, TypeOK
    <3>. QED  BY <3>2, <3>3
  <2>4. EntryMap(queue') /\ Size(queue') <= Size(queue) /\ consumer' \in [Consumers -> ConsumerPCs]
    BY <2>1, <1>t, <1>n DEF TypeOK
  <2>. QED  BY <2>1, <2>2, <2>3, <2>4, CountsKept
<1>6. ASSUME NEW c \in Callers, Evict(c)
      PROVE  IInv'
  <2>. DEFINE r == [call[c] EXCEPT !.victim = NoTask]
              q == Delete(queue, call[c].victim)
  <2>1. /\ call[c] \in CallRecord /\ call[c].pc = "evicting" /\ call[c].task \in Tasks
        /\ Enter(c, r, q) /\ UNCHANGED <<config, deadLetter, consumer>>
    BY <1>6, <1>t DEF Evict, TypeOK, KnowsTask
  <2>2. r \in CallRecord /\ r.task \in Tasks /\ r.pc = "evicting"
    BY <2>1 DEF CallRecord
  <2>3. EntryMap(q) /\ Size(q) <= Size(queue)
    BY <1>e, DeleteShrinks
  <2>. HIDE DEF r, q
  <2>. QED  BY <2>1, <2>2, <2>3, EnterPreserves
<1>7. ASSUME NEW c \in Callers, DelayedInsert(c)
      PROVE  IInv'
  <2>1. /\ call[c] \in CallRecord /\ call[c].pc = "delaying" /\ call[c].task \in Tasks
        /\ Admit(c, call[c], queue) /\ UNCHANGED <<config, deadLetter, consumer>>
        /\ backpressureActive' \in BOOLEAN
        /\ EntryMap(queue) /\ Size(queue) <= Size(queue)
    BY <1>7, <1>t, <1>n DEF DelayedInsert, TypeOK, KnowsTask
  <2>. QED  BY <2>1, AdmitPreserves
<1>8. ASSUME NEW c \in Callers, Accept(c)
      PROVE  IInv'
  <2>1. /\ call' = [call EXCEPT ![c] = Idle] /\ call[c].pc # "moving"
        /\ EntryMap(queue') /\ Size(queue') <= Size(queue)
        /\ consumer' \in [Consumers -> ConsumerPCs]
        /\ UNCHANGED <<config, backpressureActive, softLimitWarningActive>>
    BY <1>8, <1>t, <1>n DEF Accept, Returned, TypeOK
  <2>2. EntryMap(deadLetter') /\ Size(deadLetter') <= Size(deadLetter)
    BY <1>8, <1>e, <1>n, DeleteShrinks DEF Accept
  <2>. QED  BY <2>1, <2>2, <1>i, CountsKept
<1>9. ASSUME UNCHANGED <<config, call>>, consumer' \in [Consumers -> ConsumerPCs],
             backpressureActive' \in BOOLEAN,
             EntryMap(queue'), Size(queue') <= Size(queue),
             EntryMap(deadLetter'), Size(deadLetter') <= Size(deadLetter),
             softLimitWarningActive' \in BOOLEAN,
             \/ UNCHANGED softLimitWarningActive
             \/ softLimitWarningActive' = (softLimitWarningActive /\ Size(queue') >= SoftLimit)
             \/ Size(queue') = 0
      PROVE  IInv'
  <2>1. TypeOK'
    BY <1>9, <1>t DEF TypeOK
  <2>2. At("delaying")' = At("delaying") /\ At("moving")' = At("moving")
    BY <1>9 DEF At
  <2>3. Size(queue') \in Nat /\ Size(deadLetter') \in Nat
    BY <1>9, MapFinite
  <2>4. OvershootBounded' /\ DeadLetterBounded'
    BY <1>9, <1>n, <2>2, <2>3, AtFinite, QueueAssumption
       DEF IInv, OvershootBounded, DeadLetterBounded, Size
  <2>5. SoftLimitWarned'
    BY <1>9, <1>n, <2>3, QueueAssumption DEF IInv, SoftLimitWarned, Size
  <2>. QED  BY <2>1, <2>4, <2>5 DEF IInv
<1>10. ASSUME NEW k \in Consumers, Dequeue(k) \/ ConsumerStep(k)
       PROVE  IInv'
  <2>1. consumer' \in [Consumers -> ConsumerPCs]
    BY <1>10, <1>e DEF Dequeue, ConsumerStep, DeactivateBackpressure, FinishDequeue,
                       ResetSoftLimit, ConsumerPCs
  <2>2. /\ UNCHANGED <<config, call>>
        /\ EntryMap(deadLetter') /\ Size(deadLetter') <= Size(deadLetter)
    BY <1>10, <1>e, <1>n DEF Dequeue, ConsumerStep, DeactivateBackpressure, FinishDequeue
  <2>3. EntryMap(queue') /\ Size(queue') <= Size(queue)
    BY <1>10, <1>e, <1>n, DeleteShrinks
       DEF Dequeue, ConsumerStep, DeactivateBackpressure, FinishDequeue
  <2>4. /\ backpressureActive' \in BOOLEAN /\ softLimitWarningActive' \in BOOLEAN
        /\ \/ UNCHANGED softLimitWarningActive
           \/ softLimitWarningActive' = (softLimitWarningActive /\ Size(queue') >= SoftLimit)
    BY <1>10, <1>t DEF Dequeue, ConsumerStep, DeactivateBackpressure, FinishDequeue,
                       ResetSoftLimit, TypeOK
  <2>. QED  BY <2>1, <2>2, <2>3, <2>4, <1>9
<1>11. ASSUME NEW t \in Tasks, Remove(t) \/ ClearFromDeadLetter(t)
       PROVE  IInv'
  <2>1. /\ UNCHANGED <<config, call, backpressureActive, softLimitWarningActive>>
        /\ consumer' \in [Consumers -> ConsumerPCs]
        /\ backpressureActive' \in BOOLEAN /\ softLimitWarningActive' \in BOOLEAN
    BY <1>11, <1>t DEF Remove, ClearFromDeadLetter, TypeOK
  <2>2. /\ EntryMap(queue') /\ Size(queue') <= Size(queue)
        /\ EntryMap(deadLetter') /\ Size(deadLetter') <= Size(deadLetter)
    BY <1>11, <1>e, <1>n, DeleteShrinks DEF Remove, ClearFromDeadLetter
  <2>. QED  BY <2>1, <2>2, <1>9
<1>12. CASE Clear \/ ClearDeadLetterQueue
  <2>1. /\ UNCHANGED <<config, call>> /\ consumer' \in [Consumers -> ConsumerPCs]
        /\ backpressureActive' \in BOOLEAN /\ softLimitWarningActive' \in BOOLEAN
    BY <1>12, <1>t DEF Clear, ClearDeadLetterQueue, TypeOK
  <2>2. /\ EntryMap(queue') /\ Size(queue') <= Size(queue)
        /\ EntryMap(deadLetter') /\ Size(deadLetter') <= Size(deadLetter)
        /\ UNCHANGED softLimitWarningActive \/ Size(queue') = 0
    BY <1>12, <1>e, <1>n, EmptyMapType DEF Clear, ClearDeadLetterQueue
  <2>. QED  BY <2>1, <2>2, <1>9
<1>14. CASE UNCHANGED vars
  BY <1>14, <1>t, <1>n, <1>9 DEF vars, TypeOK
<1>. QED
  BY <1>1, <1>2, <1>3, <1>4, <1>5, <1>6, <1>7, <1>8, <1>10, <1>11, <1>12, <1>14
     DEF Next, CallStep

\* The inductive invariant holds in every reachable state.
THEOREM Invariance == Spec => []IInv
<1>. QED  BY InitIInv, StepIInv, PTL DEF Spec

\* Types are kept by every operation, whatever the tasks, callers and limits.
THEOREM TypeCorrect == Spec => []TypeOK
<1>1. IInv => TypeOK
  BY DEF IInv
<1>. QED  BY <1>1, Invariance, PTL

\* However many enqueue calls are delayed together, the queue exceeds maxSize by
\* fewer entries than there are callers; one caller alone never exceeds it.
THEOREM QueueOvershoot == Spec => []OvershootBounded
<1>1. IInv => OvershootBounded
  BY DEF IInv
<1>. QED  BY <1>1, Invariance, PTL

\* The dead letter queue exceeds its limit only by calls about to trim it.
THEOREM DeadLetters == Spec => []DeadLetterBounded
<1>1. IInv => DeadLetterBounded
  BY DEF IInv
<1>. QED  BY <1>1, Invariance, PTL

\* The soft limit warning is up whenever the queue is at its soft limit.
THEOREM SoftLimitWarning == Spec => []SoftLimitWarned
<1>1. IInv => SoftLimitWarned
  BY DEF IInv
<1>. QED  BY <1>1, Invariance, PTL
=============================================================================
