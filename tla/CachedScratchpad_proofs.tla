----------------------- MODULE CachedScratchpad_proofs -----------------------
(* Proofs about CachedScratchpad and its batcher: the type invariant, the     *)
(* refinement of the write-behind store for configurations that only queue,   *)
(* that a caller that awaits its calls reads its own writes, and that no      *)
(* promise of a write is forgotten.                                           *)
EXTENDS CachedScratchpad, TLAPS

PendingWrite == [content : 0..MaxWrites, resolvers : SUBSET Contents]

CacheEntry == [content : 0..MaxWrites, mtime : 0..MaxWrites]

-----------------------------------------------------------------------------
(* Types *)

LEMMA SubmitTypes ==
  ASSUME TypeOK, NEW k \in Keys, NEW o \in Outcomes, Submit(k, o)
  PROVE  /\ last' \in [Keys -> 0..MaxWrites]
         /\ outcome' \in [Keys -> [Contents -> Outcomes]]
         /\ last[k] + 1 \in Contents
         /\ last'[k] = last[k] + 1
<1>1. last \in [Keys -> 0..MaxWrites] /\ outcome \in [Keys -> [Contents -> Outcomes]] /\ MaxWrites \in Nat
  BY BatcherAssumption DEF TypeOK, BatcherTypeOK
<1>2. last[k] + 1 \in 1..MaxWrites
  BY <1>1 DEF Submit
<1>3. last' \in [Keys -> 0..MaxWrites] /\ last'[k] = last[k] + 1
  BY <1>1, <1>2 DEF Submit
<1>4. outcome' \in [Keys -> [Contents -> Outcomes]]
  BY <1>1 DEF Submit
<1> QED BY <1>2, <1>3, <1>4 DEF Contents

LEMMA SnapshotType == ASSUME NEW p \in [Keys -> PendingWrite] PROVE Snapshot(p) \subseteq Write
BY BatcherAssumption DEF Snapshot, Pending, PendingWrite, Write, Contents

LEMMA WriteType ==
  ASSUME NEW w \in Write
  PROVE  w.key \in Keys /\ w.content \in Contents /\ w.content \in 0..MaxWrites /\ w.resolvers \subseteq Contents
BY BatcherAssumption DEF Write, Contents

LEMMA UnpendingType == Unpending \in PendingWrite
BY BatcherAssumption DEF Unpending, PendingWrite, Contents

LEMMA StartFlushTypes ==
  ASSUME TypeOK, NEW p \in [Keys -> PendingWrite], StartFlush(p)
  PROVE  /\ pending' \in [Keys -> PendingWrite]
         /\ batch' \subseteq Write
         /\ isFlushing' \in BOOLEAN
         /\ batch' # {} => isFlushing'
BY SnapshotType, UnpendingType DEF StartFlush, TypeOK, BatcherTypeOK

\* The cache and the calls in the types of a step of the batcher
LEMMA CacheTypes ==
  ASSUME TypeOK, UNCHANGED <<cache, call>>
  PROVE  /\ cache' \in [Keys -> CacheEntry]
         /\ call' \in [Clients -> [pc : PCs, key : Keys, entry : CacheEntry]]
BY DEF TypeOK, CacheEntry

LEMMA EntryTypes ==
  /\ NoEntry \in CacheEntry
  /\ \A n \in 0..MaxWrites : OwnEntry(n) \in CacheEntry
BY BatcherAssumption DEF NoEntry, OwnEntry, CacheEntry

LEMMA IdleType == Idle \in [pc : PCs, key : Keys, entry : CacheEntry]
<1>1. (CHOOSE k \in Keys : TRUE) \in Keys
  BY CacheAssumption
<1> QED BY <1>1, EntryTypes DEF Idle, PCs

LEMMA UpdateCacheType ==
  ASSUME TypeOK, NEW k \in Keys, last'[k] \in 0..MaxWrites, UpdateCache(k)
  PROVE  cache' \in [Keys -> CacheEntry]
BY EntryTypes DEF UpdateCache, CacheWrite, TypeOK, CacheEntry

LEMMA GotoType ==
  ASSUME TypeOK, NEW c \in Clients, NEW pc \in PCs, NEW k \in Keys, NEW e \in CacheEntry,
         Goto(c, pc, k, e)
  PROVE  call' \in [Clients -> [pc : PCs, key : Keys, entry : CacheEntry]]
BY DEF Goto, TypeOK, CacheEntry

LEMMA AnswerType ==
  ASSUME TypeOK, NEW c \in Clients, NEW k \in Keys, NEW n \in 0..MaxWrites, Answer(c, k, n)
  PROVE  call' \in [Clients -> [pc : PCs, key : Keys, entry : CacheEntry]]
<1>1. OwnEntry(n) \in CacheEntry /\ "answered" \in PCs
  BY EntryTypes DEF PCs
<1> QED BY <1>1, GotoType DEF Answer

LEMMA CoalescedType ==
  ASSUME NEW w \in PendingWrite, NEW n \in Contents PROVE Coalesced(w, n) \in PendingWrite
BY BatcherAssumption DEF Coalesced, PendingWrite, Contents

LEMMA SettleTypes ==
  ASSUME TypeOK, NEW w \in Write, NEW o \in Outcomes, Settle(w, o)
  PROVE  outcome' \in [Keys -> [Contents -> Outcomes]]
<1>1. w.key \in Keys /\ outcome \in [Keys -> [Contents -> Outcomes]]
  BY DEF TypeOK, BatcherTypeOK, Write
<1> DEFINE f == [n \in Contents |-> IF n \in w.resolvers THEN o ELSE outcome[w.key][n]]
<1>2. f \in [Contents -> Outcomes]
  BY <1>1
<1>3. outcome' = [outcome EXCEPT ![w.key] = f]
  BY DEF Settle
<1> QED BY <1>1, <1>2, <1>3

\* Steps of the batcher that leave the cache and the calls alone
LEMMA BatcherStepTypes == TypeOK /\ BatcherStep => TypeOK'
<1> SUFFICES ASSUME TypeOK, BatcherStep PROVE TypeOK'
  OBVIOUS
<1> USE CacheTypes DEF TypeOK, BatcherTypeOK, CacheEntry
<1>1. ASSUME NEW w \in batch, Written(w) PROVE TypeOK'
  <2>1. w \in Write /\ w.key \in Keys /\ w.content \in 0..MaxWrites
    BY WriteType
  <2>2. outcome' \in [Keys -> [Contents -> Outcomes]]
    BY <1>1, <2>1, SettleTypes DEF Written, SettleBatched, Outcomes
  <2>3. disk' \in [Keys -> 0..MaxWrites]
    BY <1>1, <2>1 DEF Written
  <2> QED BY <1>1, <2>2, <2>3 DEF Written, BatcherStep
<1>2. ASSUME NEW w \in batch, WriteFails(w) PROVE TypeOK'
  <2>1. w \in Write
    OBVIOUS
  <2>2. outcome' \in [Keys -> [Contents -> Outcomes]]
    BY <1>2, <2>1, SettleTypes DEF WriteFails, SettleBatched, Outcomes
  <2> QED BY <1>2, <2>2 DEF WriteFails, BatcherStep
<1>3. ASSUME NEW w \in direct, DirectWritten(w) PROVE TypeOK'
  <2>1. w \in Write /\ w.key \in Keys /\ w.content \in 0..MaxWrites
    BY WriteType
  <2>2. outcome' \in [Keys -> [Contents -> Outcomes]]
    BY <1>3, <2>1, SettleTypes DEF DirectWritten, Outcomes
  <2>3. disk' \in [Keys -> 0..MaxWrites]
    BY <1>3, <2>1 DEF DirectWritten
  <2> QED BY <1>3, <2>2, <2>3 DEF DirectWritten, BatcherStep
<1>4. ASSUME NEW w \in direct, DirectFails(w) PROVE TypeOK'
  <2>1. w \in Write
    OBVIOUS
  <2>2. outcome' \in [Keys -> [Contents -> Outcomes]]
    BY <1>4, <2>1, SettleTypes DEF DirectFails, Outcomes
  <2> QED BY <1>4, <2>2 DEF DirectFails, BatcherStep
<1>5. CASE FlushDone
  BY <1>5 DEF FlushDone, BatcherStep, Closers
<1>6. CASE TimerFires
  <2>1. pending \in [Keys -> PendingWrite]
    BY DEF PendingWrite
  <2>2. StartFlush(pending)
    BY <1>6 DEF TimerFires, Flush
  <2>3. pending' \in [Keys -> PendingWrite] /\ batch' \subseteq Write /\ isFlushing' \in BOOLEAN
        /\ (batch' # {} => isFlushing')
    BY <2>1, <2>2, StartFlushTypes
  <2> QED BY <1>6, <2>3 DEF TimerFires, Flush, BatcherStep, PendingWrite
<1> QED BY <1>1, <1>2, <1>3, <1>4, <1>5, <1>6 DEF BatcherStep, Background

\* Calls of the clients
LEMMA WriteCallTypes ==
  ASSUME TypeOK, NEW k \in Keys, WriteQueued(k) \/ WriteThrough(k) \/ WriteNow(k)
  PROVE  TypeOK'
<1> USE DEF TypeOK, BatcherTypeOK, CacheEntry
<1>0. \A n \in Contents : n \in 0..MaxWrites
  BY BatcherAssumption DEF Contents
<1>1. CASE WriteQueued(k) /\ Enqueue(k)
  <2>1. Submit(k, "open") /\ UpdateCache(k)
    BY <1>1 DEF WriteQueued, Enqueue
  <2>2. /\ last' \in [Keys -> 0..MaxWrites] /\ outcome' \in [Keys -> [Contents -> Outcomes]]
        /\ last[k] + 1 \in Contents /\ last'[k] \in 0..MaxWrites
    BY <2>1, SubmitTypes DEF Outcomes
  <2>3. cache' \in [Keys -> CacheEntry]
    BY <2>1, <2>2, UpdateCacheType
  <2> DEFINE p == [pending EXCEPT ![k] = Coalesced(@, last[k] + 1)]
  <2>4. p \in [Keys -> PendingWrite]
    BY <2>2, CoalescedType DEF PendingWrite
  <2>5. \/ StartFlush(p)
        \/ pending' = p /\ UNCHANGED <<batch, isFlushing>>
    BY <1>1 DEF Enqueue
  <2> HIDE DEF p
  <2>6. /\ pending' \in [Keys -> PendingWrite] /\ batch' \subseteq Write /\ isFlushing' \in BOOLEAN
        /\ batch' # {} => isFlushing'
    BY <2>4, <2>5, StartFlushTypes
  <2> QED BY <1>1, <2>2, <2>3, <2>6 DEF WriteQueued, Enqueue, PendingWrite
<1>2. CASE UpdateCache(k) /\ UNCHANGED call /\ Refuse(k)
  <2>1. Submit(k, "rejected") /\ UpdateCache(k)
    BY <1>2 DEF Refuse
  <2>2. /\ last' \in [Keys -> 0..MaxWrites] /\ outcome' \in [Keys -> [Contents -> Outcomes]]
        /\ last'[k] \in 0..MaxWrites
    BY <2>1, SubmitTypes DEF Outcomes
  <2>3. cache' \in [Keys -> CacheEntry]
    BY <2>1, <2>2, UpdateCacheType
  <2> QED BY <1>2, <2>2, <2>3 DEF Refuse
<1>3. CASE WriteThrough(k)
  <2>1. Submit(k, "open") /\ UpdateCache(k)
    BY <1>3 DEF WriteThrough, WriteDirect
  <2>2. /\ last' \in [Keys -> 0..MaxWrites] /\ outcome' \in [Keys -> [Contents -> Outcomes]]
        /\ last[k] + 1 \in Contents /\ last'[k] \in 0..MaxWrites
    BY <2>1, SubmitTypes DEF Outcomes
  <2>3. cache' \in [Keys -> CacheEntry]
    BY <2>1, <2>2, UpdateCacheType
  <2>4. Single(k) \in Write
    BY <2>2 DEF Single, Write
  <2>5. direct' \subseteq Write
    BY <1>3, <2>4 DEF WriteThrough, WriteDirect
  <2> QED BY <1>3, <2>2, <2>3, <2>5 DEF WriteThrough, WriteDirect
<1>4. CASE WriteNow(k) /\ WriteImmediate(k)
  <2>1. last[k] + 1 \in Contents /\ last' = [last EXCEPT ![k] = last[k] + 1]
    BY <1>4, BatcherAssumption DEF WriteImmediate, Contents
  <2>2. last' \in [Keys -> 0..MaxWrites] /\ last'[k] \in 0..MaxWrites
    BY <2>1, <1>0
  <2> DEFINE f == [n \in Contents |-> IF n = last[k] + 1 THEN "open"
                     ELSE IF n \in pending[k].resolvers THEN "rejected" ELSE outcome[k][n]]
  <2>3. f \in [Contents -> Outcomes]
    BY DEF Outcomes
  <2>4. outcome' = [outcome EXCEPT ![k] = f]
    BY <1>4 DEF WriteImmediate
  <2>5. outcome' \in [Keys -> [Contents -> Outcomes]]
    BY <2>3, <2>4
  <2>6. cache' \in [Keys -> CacheEntry]
    BY <1>4, <2>2, UpdateCacheType DEF WriteNow
  <2>7. Single(k) \in Write
    BY <2>1 DEF Single, Write
  <2>8. direct' \subseteq Write
    BY <1>4, <2>7 DEF WriteImmediate
  <2>9. pending' \in [Keys -> PendingWrite]
    BY <1>4, UnpendingType DEF WriteImmediate, PendingWrite
  <2> QED BY <1>4, <2>2, <2>5, <2>6, <2>8, <2>9 DEF WriteNow, WriteImmediate, PendingWrite
<1> QED BY <1>1, <1>2, <1>3, <1>4 DEF WriteQueued, WriteNow

LEMMA ReadCallTypes ==
  ASSUME TypeOK, NEW c \in Clients, (\E k \in Keys : Read(c, k) \/ Delete(c, k)) \/ ReadStep(c)
  PROVE  TypeOK'
<1> DEFINE k0 == call[c].key
           e0 == call[c].entry
<1>0. /\ k0 \in Keys /\ e0 \in CacheEntry /\ e0.content \in 0..MaxWrites
      /\ \A k \in Keys : cache[k] \in CacheEntry /\ cache[k].content \in 0..MaxWrites
                        /\ disk[k] \in 0..MaxWrites
  BY DEF TypeOK, BatcherTypeOK, CacheEntry
<1>t. /\ cache \in [Keys -> CacheEntry]
      /\ call \in [Clients -> [pc : PCs, key : Keys, entry : CacheEntry]]
  BY DEF TypeOK, CacheEntry
<1>s. (UNCHANGED batcherVars /\ cache' \in [Keys -> CacheEntry]
        /\ call' \in [Clients -> [pc : PCs, key : Keys, entry : CacheEntry]]) => TypeOK'
  BY DEF TypeOK, BatcherTypeOK, CacheEntry, batcherVars
<1>1. ASSUME NEW k \in Keys, Read(c, k) PROVE TypeOK'
  <2>1. call' \in [Clients -> [pc : PCs, key : Keys, entry : CacheEntry]]
    BY <1>0, <1>1, EntryTypes, GotoType, AnswerType DEF Read, PCs
  <2> QED BY <1>1, <1>s, <1>t, <2>1 DEF Read
<1>2. ASSUME NEW k \in Keys, Delete(c, k) PROVE TypeOK'
  <2>1. call' \in [Clients -> [pc : PCs, key : Keys, entry : CacheEntry]]
    BY <1>2, EntryTypes, GotoType DEF Delete, PCs
  <2>2. cache' \in [Keys -> CacheEntry]
    BY <1>2, <1>t, EntryTypes DEF Delete
  <2> QED BY <1>2, <1>s, <2>1, <2>2 DEF Delete
<1>3. CASE Checked(c)
  <2>1. call' \in [Clients -> [pc : PCs, key : Keys, entry : CacheEntry]]
    BY <1>0, <1>3, EntryTypes, GotoType, AnswerType DEF Checked, PCs
  <2>2. cache' \in [Keys -> CacheEntry]
    BY <1>0, <1>3, <1>t, EntryTypes DEF Checked
  <2> QED BY <1>3, <1>s, <2>1, <2>2 DEF Checked
<1>4. CASE FileRead(c)
  <2>1. call' \in [Clients -> [pc : PCs, key : Keys, entry : CacheEntry]]
    BY <1>0, <1>4, EntryTypes, GotoType, AnswerType DEF FileRead, PCs
  <2> QED BY <1>4, <1>s, <1>t, <2>1 DEF FileRead
<1>5. CASE FileStated(c)
  <2>0. 0 \in 0..MaxWrites
    BY BatcherAssumption
  <2>1. call' \in [Clients -> [pc : PCs, key : Keys, entry : CacheEntry]]
    BY <1>0, <1>5, <2>0, AnswerType DEF FileStated
  <2>2. [content |-> e0.content, mtime |-> disk[k0]] \in CacheEntry
    BY <1>0 DEF CacheEntry
  <2>3. cache' \in [Keys -> CacheEntry]
    BY <1>0, <1>5, <1>t, <2>2 DEF FileStated
  <2> QED BY <1>5, <1>s, <2>1, <2>3 DEF FileStated
<1>6. CASE Return(c)
  BY <1>6, <1>s, <1>t, IdleType DEF Return
<1>7. CASE Deleted(c)
  <2>1. call' \in [Clients -> [pc : PCs, key : Keys, entry : CacheEntry]]
    BY <1>7, <1>t, IdleType DEF Deleted
  <2>2. disk' \in [Keys -> 0..MaxWrites]
    BY <1>0, <1>7, BatcherAssumption DEF Deleted, TypeOK, BatcherTypeOK
  <2> QED BY <1>7, <1>t, <2>1, <2>2 DEF Deleted, TypeOK, BatcherTypeOK, CacheEntry
<1> QED BY <1>1, <1>2, <1>3, <1>4, <1>5, <1>6, <1>7 DEF ReadStep

LEMMA OtherTypes ==
  ASSUME TypeOK, (\E k \in Keys : Evict(k) \/ ExternalWrite(k)) \/ FlushNow \/ Cleanup \/ CleanedUp
  PROVE  TypeOK'
<1> USE DEF TypeOK, BatcherTypeOK, CacheEntry
<1>1. ASSUME NEW k \in Keys, Evict(k) PROVE TypeOK'
  BY <1>1, EntryTypes DEF Evict, batcherVars
<1>2. ASSUME NEW k \in Keys, ExternalWrite(k) PROVE TypeOK'
  <2>1. Submit(k, "resolved")
    BY <1>2 DEF ExternalWrite
  <2>2. /\ last' \in [Keys -> 0..MaxWrites] /\ outcome' \in [Keys -> [Contents -> Outcomes]]
        /\ last'[k] \in 0..MaxWrites
    BY <2>1, SubmitTypes DEF Outcomes
  <2>3. disk' \in [Keys -> 0..MaxWrites]
    BY <1>2, <2>2 DEF ExternalWrite
  <2> QED BY <1>2, <2>2, <2>3 DEF ExternalWrite
<1>3. ASSUME StartFlush(pending), closer' \in Closers,
             UNCHANGED <<config, last, direct, disk, outcome, cache, call>>
      PROVE TypeOK'
  <2>1. pending \in [Keys -> PendingWrite]
    BY DEF PendingWrite
  <2>2. /\ pending' \in [Keys -> PendingWrite] /\ batch' \subseteq Write /\ isFlushing' \in BOOLEAN
        /\ batch' # {} => isFlushing'
    BY <1>3, <2>1, StartFlushTypes
  <2> QED BY <1>3, <2>2 DEF PendingWrite
<1>4. CASE FlushNow
  BY <1>3, <1>4 DEF FlushNow, Flush
<1>5. CASE Cleanup
  BY <1>3, <1>5 DEF Cleanup, Close, Closers
<1>6. CASE CleanedUp
  BY <1>6, EntryTypes DEF CleanedUp, Closers
<1> QED BY <1>1, <1>2, <1>4, <1>5, <1>6

\* Initial states have the types, and every step keeps them
LEMMA InitTypes == Init => TypeOK
<1> SUFFICES ASSUME Init PROVE TypeOK
  OBVIOUS
<1>1. BatcherTypeOK
  <2>1. 0 \in 0..MaxWrites /\ "none" \in Outcomes /\ "no" \in Closers
    BY BatcherAssumption DEF Outcomes, Closers
  <2>2. last \in [Keys -> 0..MaxWrites] /\ disk \in [Keys -> 0..MaxWrites]
    BY <2>1 DEF Init, BatcherInit
  <2>3. pending \in [Keys -> PendingWrite]
    BY UnpendingType DEF Init, BatcherInit
  <2>4. outcome \in [Keys -> [Contents -> Outcomes]]
    BY <2>1 DEF Init, BatcherInit
  <2> QED BY <2>1, <2>2, <2>3, <2>4 DEF Init, BatcherInit, BatcherTypeOK, PendingWrite
<1>2. cache \in [Keys -> CacheEntry] /\ call \in [Clients -> [pc : PCs, key : Keys, entry : CacheEntry]]
  BY EntryTypes, IdleType DEF Init
<1> QED BY <1>1, <1>2 DEF TypeOK, CacheEntry

LEMMA NextTypes == TypeOK /\ [Next]_vars => TypeOK'
<1> SUFFICES ASSUME TypeOK, [Next]_vars PROVE TypeOK'
  OBVIOUS
<1>1. CASE UNCHANGED vars
  BY <1>1 DEF vars, TypeOK, BatcherTypeOK
<1>2. CASE Next
  BY <1>2, BatcherStepTypes, WriteCallTypes, ReadCallTypes, OtherTypes DEF Next
<1> QED BY <1>1, <1>2

\* Every variable has its type in every reachable state.
THEOREM TypeCorrect == SafeSpec => []TypeOK
BY InitTypes, NextTypes, PTL DEF SafeSpec

-----------------------------------------------------------------------------
(* The queue.  The operators take the records and the state they are compared *)
(* with as arguments, so that they can be stated of either end of a step.     *)

\* A record of key k names contents that were submitted, the last one being the one to
\* write; none of them is settled, and it is newer than what is stored
Fresh(k, w, l, d, o) ==
  /\ w.content \in w.resolvers
  /\ \A n \in w.resolvers : n <= w.content /\ o[k][n] = "open"
  /\ w.content <= l[k]
  /\ d[k] < w.content

BatchOrdered(W, l, d, o) ==
  /\ \A w \in W : Fresh(w.key, w, l, d, o)
  /\ \A v, w \in W : v.key = w.key => v = w

\* What is queued of a key is newer than what is being written of it
Queued(p, W, l, d, o) ==
  \A k \in Keys :
    IF p[k].content = 0 THEN p[k] = Unpending
    ELSE /\ Fresh(k, p[k], l, d, o)
         /\ \A w \in W : w.key = k =>
              w.content < p[k].content /\ w.resolvers \cap p[k].resolvers = {}

QueueOrdered ==
  /\ direct = {}
  /\ \A k \in Keys : disk[k] <= last[k]
  /\ BatchOrdered(batch, last, disk, outcome)
  /\ Queued(pending, batch, last, disk, outcome)

QueueInv == OnlyQueued => QueueOrdered

\* Only a configuration with deletions has one in flight
DeletionsAllowed == \A c \in Clients : call[c].pc = "deleting" => "delete" \in config.ops

\* Taking the queue keeps the order
LEMMA FlushOrdered ==
  ASSUME TypeOK, NEW p \in [Keys -> PendingWrite], NEW l, NEW o,
         BatchOrdered(batch, l, disk, o), Queued(p, batch, l, disk, o), StartFlush(p)
  PROVE  BatchOrdered(batch', l, disk, o) /\ Queued(pending', batch', l, disk, o)
<1>1. CASE MayFlush(p)
  <2>1. batch = {} /\ batch' = Snapshot(p) /\ pending' = [k \in Keys |-> Unpending]
    BY <1>1 DEF StartFlush, MayFlush, TypeOK, BatcherTypeOK
  <2>2. \A k \in Pending(p) : k \in Keys /\ Fresh(k, p[k], l, disk, o)
    BY DEF Pending, Queued
  <2>3. \A w \in Snapshot(p) : /\ w.key \in Pending(p)
                               /\ w.content = p[w.key].content /\ w.resolvers = p[w.key].resolvers
                               /\ w = [key |-> w.key, content |-> p[w.key].content,
                                       resolvers |-> p[w.key].resolvers]
    BY DEF Snapshot
  <2>4. \A w \in Snapshot(p) : Fresh(w.key, w, l, disk, o)
    BY <2>2, <2>3 DEF Fresh
  <2>5. \A v, w \in Snapshot(p) : v.key = w.key => v = w
    BY <2>3
  <2> QED BY <2>1, <2>4, <2>5 DEF BatchOrdered, Queued, Unpending
<1>2. CASE ~MayFlush(p)
  BY <1>2 DEF StartFlush
<1> QED BY <1>1, <1>2

LEMMA EnqueueOrdered ==
  ASSUME TypeOK, QueueOrdered, NEW k \in Keys, Submit(k, "open"), disk' = disk
  PROVE  /\ BatchOrdered(batch, last', disk, outcome')
         /\ Queued([pending EXCEPT ![k] = Coalesced(@, last[k] + 1)], batch, last', disk, outcome')
<1> DEFINE n0 == last[k] + 1
           p == [pending EXCEPT ![k] = Coalesced(@, n0)]
<1>1. /\ last[k] \in Nat /\ disk[k] \in Nat /\ n0 \in Contents
      /\ last'[k] = n0
      /\ \A j \in Keys : j # k => last'[j] = last[j]
  <2>1. /\ last \in [Keys -> 0..MaxWrites] /\ disk \in [Keys -> 0..MaxWrites] /\ MaxWrites \in Nat
    BY BatcherAssumption DEF TypeOK, BatcherTypeOK
  <2>2. n0 \in Contents /\ last'[k] = n0
    BY SubmitTypes DEF Outcomes
  <2>3. \A j \in Keys : j # k => last'[j] = last[j]
    BY <2>1 DEF Submit
  <2> QED BY <2>1, <2>2, <2>3
<1>2. \A j \in Keys, n \in Contents :
        outcome'[j][n] = IF j = k /\ n = n0 THEN "open" ELSE outcome[j][n]
  BY DEF Submit, TypeOK, BatcherTypeOK
<1>3. \A j \in Keys, n \in Contents : outcome[j][n] = "open" => outcome'[j][n] = "open"
  BY <1>2
<1>4. \A j \in Keys : last[j] \in Nat /\ last'[j] \in Nat /\ last[j] <= last'[j]
  <2>1. \A j \in Keys : last[j] \in Nat
    BY BatcherAssumption DEF TypeOK, BatcherTypeOK
  <2> QED BY <1>1, <2>1
<1>5. \A w \in batch : w.key \in Keys /\ w.content \in Nat /\ w.resolvers \subseteq Contents
  BY WriteType, BatcherAssumption DEF TypeOK, BatcherTypeOK
<1>6. \A j \in Keys : pending[j].content \in Nat /\ pending[j].resolvers \subseteq Contents
                     /\ disk[j] \in Nat
  BY BatcherAssumption DEF TypeOK, BatcherTypeOK
<1>7. ASSUME NEW j \in Keys, NEW w, w.content \in Nat, w.resolvers \subseteq Contents,
             Fresh(j, w, last, disk, outcome)
      PROVE Fresh(j, w, last', disk, outcome')
  BY <1>3, <1>4, <1>7 DEF Fresh
<1>8. BatchOrdered(batch, last', disk, outcome')
  BY <1>5, <1>7 DEF QueueOrdered, BatchOrdered
<1>9. \A w \in batch : w.key = k => w.content < n0 /\ n0 \notin w.resolvers
  <2> SUFFICES ASSUME NEW w \in batch, w.key = k PROVE w.content < n0 /\ n0 \notin w.resolvers
    OBVIOUS
  <2>1. w.content <= last[k] /\ \A n \in w.resolvers : n <= w.content
    BY DEF QueueOrdered, BatchOrdered, Fresh
  <2>2. \A n \in w.resolvers : n \in Nat
    BY <1>5 DEF Contents
  <2> QED BY <1>1, <1>5, <2>1, <2>2
<1> DEFINE q == [content |-> n0, resolvers |-> pending[k].resolvers \cup {n0}]
<1>10. p[k] = q /\ \A j \in Keys : j # k => p[j] = pending[j]
  BY DEF Coalesced, TypeOK, BatcherTypeOK
<1>11. disk[k] < n0 /\ \A n \in pending[k].resolvers : n <= n0 /\ outcome[k][n] = "open"
  <2>1. CASE pending[k].content = 0
    <3>1. pending[k].resolvers = {}
      BY <2>1 DEF QueueOrdered, Queued, Unpending
    <3> QED BY <1>1, <3>1 DEF QueueOrdered
  <2>2. CASE pending[k].content # 0
    <3>1. Fresh(k, pending[k], last, disk, outcome)
      BY <2>2 DEF QueueOrdered, Queued
    <3>2. \A n \in pending[k].resolvers : n \in Nat
      BY <1>6 DEF Contents
    <3> QED BY <1>1, <1>6, <3>1, <3>2 DEF Fresh
  <2> QED BY <2>1, <2>2
<1>12. Fresh(k, q, last', disk, outcome')
  <2>1. q.content = n0 /\ q.resolvers = pending[k].resolvers \cup {n0}
    OBVIOUS
  <2> HIDE DEF q
  <2>2. outcome'[k][n0] = "open" /\ \A n \in pending[k].resolvers : outcome'[k][n] = "open"
    BY <1>1, <1>2, <1>6, <1>11
  <2> QED BY <1>1, <1>11, <2>1, <2>2 DEF Fresh
<1>13. Queued(p, batch, last', disk, outcome')
  <2> SUFFICES ASSUME NEW j \in Keys
               PROVE  IF p[j].content = 0 THEN p[j] = Unpending
                      ELSE /\ Fresh(j, p[j], last', disk, outcome')
                           /\ \A w \in batch : w.key = j =>
                                w.content < p[j].content /\ w.resolvers \cap p[j].resolvers = {}
    BY DEF Queued
  <2>1. CASE j # k
    <3>1. p[j] = pending[j]
      BY <1>10, <2>1
    <3>2. IF pending[j].content = 0 THEN pending[j] = Unpending
          ELSE /\ Fresh(j, pending[j], last, disk, outcome)
               /\ \A w \in batch : w.key = j =>
                    w.content < pending[j].content /\ w.resolvers \cap pending[j].resolvers = {}
      BY DEF QueueOrdered, Queued
    <3> HIDE DEF p
    <3> QED BY <1>6, <1>7, <3>1, <3>2
  <2>2. CASE j = k
    <3>1. p[j] = q /\ q.content = n0 /\ q.resolvers = pending[k].resolvers \cup {n0} /\ n0 # 0
      BY <1>1, <1>10, <2>2
    <3> HIDE DEF p, q
    <3>2. \A w \in batch : w.key = k => w.resolvers \cap pending[k].resolvers = {}
      <4>1. CASE pending[k].content = 0
        <5>1. pending[k].resolvers = {}
          BY <4>1 DEF QueueOrdered, Queued, Unpending
        <5> QED BY <5>1
      <4>2. CASE pending[k].content # 0
        BY <4>2 DEF QueueOrdered, Queued
      <4> QED BY <4>1, <4>2
    <3>3. \A w \in batch : w.key = k => w.resolvers \cap q.resolvers = {}
      BY <1>9, <3>1, <3>2
    <3> QED BY <1>9, <1>12, <2>2, <3>1, <3>3
  <2> QED BY <2>1, <2>2
<1> QED BY <1>8, <1>13

\* A write of the batch settles: the rest is still open and newer
LEMMA SettleOrdered ==
  ASSUME TypeOK, QueueOrdered, NEW w \in batch, NEW r \in {"resolved", "rejected"},
         SettleBatched(w, r), batch' = batch \ {w},
         disk' = disk \/ disk' = [disk EXCEPT ![w.key] = w.content]
  PROVE  /\ BatchOrdered(batch', last, disk', outcome')
         /\ Queued(pending, batch', last, disk', outcome')
         /\ \A k \in Keys : disk'[k] <= last[k]
<1>1. w \in Write /\ w.key \in Keys /\ w.content \in Nat /\ w.resolvers \subseteq Contents
  BY WriteType, BatcherAssumption DEF TypeOK, BatcherTypeOK
<1>2. \A j \in Keys, n \in Contents :
        (j # w.key \/ n \notin w.resolvers) => outcome'[j][n] = outcome[j][n]
  BY <1>1 DEF SettleBatched, Settle, TypeOK, BatcherTypeOK
<1>3. \A j \in Keys : j # w.key => disk'[j] = disk[j]
  BY DEF TypeOK, BatcherTypeOK
<1>4. disk'[w.key] = disk[w.key] \/ disk'[w.key] = w.content
  BY <1>1 DEF TypeOK, BatcherTypeOK
<1>5. \A v \in batch : v # w => v.key \in Keys /\ v.key # w.key /\ v.resolvers \subseteq Contents
  BY <1>1, WriteType DEF QueueOrdered, BatchOrdered, TypeOK, BatcherTypeOK
<1>6. BatchOrdered(batch', last, disk', outcome')
  <2>1. \A v \in batch' : Fresh(v.key, v, last, disk', outcome')
    BY <1>2, <1>3, <1>5 DEF QueueOrdered, BatchOrdered, Fresh
  <2> QED BY <2>1 DEF QueueOrdered, BatchOrdered
<1>7. Queued(pending, batch', last, disk', outcome')
  <2> SUFFICES ASSUME NEW j \in Keys, pending[j].content # 0
               PROVE  /\ Fresh(j, pending[j], last, disk', outcome')
                      /\ \A v \in batch' : v.key = j =>
                           v.content < pending[j].content /\ v.resolvers \cap pending[j].resolvers = {}
    BY DEF QueueOrdered, Queued
  <2>1. /\ Fresh(j, pending[j], last, disk, outcome)
        /\ \A v \in batch : v.key = j =>
             v.content < pending[j].content /\ v.resolvers \cap pending[j].resolvers = {}
    BY DEF QueueOrdered, Queued
  <2>2. pending[j].resolvers \subseteq Contents
    BY DEF TypeOK, BatcherTypeOK
  <2>3. \A n \in pending[j].resolvers : outcome'[j][n] = outcome[j][n]
    BY <1>2, <2>1, <2>2
  <2>4. disk'[j] < pending[j].content
    BY <1>3, <1>4, <2>1 DEF Fresh
  <2> QED BY <2>1, <2>3, <2>4 DEF Fresh
<1>8. \A k \in Keys : disk'[k] <= last[k]
  BY <1>1, <1>3, <1>4 DEF QueueOrdered, BatchOrdered, Fresh
<1> QED BY <1>6, <1>7, <1>8

\* The invariant holds at first and every step keeps it
LEMMA InitQueue == Init => QueueInv
<1> SUFFICES ASSUME Init PROVE QueueOrdered
  BY DEF QueueInv
<1>1. direct = {} /\ batch = {} /\ \A k \in Keys : disk[k] <= last[k]
  BY DEF Init, BatcherInit
<1>2. \A k \in Keys : pending[k] = Unpending /\ pending[k].content = 0
  BY DEF Init, BatcherInit, Unpending
<1> QED BY <1>1, <1>2 DEF QueueOrdered, BatchOrdered, Queued

LEMMA RefuseOrdered ==
  ASSUME TypeOK, QueueOrdered, NEW k \in Keys, Submit(k, "rejected"),
         UNCHANGED <<pending, batch, disk, direct>>
  PROVE  QueueOrdered'
<1>1. /\ last'[k] = last[k] + 1
      /\ \A j \in Keys : j # k => last'[j] = last[j]
  BY SubmitTypes DEF TypeOK, BatcherTypeOK, Submit, Outcomes
<1>2. \A j \in Keys, n \in Contents : n <= last[j] => outcome'[j][n] = outcome[j][n]
  BY BatcherAssumption DEF Submit, TypeOK, BatcherTypeOK, Contents
<1>3. \A j \in Keys : last[j] \in Nat /\ disk[j] \in Nat /\ last'[j] \in Nat /\ last[j] <= last'[j]
  <2>1. \A j \in Keys : last[j] \in Nat /\ disk[j] \in Nat
    BY BatcherAssumption DEF TypeOK, BatcherTypeOK
  <2> QED BY <1>1, <2>1
<1>4. ASSUME NEW j \in Keys, NEW w, w.content \in Nat, w.resolvers \subseteq Contents,
             Fresh(j, w, last, disk, outcome)
      PROVE Fresh(j, w, last', disk', outcome')
  <2>1. \A n \in w.resolvers : n \in Nat /\ n <= last[j]
    BY <1>3, <1>4 DEF Fresh, Contents
  <2>2. \A n \in w.resolvers : outcome'[j][n] = "open"
    BY <1>2, <1>4, <2>1 DEF Fresh
  <2> QED BY <1>3, <1>4, <2>2 DEF Fresh
<1>5. \A w \in batch : w.key \in Keys /\ w.content \in Nat /\ w.resolvers \subseteq Contents
  BY WriteType, BatcherAssumption DEF TypeOK, BatcherTypeOK
<1>6. \A j \in Keys : pending[j].content \in Nat /\ pending[j].resolvers \subseteq Contents
  BY BatcherAssumption DEF TypeOK, BatcherTypeOK
<1>7. BatchOrdered(batch', last', disk', outcome')
  BY <1>4, <1>5 DEF QueueOrdered, BatchOrdered
<1>8. Queued(pending', batch', last', disk', outcome')
  BY <1>4, <1>6 DEF QueueOrdered, Queued
<1> QED BY <1>3, <1>7, <1>8 DEF QueueOrdered

LEMMA ConfigKept == [Next]_vars => config' = config
    BY DEF Next, vars, BatcherStep, Background, ReadStep, Written, WriteFails, DirectWritten, DirectFails,
           FlushDone, TimerFires, Flush, WriteQueued, Enqueue, Refuse, WriteThrough, WriteDirect, WriteNow,
           WriteImmediate, Evict, ExternalWrite, Read, Delete, Checked, FileRead, FileStated, Return, Deleted,
           FlushNow, Cleanup, Close, CleanedUp, batcherVars

LEMMA InitDeletions == Init => DeletionsAllowed
BY DEF Init, DeletionsAllowed, Idle

LEMMA NextDeletions == TypeOK /\ DeletionsAllowed /\ [Next]_vars => DeletionsAllowed'
<1> SUFFICES ASSUME TypeOK, DeletionsAllowed, [Next]_vars, NEW c \in Clients,
                    call'[c].pc = "deleting", call[c].pc # "deleting"
             PROVE  "delete" \in config.ops
  BY ConfigKept DEF DeletionsAllowed
<1>0. call \in [Clients -> [pc : PCs, key : Keys, entry : CacheEntry]]
  BY DEF TypeOK, CacheEntry
<1>1. PICK d \in Clients : ReadStep(d) \/ \E k \in Keys : Read(d, k) \/ Delete(d, k)
  BY DEF Next, vars, BatcherStep, WriteQueued, WriteThrough, WriteNow, Evict, ExternalWrite, FlushNow,
         Cleanup, CleanedUp
<1>2. ASSUME NEW pc \in PCs \ {"deleting"}, NEW k, NEW e, Goto(d, pc, k, e) PROVE FALSE
  BY <1>0, <1>2 DEF Goto
<1>3. \A k, n : ~Answer(d, k, n)
  BY <1>2 DEF Answer, PCs
<1>4. ~ReadStep(d)
  BY <1>0, <1>2, <1>3 DEF ReadStep, Checked, FileRead, FileStated, Return, Deleted, PCs, Idle
<1>5. ASSUME NEW k \in Keys PROVE ~Read(d, k)
  BY <1>2, <1>3 DEF Read, PCs
<1> QED BY <1>1, <1>4, <1>5 DEF Delete

LEMMA NextQueue == TypeOK /\ DeletionsAllowed /\ QueueInv /\ [Next]_vars => QueueInv'
<1> SUFFICES ASSUME TypeOK, DeletionsAllowed, QueueInv, [Next]_vars, OnlyQueued, OnlyQueued'
             PROVE  QueueOrdered'
  BY ConfigKept DEF QueueInv, OnlyQueued
<1>0. QueueOrdered /\ direct = {}
  BY DEF QueueInv, QueueOrdered
<1>p. pending \in [Keys -> PendingWrite]
  BY DEF TypeOK, BatcherTypeOK, PendingWrite
<1>1. ASSUME UNCHANGED <<last, pending, batch, direct, disk, outcome>> PROVE QueueOrdered'
  BY <1>0, <1>1 DEF QueueOrdered
<1>2. ASSUME StartFlush(pending), UNCHANGED <<last, direct, disk, outcome>> PROVE QueueOrdered'
  <2>1. BatchOrdered(batch', last, disk, outcome) /\ Queued(pending', batch', last, disk, outcome)
    BY <1>0, <1>2, <1>p, FlushOrdered DEF QueueOrdered
  <2> QED BY <1>0, <1>2, <2>1 DEF QueueOrdered
<1>3. ASSUME NEW w \in batch, Written(w) PROVE QueueOrdered'
  BY <1>0, <1>3, SettleOrdered DEF Written, QueueOrdered
<1>4. ASSUME NEW w \in batch, WriteFails(w) PROVE QueueOrdered'
  BY <1>0, <1>4, SettleOrdered DEF WriteFails, QueueOrdered
<1>5. ASSUME NEW k \in Keys, Enqueue(k) PROVE QueueOrdered'
  <2> DEFINE p == [pending EXCEPT ![k] = Coalesced(@, last[k] + 1)]
  <2>1. Submit(k, "open") /\ disk' = disk /\ direct' = direct
    BY <1>5 DEF Enqueue
  <2>2. BatchOrdered(batch, last', disk, outcome') /\ Queued(p, batch, last', disk, outcome')
    BY <1>0, <2>1, EnqueueOrdered
  <2>3. last[k] + 1 \in Contents /\ last' \in [Keys -> 0..MaxWrites] /\ last'[k] = last[k] + 1
    BY <2>1, SubmitTypes DEF Outcomes
  <2>4. p \in [Keys -> PendingWrite]
    BY <1>p, <2>3, CoalescedType
  <2>5. \/ StartFlush(p)
        \/ pending' = p /\ UNCHANGED <<batch, isFlushing>>
    BY <1>5 DEF Enqueue
  <2> HIDE DEF p
  <2>6. BatchOrdered(batch', last', disk, outcome') /\ Queued(pending', batch', last', disk, outcome')
    BY <2>2, <2>4, <2>5, FlushOrdered
  <2>7. \A j \in Keys : disk[j] <= last'[j]
    <3>1. \A j \in Keys : last[j] \in Nat /\ disk[j] \in Nat /\ (j # k => last'[j] = last[j])
      BY <2>1, BatcherAssumption DEF TypeOK, BatcherTypeOK, Submit
    <3> QED BY <1>0, <2>3, <3>1 DEF QueueOrdered
  <2> QED BY <1>0, <2>1, <2>6, <2>7 DEF QueueOrdered
<1>6. ASSUME NEW k \in Keys, Refuse(k) PROVE QueueOrdered'
  BY <1>0, <1>6, RefuseOrdered DEF Refuse
<1>7. CASE UNCHANGED vars
  BY <1>1, <1>7 DEF vars
<1>8. CASE BatcherStep
  <2>1. CASE FlushDone
    BY <1>1, <2>1 DEF FlushDone
  <2>2. CASE TimerFires
    BY <1>2, <2>2 DEF TimerFires, Flush
  <2> QED BY <1>0, <1>3, <1>4, <1>8, <2>1, <2>2 DEF BatcherStep, Background
<1>9. CASE FlushNow \/ Cleanup \/ CleanedUp
  BY <1>1, <1>2, <1>9 DEF FlushNow, Flush, Cleanup, Close, CleanedUp
<1>10. ASSUME NEW c \in Clients, ReadStep(c) PROVE QueueOrdered'
  <2>1. CASE Deleted(c)
    BY <2>1 DEF Deleted, DeletionsAllowed, OnlyQueued
  <2> QED BY <1>1, <1>10, <2>1 DEF ReadStep, Checked, FileRead, FileStated, Return, batcherVars
<1>11. ASSUME NEW k \in Keys, NEW c \in Clients, Read(c, k) \/ Delete(c, k) PROVE QueueOrdered'
  BY <1>1, <1>11 DEF Read, Delete, batcherVars
<1>12. ASSUME NEW k \in Keys,
              WriteQueued(k) \/ WriteThrough(k) \/ WriteNow(k) \/ Evict(k) \/ ExternalWrite(k)
       PROVE QueueOrdered'
  <2>1. CASE Evict(k)
    BY <1>1, <2>1 DEF Evict, batcherVars
  <2> QED BY <1>5, <1>6, <1>12, <2>1 DEF WriteQueued, WriteThrough, WriteDirect, WriteNow, WriteImmediate,
                                        ExternalWrite, OnlyQueued
<1> QED BY <1>7, <1>8, <1>9, <1>10, <1>11, <1>12 DEF Next

-----------------------------------------------------------------------------
(* Refinement *)

LEMMA SubmitImplements ==
  ASSUME NEW k \in Keys, NEW o \in {"open", "rejected"}, Submit(k, o), disk' = disk PROVE B!Submit(k)
BY DEF Submit, B!Submit

LEMMA SettleImplements ==
  ASSUME NEW w, SettleBatched(w, "resolved") \/ SettleBatched(w, "rejected"),
         NEW r \in {"resolved", "rejected"}, SettleBatched(w, r)
  PROVE  B!Settled(w.key, w.resolvers, r)
BY DEF SettleBatched, Settle, B!Settled, B!Contents, Contents

\* Every step of the batcher is a step of the store or changes nothing it sees
LEMMA NextImplements ==
  ASSUME TypeOK, DeletionsAllowed, QueueInv, OnlyQueued, [Next]_vars
  PROVE  B!Next \/ UNCHANGED <<last, disk, outcome>>
<1>0. QueueOrdered
  BY DEF QueueInv
<1>s. ASSUME UNCHANGED <<last, disk, outcome>> PROVE B!Next \/ UNCHANGED <<last, disk, outcome>>
  BY <1>s
<1>w. ASSUME NEW w \in batch
      PROVE  /\ w.key \in Keys /\ w.resolvers \in (SUBSET B!Open(w.key)) \ {{}}
             /\ w.content \in w.resolvers /\ w.content > disk[w.key]
             /\ \A i \in w.resolvers : i <= w.content
  <2>1. w.key \in Keys /\ w.resolvers \subseteq Contents /\ w.content \in Nat
    BY WriteType, BatcherAssumption DEF TypeOK, BatcherTypeOK
  <2>2. Fresh(w.key, w, last, disk, outcome)
    BY <1>0 DEF QueueOrdered, BatchOrdered
  <2>3. disk[w.key] \in Nat
    BY <2>1, BatcherAssumption DEF TypeOK, BatcherTypeOK
  <2> QED BY <2>1, <2>2, <2>3 DEF Fresh, B!Open, B!Contents, Contents
<1>1. ASSUME NEW w \in batch, Written(w) PROVE B!Next
  <2>1. B!Settled(w.key, w.resolvers, "resolved")
    BY <1>1, SettleImplements DEF Written
  <2>2. B!Persist(w.key, w.resolvers, w.content)
    BY <1>1, <1>w, <2>1 DEF Written, B!Persist
  <2> QED BY <1>w, <2>2 DEF B!Next
<1>2. ASSUME NEW w \in batch, WriteFails(w) PROVE B!Next
  <2>1. B!Settled(w.key, w.resolvers, "rejected")
    BY <1>2, SettleImplements DEF WriteFails
  <2>2. B!Fail(w.key, w.resolvers)
    BY <1>2, <2>1 DEF WriteFails, B!Fail
  <2> QED BY <1>w, <2>2 DEF B!Next
<1>3. ASSUME NEW k \in Keys, Enqueue(k) \/ Refuse(k) PROVE B!Next
  BY <1>3, SubmitImplements DEF Enqueue, Refuse, B!Next
<1>4. CASE BatcherStep
  BY <1>0, <1>1, <1>2, <1>4 DEF BatcherStep, Background, FlushDone, TimerFires, Flush, QueueOrdered
<1>5. CASE FlushNow \/ Cleanup \/ CleanedUp \/ UNCHANGED vars
  BY <1>5 DEF FlushNow, Flush, Cleanup, Close, CleanedUp, vars
<1>6. ASSUME NEW c \in Clients, ReadStep(c) \/ \E k \in Keys : Read(c, k) \/ Delete(c, k)
      PROVE  UNCHANGED <<last, disk, outcome>>
  BY <1>6 DEF ReadStep, Checked, FileRead, FileStated, Return, Deleted, DeletionsAllowed, OnlyQueued, Read,
              Delete, batcherVars
<1>7. ASSUME NEW k \in Keys,
             WriteQueued(k) \/ WriteThrough(k) \/ WriteNow(k) \/ Evict(k) \/ ExternalWrite(k)
      PROVE  B!Next \/ UNCHANGED <<last, disk, outcome>>
  BY <1>3, <1>7 DEF WriteQueued, WriteThrough, WriteDirect, WriteNow, WriteImmediate, Evict, ExternalWrite,
                    OnlyQueued, batcherVars
<1> QED BY <1>4, <1>5, <1>6, <1>7 DEF Next

\* With queued writes only, the batcher under the cached scratchpad implements the
\* write-behind store, for every number of keys and writes and every batch size.
THEOREM BatcherImplementsStore == SafeSpec => ImplementsWriteBehind
<1> DEFINE Inv == TypeOK /\ DeletionsAllowed /\ QueueInv
<1>1. Init => Inv
  BY InitTypes, InitDeletions, InitQueue
<1>2. Inv /\ [Next]_vars => Inv'
  BY NextTypes, NextDeletions, NextQueue
<1>3. Inv /\ [Next]_vars => [OnlyQueued => B!Next]_<<last, disk, outcome>>
  BY NextImplements
<1> QED BY <1>1, <1>2, <1>3, PTL DEF SafeSpec, ImplementsWriteBehind

-----------------------------------------------------------------------------
(* Reads of one caller who awaits its calls *)

\* Nothing is known of a key that was never written
Absent(k) ==
  /\ cache[k] = NoEntry
  /\ disk[k] = 0
  /\ pending[k].content = 0
  /\ \A w \in batch \cup direct : w.key # k

Remembered(k) == IF last[k] = 0 THEN Absent(k) ELSE cache[k] = OwnEntry(last[k])

\* A read that goes to the file is of a key that was never written, and no write can
\* come between its steps
ReadsLast(c) ==
  \/ call[c].pc = "idle"
  \/ call[c].pc = "loading" /\ last[call[c].key] = 0
  \/ call[c].pc = "answered" /\ call[c].entry.content = last[call[c].key]

CacheInv ==
  OwnWritesCached =>
    /\ closer = "no"
    /\ \A k \in Keys : Remembered(k)
    /\ \A c \in Clients : ReadsLast(c)

LEMMA InitCache == Init => CacheInv
<1> SUFFICES ASSUME Init PROVE CacheInv
  OBVIOUS
<1>1. \A k \in Keys : Remembered(k)
  BY DEF Init, BatcherInit, Remembered, Absent, Unpending
<1>2. \A c \in Clients : ReadsLast(c)
  BY DEF Init, Idle, ReadsLast
<1> QED
  BY <1>1, <1>2 DEF CacheInv, Init, BatcherInit

\* A flush takes only what was queued
LEMMA FlushAbsent ==
  ASSUME TypeOK, NEW p, StartFlush(p), NEW k \in Keys, p[k].content = 0,
         \A w \in batch : w.key # k
  PROVE  pending'[k].content = 0 /\ \A w \in batch' : w.key # k
<1>1. \A w \in Snapshot(p) : w.key # k
  BY DEF Snapshot, Pending
<1> QED
  BY <1>1 DEF StartFlush, Unpending

\* A step that writes nothing new and leaves the cache and the calls alone
LEMMA BackgroundCache ==
  ASSUME CacheInv, OwnWritesCached, closer' = closer,
         UNCHANGED <<last, cache, call>>,
         \A k \in Keys : Absent(k) =>
           /\ disk'[k] = 0 /\ pending'[k].content = 0
           /\ \A w \in batch' \cup direct' : w.key # k
  PROVE  CacheInv'
<1>1. \A k \in Keys : Remembered(k)'
  BY DEF CacheInv, Remembered, Absent
<1>2. \A c \in Clients : ReadsLast(c)'
  BY DEF CacheInv, ReadsLast
<1> QED
  BY <1>1, <1>2 DEF CacheInv

\* A write: nobody reads, and the cache has the content
LEMMA WriteCached ==
  ASSUME TypeOK, CacheInv, OwnWritesCached, NEW k \in Keys,
         last[k] < MaxWrites, last' = [last EXCEPT ![k] = @ + 1],
         MayCall, UpdateCache(k), UNCHANGED <<call, closer, disk>>,
         \A j \in Keys \ {k} : Absent(j) =>
           /\ pending'[j].content = 0
           /\ \A w \in batch' \cup direct' : w.key # j
  PROVE  CacheInv'
<1>1. \A c \in Clients : call'[c].pc = "idle"
  BY DEF MayCall, OwnWritesCached
<1>2. cache' = [cache EXCEPT ![k] = OwnEntry(last'[k])]
  BY DEF UpdateCache, CacheWrite, OwnWritesCached
<1>3. last'[k] # 0 /\ cache'[k] = OwnEntry(last'[k])
  BY <1>2, BatcherAssumption DEF TypeOK, BatcherTypeOK
<1>4. \A j \in Keys \ {k} : last'[j] = last[j] /\ cache'[j] = cache[j]
  BY <1>2 DEF TypeOK, BatcherTypeOK
<1>5. \A j \in Keys \ {k} : Remembered(j)'
  BY <1>4 DEF CacheInv, Remembered, Absent
<1>6. Remembered(k)'
  BY <1>3 DEF Remembered
<1> QED
  BY <1>1, <1>5, <1>6 DEF CacheInv, ReadsLast

LEMMA BatcherCache ==
  ASSUME TypeOK, CacheInv, OwnWritesCached, BatcherStep \/ FlushNow
  PROVE  CacheInv'
<1>1. UNCHANGED <<last, cache, call>>
  BY DEF BatcherStep, Background, Written, WriteFails, DirectWritten, DirectFails, FlushDone, TimerFires,
         Flush, FlushNow
<1>2. closer' = closer
  BY DEF BatcherStep, Background, Written, WriteFails, DirectWritten, DirectFails, FlushDone, TimerFires,
         Flush, FlushNow, CacheInv
<1>3. ASSUME NEW k \in Keys, Absent(k)
      PROVE  /\ disk'[k] = 0 /\ pending'[k].content = 0
             /\ \A w \in batch' \cup direct' : w.key # k
  <2>1. disk[k] = 0 /\ pending[k].content = 0 /\ \A w \in batch \cup direct : w.key # k
    BY <1>3 DEF Absent
  <2>2. CASE Flush
    BY <2>1, <2>2, FlushAbsent DEF Flush
  <2>3. CASE BatcherStep /\ ~Flush
    <3>1. /\ pending' = pending /\ batch' \subseteq batch /\ direct' \subseteq direct
          /\ disk' = disk \/ \E w \in batch \cup direct : disk' = [disk EXCEPT ![w.key] = w.content]
      BY <2>3 DEF BatcherStep, Background, Written, WriteFails, DirectWritten, DirectFails, FlushDone,
                  TimerFires
    <3>2. disk'[k] = disk[k]
      BY <2>1, <3>1 DEF TypeOK, BatcherTypeOK
    <3> QED
      BY <2>1, <3>1, <3>2
  <2> QED
    BY <2>2, <2>3 DEF FlushNow
<1> QED
  BY <1>1, <1>2, <1>3, BackgroundCache

LEMMA WriteCallCache ==
  ASSUME TypeOK, CacheInv, OwnWritesCached, NEW k \in Keys,
         WriteQueued(k) \/ WriteThrough(k) \/ WriteNow(k)
  PROVE  CacheInv'
<1>1. MayCall /\ UpdateCache(k) /\ call' = call
  BY DEF WriteQueued, WriteThrough, WriteNow
<1>2. closer = "no" /\ ~Refuse(k)
  BY DEF CacheInv, Refuse, isClosed
<1>3. CASE Enqueue(k)
  <2> DEFINE p == [pending EXCEPT ![k] = Coalesced(@, last[k] + 1)]
  <2>1. /\ Submit(k, "open") /\ UNCHANGED <<closer, disk, direct>>
        /\ \/ StartFlush(p)
           \/ pending' = p /\ UNCHANGED <<batch, isFlushing>>
    BY <1>3 DEF Enqueue
  <2>2. \A j \in Keys \ {k} : p[j] = pending[j]
    BY DEF TypeOK, BatcherTypeOK
  <2> HIDE DEF p
  <2>3. ASSUME NEW j \in Keys \ {k}, Absent(j)
        PROVE  /\ pending'[j].content = 0
               /\ \A w \in batch' \cup direct' : w.key # j
    <3>1. p[j].content = 0 /\ \A w \in batch \cup direct : w.key # j
      BY <2>2, <2>3 DEF Absent
    <3> QED
      BY <2>1, <3>1, FlushAbsent
  <2> QED
    BY <1>1, <2>1, <2>3, WriteCached DEF Submit
<1>4. CASE WriteDirect(k) \/ WriteImmediate(k)
  <2>1. /\ last[k] < MaxWrites /\ last' = [last EXCEPT ![k] = @ + 1]
        /\ UNCHANGED <<closer, disk, batch>>
        /\ direct' = direct \cup {Single(k)}
        /\ pending' = pending \/ pending' = [pending EXCEPT ![k] = Unpending]
    BY <1>4 DEF WriteDirect, WriteImmediate, Submit
  <2>2. ASSUME NEW j \in Keys \ {k}, Absent(j)
        PROVE  /\ pending'[j].content = 0
               /\ \A w \in batch' \cup direct' : w.key # j
    <3>1. pending'[j] = pending[j] /\ Single(k).key # j
      BY <2>1 DEF Single, TypeOK, BatcherTypeOK
    <3> QED
      BY <2>1, <2>2, <3>1 DEF Absent
  <2> QED
    BY <1>1, <2>1, <2>2, WriteCached
<1> QED
  BY <1>2, <1>3, <1>4 DEF WriteQueued, WriteThrough, WriteNow

LEMMA ReadCallCache ==
  ASSUME TypeOK, CacheInv, OwnWritesCached, NEW c \in Clients,
         (\E k \in Keys : Read(c, k)) \/ ReadStep(c)
  PROVE  CacheInv'
<1>1. /\ closer = "no" /\ ReadsLast(c) /\ \A k \in Keys : Remembered(k)
      /\ config.caching /\ ~config.detect
  BY DEF CacheInv, OwnWritesCached
<1>2. call \in [Clients -> [pc : PCs, key : Keys, entry : CacheEntry]]
  BY DEF TypeOK, CacheEntry
<1>3. ASSUME UNCHANGED <<batcherVars, cache>>, ReadsLast(c)',
             \A d \in Clients \ {c} : call'[d] = call[d]
      PROVE  CacheInv'
  <2>1. \A k \in Keys : Remembered(k)'
    BY <1>1, <1>3 DEF Remembered, Absent, batcherVars
  <2>2. \A d \in Clients : ReadsLast(d)'
    BY <1>3 DEF CacheInv, ReadsLast, batcherVars
  <2>3. closer' = "no"
    BY <1>1, <1>3 DEF batcherVars
  <2> QED
    BY <2>1, <2>2, <2>3 DEF CacheInv
<1>4. ASSUME NEW k, NEW n, Answer(c, k, n), n = last[k], UNCHANGED <<batcherVars, cache>>
      PROVE  CacheInv'
  <2>1. /\ call'[c].pc = "answered" /\ call'[c].key = k /\ call'[c].entry.content = n
        /\ \A d \in Clients \ {c} : call'[d] = call[d]
    BY <1>2, <1>4 DEF Answer, Goto, OwnEntry
  <2> QED
    BY <1>3, <1>4, <2>1 DEF ReadsLast, batcherVars
<1>5. ASSUME NEW k \in Keys, Read(c, k) PROVE CacheInv'
  <2>1. UNCHANGED <<batcherVars, cache>>
    BY <1>5 DEF Read
  <2>2. CASE last[k] = 0
    <3>1. Goto(c, "loading", k, NoEntry)
      BY <1>1, <1>5, <2>2 DEF Read, Remembered, Absent
    <3>2. /\ call'[c].pc = "loading" /\ call'[c].key = k
          /\ \A d \in Clients \ {c} : call'[d] = call[d]
      BY <1>2, <3>1 DEF Goto
    <3> QED
      BY <1>3, <2>1, <2>2, <3>2 DEF ReadsLast, batcherVars
  <2>3. CASE last[k] # 0
    <3>1. cache[k].content = last[k] /\ cache[k] # NoEntry
      <4>1. cache[k] = OwnEntry(last[k])
        BY <1>1, <2>3 DEF Remembered
      <4>2. OwnEntry(last[k]).content = last[k] /\ NoEntry.content = 0
        BY DEF OwnEntry, NoEntry
      <4> QED
        BY <2>3, <4>1, <4>2
    <3> QED
      BY <1>1, <1>4, <1>5, <2>1, <3>1 DEF Read, Compared
  <2> QED
    BY <2>2, <2>3
<1>6. CASE FileRead(c)
  <2>1. call[c].pc = "loading" /\ call[c].key \in Keys /\ last[call[c].key] = 0
    BY <1>1, <1>2, <1>6 DEF FileRead, ReadsLast
  <2>2. disk[call[c].key] = 0
    BY <1>1, <2>1 DEF Remembered, Absent
  <2> QED
    BY <1>4, <1>6, <2>1, <2>2 DEF FileRead
<1>7. CASE Return(c)
  <2>1. /\ call'[c].pc = "idle" /\ UNCHANGED <<batcherVars, cache>>
        /\ \A d \in Clients \ {c} : call'[d] = call[d]
    BY <1>2, <1>7 DEF Return, Idle
  <2> QED
    BY <1>3, <2>1 DEF ReadsLast
<1>8. ~Checked(c) /\ ~FileStated(c) /\ ~Deleted(c)
  BY <1>1 DEF ReadsLast, Checked, FileStated, Deleted
<1> QED
  BY <1>5, <1>6, <1>7, <1>8 DEF ReadStep

LEMMA NextCache == TypeOK /\ CacheInv /\ [Next]_vars => CacheInv'
<1> SUFFICES ASSUME TypeOK, CacheInv, [Next]_vars, OwnWritesCached PROVE CacheInv'
  BY ConfigKept DEF CacheInv, OwnWritesCached
<1>1. /\ \A k \in Keys : ~Evict(k) /\ ~ExternalWrite(k) /\ \A c \in Clients : ~Delete(c, k)
      /\ ~Cleanup /\ ~CleanedUp
  BY DEF OwnWritesCached, CacheInv, Evict, ExternalWrite, Delete, Cleanup, Close, CleanedUp
<1>2. CASE UNCHANGED vars
  BY <1>2 DEF vars, CacheInv, Remembered, Absent, ReadsLast, OwnWritesCached
<1> QED
  BY <1>1, <1>2, BatcherCache, WriteCallCache, ReadCallCache DEF Next

\* A caller that awaits its calls reads what it wrote last, whether it is queued, in a
\* flush, stored or failed, for any number of keys and writes.
THEOREM OwnWritesRead == SafeSpec => []ReadYourWrites
<1>1. CacheInv => ReadYourWrites
  BY DEF CacheInv, ReadsLast, ReadYourWrites
<1> QED
  BY <1>1, InitTypes, NextTypes, InitCache, NextCache, PTL DEF SafeSpec
-----------------------------------------------------------------------------
(* Promises *)

\* A key that is not in the queue has no resolvers there
NoneLeft(p) == \A k \in Keys : p[k].content = 0 => p[k].resolvers = {}

Held(k, n, p, W) ==
  \/ n \in p[k].resolvers /\ k \in Pending(p)
  \/ \E w \in W : w.key = k /\ n \in w.resolvers

AllHeld(p, W) == \A k \in Keys, n \in Contents : outcome[k][n] = "open" => Held(k, n, p, W)

PromiseInv == NoneLeft(pending) /\ PromisesHeld

LEMMA HeldPromises == PromisesHeld <=> AllHeld(pending, batch \cup direct)
BY DEF PromisesHeld, AllHeld, Held

LEMMA FlushHolds ==
  ASSUME TypeOK, NEW p \in [Keys -> PendingWrite], StartFlush(p), NoneLeft(p), direct \subseteq direct'
  PROVE  /\ NoneLeft(pending')
         /\ \A k \in Keys, n \in Contents :
              Held(k, n, p, batch \cup direct) => Held(k, n, pending', batch' \cup direct')
<1>1. CASE MayFlush(p)
  <2>1. batch' = batch \cup Snapshot(p) /\ pending' = [k \in Keys |-> Unpending]
    BY <1>1 DEF StartFlush
  <2>2. NoneLeft(pending')
    BY <2>1 DEF NoneLeft, Unpending
  <2>3. ASSUME NEW k \in Keys, NEW n \in Contents, n \in p[k].resolvers, k \in Pending(p)
        PROVE  \E w \in batch' : w.key = k /\ n \in w.resolvers
    <3> DEFINE w == [key |-> k, content |-> p[k].content, resolvers |-> p[k].resolvers]
    <3>1. w \in Snapshot(p) /\ w.key = k /\ w.resolvers = p[k].resolvers
      BY <2>3 DEF Snapshot
    <3> QED BY <2>1, <2>3, <3>1
  <2> QED BY <2>1, <2>2, <2>3 DEF Held
<1>2. CASE ~MayFlush(p)
  BY <1>2 DEF StartFlush, Held
<1> QED BY <1>1, <1>2

LEMMA InitPromises == Init => PromiseInv
BY DEF Init, BatcherInit, PromiseInv, PromisesHeld, NoneLeft, Unpending

\* A step that opens no promise and keeps every holder
LEMMA HolderStep ==
  ASSUME PromiseInv, NoneLeft(pending'),
         \A k \in Keys, n \in Contents : outcome'[k][n] = "open" =>
           \/ Held(k, n, pending', batch' \cup direct')
           \/ /\ outcome[k][n] = "open"
              /\ Held(k, n, pending, batch \cup direct) => Held(k, n, pending', batch' \cup direct')
  PROVE  PromiseInv'
<1>1. \A k \in Keys, n \in Contents : outcome'[k][n] = "open" => Held(k, n, pending', batch' \cup direct')
  BY HeldPromises DEF PromiseInv, AllHeld
<1>2. PromisesHeld'
  BY <1>1 DEF PromisesHeld, Held, Pending
<1> QED BY <1>2 DEF PromiseInv, NoneLeft

\* A write in flight settles
LEMMA SettlePromises ==
  ASSUME TypeOK, PromiseInv, NEW w \in Write, NEW o \in {"resolved", "rejected"}, Settle(w, o),
         pending' = pending, (batch \cup direct) \ {w} \subseteq batch' \cup direct'
  PROVE  PromiseInv'
<1>1. \A k \in Keys, n \in Contents :
        outcome'[k][n] = IF k = w.key /\ n \in w.resolvers THEN o ELSE outcome[k][n]
  BY WriteType DEF Settle, TypeOK, BatcherTypeOK
<1>2. ASSUME NEW k \in Keys, NEW n \in Contents, outcome'[k][n] = "open"
      PROVE  /\ outcome[k][n] = "open"
             /\ Held(k, n, pending, batch \cup direct) => Held(k, n, pending', batch' \cup direct')
  <2>1. outcome[k][n] = "open" /\ ~(k = w.key /\ n \in w.resolvers)
    BY <1>1, <1>2
  <2> QED BY <2>1 DEF Held
<1> QED BY <1>2, HolderStep DEF PromiseInv

\* The next content of key k is submitted
LEMMA SubmitPromises ==
  ASSUME TypeOK, NEW k \in Keys, NEW r \in Outcomes, Submit(k, r)
  PROVE  /\ last[k] + 1 \in Contents /\ last[k] + 1 # 0
         /\ \A j \in Keys, n \in Contents :
              outcome'[j][n] = IF j = k /\ n = last[k] + 1 THEN r ELSE outcome[j][n]
<1>1. last[k] + 1 \in Contents /\ last[k] + 1 # 0
  BY SubmitTypes, BatcherAssumption DEF TypeOK, BatcherTypeOK
<1> QED BY <1>1 DEF Submit, TypeOK, BatcherTypeOK

LEMMA EnqueuePromises ==
  ASSUME TypeOK, PromiseInv, NEW k \in Keys, Enqueue(k)
  PROVE  PromiseInv'
<1> DEFINE n0 == last[k] + 1
           p == [pending EXCEPT ![k] = Coalesced(@, n0)]
<1>1. Submit(k, "open") /\ direct' = direct
  BY DEF Enqueue
<1>2. /\ n0 \in Contents /\ n0 # 0
      /\ \A j \in Keys, n \in Contents :
           outcome'[j][n] = IF j = k /\ n = n0 THEN "open" ELSE outcome[j][n]
  BY <1>1, SubmitPromises DEF Outcomes
<1>3. pending \in [Keys -> PendingWrite]
  BY DEF TypeOK, BatcherTypeOK, PendingWrite
<1>4. p \in [Keys -> PendingWrite]
  BY <1>2, <1>3, CoalescedType
<1>5. /\ p[k].content = n0 /\ p[k].resolvers = pending[k].resolvers \cup {n0}
      /\ \A j \in Keys : j # k => p[j] = pending[j]
  BY <1>3 DEF Coalesced
<1>6. StartFlush(p) \/ (pending' = p /\ batch' = batch)
  BY DEF Enqueue
<1> HIDE DEF p
<1>7. NoneLeft(p)
  BY <1>2, <1>5 DEF PromiseInv, NoneLeft
<1>8. \A j \in Keys, n \in Contents : outcome'[j][n] = "open" => Held(j, n, p, batch \cup direct)
  <2>1. ASSUME NEW j \in Keys, NEW n \in Contents, Held(j, n, pending, batch \cup direct)
        PROVE  Held(j, n, p, batch \cup direct)
    BY <1>2, <1>5, <2>1 DEF Held, Pending
  <2>2. Held(k, n0, p, batch \cup direct)
    BY <1>2, <1>5 DEF Held, Pending
  <2> QED BY <1>2, <2>1, <2>2, HeldPromises DEF PromiseInv, AllHeld
<1>9. /\ NoneLeft(pending')
      /\ \A j \in Keys, n \in Contents :
           Held(j, n, p, batch \cup direct) => Held(j, n, pending', batch' \cup direct')
  <2>1. CASE StartFlush(p)
    BY <1>1, <1>4, <1>7, <2>1, FlushHolds
  <2>2. CASE pending' = p /\ batch' = batch
    BY <1>1, <1>7, <2>2
  <2> QED BY <1>6, <2>1, <2>2
<1> QED BY <1>8, <1>9, HolderStep

LEMMA DirectPromises ==
  ASSUME TypeOK, PromiseInv, NEW k \in Keys, WriteDirect(k) \/ WriteImmediate(k)
  PROVE  PromiseInv'
<1> DEFINE n0 == last[k] + 1
<1>1. batch' = batch /\ direct' = direct \cup {Single(k)}
  BY DEF WriteDirect, WriteImmediate
<1>2. /\ n0 \in Contents
      /\ \A j \in Keys, n \in Contents : outcome'[j][n] = "open" =>
           \/ j = k /\ n = n0
           \/ outcome[j][n] = "open" /\ (pending' = pending \/ ~(j = k /\ n \in pending[k].resolvers))
      /\ \/ pending' = pending
         \/ pending' = [pending EXCEPT ![k] = Unpending]
  <2>1. CASE WriteDirect(k)
    <3>1. Submit(k, "open") /\ pending' = pending
      BY <2>1 DEF WriteDirect
    <3> QED BY <3>1, SubmitPromises DEF Outcomes
  <2>2. CASE WriteImmediate(k)
    <3>1. n0 \in Contents
      BY <2>2, BatcherAssumption DEF WriteImmediate, Contents, TypeOK, BatcherTypeOK
    <3>2. \A j \in Keys, n \in Contents :
            outcome'[j][n] = IF j # k THEN outcome[j][n]
                             ELSE IF n = n0 THEN "open"
                             ELSE IF n \in pending[k].resolvers THEN "rejected" ELSE outcome[j][n]
      BY <2>2 DEF WriteImmediate, TypeOK, BatcherTypeOK
    <3> QED BY <2>2, <3>1, <3>2 DEF WriteImmediate
  <2> QED BY <2>1, <2>2
<1>3. pending \in [Keys -> PendingWrite]
  BY DEF TypeOK, BatcherTypeOK, PendingWrite
<1>4. NoneLeft(pending')
  BY <1>2, <1>3 DEF PromiseInv, NoneLeft, Unpending
<1>5. Held(k, n0, pending', batch' \cup direct')
  <2>1. Single(k).key = k /\ n0 \in Single(k).resolvers /\ Single(k) \in direct'
    BY <1>1 DEF Single
  <2> QED BY <2>1 DEF Held
<1>6. ASSUME NEW j \in Keys, NEW n \in Contents, Held(j, n, pending, batch \cup direct),
             pending' = pending \/ ~(j = k /\ n \in pending[k].resolvers)
      PROVE  Held(j, n, pending', batch' \cup direct')
  <2>1. CASE \E w \in batch \cup direct : w.key = j /\ n \in w.resolvers
    BY <1>1, <2>1 DEF Held
  <2>2. CASE n \in pending[j].resolvers /\ j \in Pending(pending)
    <3>1. pending'[j] = pending[j]
      BY <1>2, <1>3, <1>6, <2>2
    <3> QED BY <2>2, <3>1 DEF Held, Pending
  <2> QED BY <1>6, <2>1, <2>2 DEF Held
<1> QED BY <1>2, <1>4, <1>5, <1>6, HolderStep

LEMMA NextPromises == TypeOK /\ PromiseInv /\ [Next]_vars => PromiseInv'
<1> SUFFICES ASSUME TypeOK, PromiseInv, [Next]_vars PROVE PromiseInv'
  OBVIOUS
<1>p. pending \in [Keys -> PendingWrite] /\ NoneLeft(pending)
  BY DEF TypeOK, BatcherTypeOK, PendingWrite, PromiseInv
<1>1. ASSUME UNCHANGED <<pending, batch, direct, outcome>> PROVE PromiseInv'
  BY <1>1 DEF PromiseInv, PromisesHeld, NoneLeft, Pending
<1>2. ASSUME StartFlush(pending), UNCHANGED <<direct, outcome>> PROVE PromiseInv'
  BY <1>p, <1>2, FlushHolds, HolderStep
<1>3. ASSUME NEW w \in batch \cup direct,
             Written(w) \/ WriteFails(w) \/ DirectWritten(w) \/ DirectFails(w)
      PROVE  PromiseInv'
  <2>1. w \in Write
    BY DEF TypeOK, BatcherTypeOK
  <2>2. (Settle(w, "resolved") \/ Settle(w, "rejected")) /\ pending' = pending
    BY <1>3 DEF Written, WriteFails, DirectWritten, DirectFails, SettleBatched
  <2>3. (batch \cup direct) \ {w} \subseteq batch' \cup direct'
    BY <1>3 DEF Written, WriteFails, DirectWritten, DirectFails
  <2> QED BY <2>1, <2>2, <2>3, SettlePromises
<1>4. ASSUME NEW k \in Keys, Submit(k, "rejected") \/ Submit(k, "resolved"),
             UNCHANGED <<pending, batch, direct>>
      PROVE  PromiseInv'
  <2>1. \A j \in Keys, n \in Contents : outcome'[j][n] = "open" => outcome[j][n] = "open"
    BY <1>4, SubmitPromises DEF Outcomes
  <2> QED BY <1>p, <1>4, <2>1, HolderStep
<1>5. CASE BatcherStep
  <2>1. CASE FlushDone
    BY <1>1, <2>1 DEF FlushDone
  <2>2. CASE TimerFires
    BY <1>2, <2>2 DEF TimerFires, Flush
  <2> QED BY <1>3, <1>5, <2>1, <2>2 DEF BatcherStep, Background
<1>6. CASE FlushNow \/ Cleanup \/ CleanedUp \/ UNCHANGED vars
  BY <1>1, <1>2, <1>6 DEF FlushNow, Flush, Cleanup, Close, CleanedUp, vars
<1>7. ASSUME NEW c \in Clients, ReadStep(c) \/ \E k \in Keys : Read(c, k) \/ Delete(c, k)
      PROVE  PromiseInv'
  BY <1>1, <1>7 DEF ReadStep, Checked, FileRead, FileStated, Return, Deleted, Read, Delete, batcherVars
<1>8. ASSUME NEW k \in Keys, WriteQueued(k) \/ WriteThrough(k) \/ WriteNow(k) PROVE PromiseInv'
  BY <1>4, <1>8, EnqueuePromises, DirectPromises DEF WriteQueued, WriteThrough, WriteNow, Refuse
<1>9. ASSUME NEW k \in Keys, Evict(k) \/ ExternalWrite(k) PROVE PromiseInv'
  BY <1>1, <1>4, <1>9 DEF Evict, ExternalWrite, batcherVars
<1> QED BY <1>5, <1>6, <1>7, <1>8, <1>9 DEF Next

\* No caller of write is left with a promise that nothing will settle, for any number of
\* keys, writes and batch sizes, whatever is flushed, refused, fails or goes past the queue.
THEOREM NoPromiseForgotten == SafeSpec => []PromisesHeld
<1>1. PromiseInv => PromisesHeld
  BY DEF PromiseInv
<1> QED BY <1>1, InitTypes, NextTypes, InitPromises, NextPromises, PTL DEF SafeSpec

-----------------------------------------------------------------------------
(* What a caller may conclude from the write-behind store *)

\* While every write is queued and nobody deletes a file, a caller whose write was fulfilled
\* finds that content in the file, or a later one
FulfilledIsStored ==
  OnlyQueued => \A k \in Keys, n \in Contents : outcome[k][n] = "resolved" => disk[k] >= n

LEMMA StoreKeeps ==
  ASSUME TypeOK, FulfilledIsStored, OnlyQueued, B!Next, NEW i \in Keys, NEW n \in Contents,
         outcome'[i][n] = "resolved"
  PROVE  disk'[i] >= n
<1>1. /\ outcome \in [Keys -> [Contents -> Outcomes]] /\ disk \in [Keys -> 0..MaxWrites]
      /\ last \in [Keys -> 0..MaxWrites]
  BY DEF TypeOK, BatcherTypeOK
<1>2. outcome[i][n] = "resolved" => disk[i] >= n
  BY DEF FulfilledIsStored
<1>3. n \in Nat /\ disk[i] \in Nat
  BY <1>1, BatcherAssumption DEF Contents
<1>4. PICK k \in Keys :
        \/ B!Submit(k)
        \/ \E W \in (SUBSET B!Open(k)) \ {{}} : B!Fail(k, W) \/ \E m \in W : B!Persist(k, W, m)
  BY DEF B!Next
<1>5. CASE B!Submit(k)
  <2>1. PICK o \in {"open", "rejected"} : outcome' = [outcome EXCEPT ![k][last[k] + 1] = o]
    BY <1>5 DEF B!Submit
  <2>2. disk' = disk
    BY <1>5 DEF B!Submit
  <2>3. outcome'[i][n] = outcome[i][n] \/ outcome'[i][n] = o
    BY <1>1, <2>1
  <2> QED BY <1>2, <2>1, <2>2, <2>3
<1>6. ASSUME NEW W \in (SUBSET B!Open(k)) \ {{}}, B!Fail(k, W) \/ \E m \in W : B!Persist(k, W, m)
      PROVE  disk'[i] >= n
  <2>1. CASE B!Fail(k, W)
    <3>1. outcome'[i][n] = outcome[i][n] \/ outcome'[i][n] = "rejected"
      BY <1>1, <2>1 DEF B!Fail, B!Settled, B!Contents, Contents
    <3> QED BY <1>2, <2>1, <3>1 DEF B!Fail
  <2>2. ASSUME NEW m \in W, B!Persist(k, W, m) PROVE disk'[i] >= n
    <3>1. /\ m \in Nat /\ m > disk[k] /\ \A j \in W : j <= m
          /\ disk' = [disk EXCEPT ![k] = m]
      BY <2>2, BatcherAssumption DEF B!Persist, B!Open, B!Contents
    <3>2. (n \in W /\ i = k) \/ outcome'[i][n] = outcome[i][n]
      BY <1>1, <2>2 DEF B!Persist, B!Settled, B!Contents, Contents
    <3>3. CASE i = k
      <4>1. disk'[i] = m /\ disk[i] < m
        BY <1>1, <3>1, <3>3
      <4> QED BY <1>2, <1>3, <3>1, <3>2, <4>1
    <3>4. CASE i # k
      BY <1>1, <1>2, <3>1, <3>2, <3>4
    <3> QED BY <3>3, <3>4
  <2> QED BY <1>6, <2>1, <2>2
<1> QED BY <1>4, <1>5, <1>6

LEMMA InitFulfilled == Init => FulfilledIsStored
BY DEF Init, BatcherInit, FulfilledIsStored

LEMMA NextFulfilled ==
  TypeOK /\ DeletionsAllowed /\ QueueInv /\ FulfilledIsStored /\ [Next]_vars => FulfilledIsStored'
<1> SUFFICES ASSUME TypeOK, DeletionsAllowed, QueueInv, FulfilledIsStored, [Next]_vars, OnlyQueued',
                    NEW i \in Keys, NEW n \in Contents, outcome'[i][n] = "resolved"
             PROVE  disk'[i] >= n
  BY DEF FulfilledIsStored
<1>1. OnlyQueued
  BY ConfigKept DEF OnlyQueued
<1>2. CASE B!Next
  BY <1>1, <1>2, StoreKeeps
<1>3. CASE UNCHANGED <<last, disk, outcome>>
  BY <1>1, <1>3 DEF FulfilledIsStored
<1> QED BY <1>1, <1>2, <1>3, NextImplements

\* A caller of write whose promise was fulfilled can rely on the file: it holds that content
\* or one written later, whatever is coalesced, fails, overlaps or is closed afterwards.
THEOREM FulfilledStaysStored == SafeSpec => []FulfilledIsStored
<1> QED BY InitTypes, NextTypes, InitDeletions, NextDeletions, InitQueue, NextQueue,
           InitFulfilled, NextFulfilled, PTL DEF SafeSpec
=============================================================================
