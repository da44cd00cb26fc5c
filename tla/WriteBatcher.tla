---------------------------- MODULE WriteBatcher ----------------------------
(***************************************************************************)
(* Write coalescing, scratchpad/WriteBatcher.                              *)
(*                                                                         *)
(* write queues a content per key; flush takes all of them and writes them *)
(* concurrently; a second flush returns at once while one is in flight.    *)
(* writeImmediate and the owner's own atomic writes go past the queue.     *)
(*                                                                         *)
(* The contents of a key are numbered in the order they are submitted, so  *)
(* that a content also names the promise of its write.  An atomic write    *)
(* replaces the file in the step in which its promise settles.             *)
(***************************************************************************)
EXTENDS Naturals, FiniteSets

CONSTANTS Keys,
          MaxWrites,      \* bound: contents of one key
          MaxBatchSize,   \* maxBatchSize
          Configs         \* the configurations considered, see config

\* What an environment may do besides write and flush
Ops == {"immediate", "direct", "close", "delete", "external", "evict", "fail"}

ASSUME BatcherAssumption ==
  /\ MaxWrites \in Nat
  /\ MaxBatchSize \in Nat \ {0}
  /\ \A c \in Configs : c.ops \subseteq Ops

VARIABLES config,      \* ops: the operations used
          last,        \* the number of contents each key was given
          pending,     \* pendingWrites
          batch,       \* the writes of the flush in flight that have not settled
          direct,      \* the atomic writes in flight that no flush started
          isFlushing,
          closer,      \* progress of close: isClosed from "flushing" on
          disk,        \* the content of each file, 0 if it is missing
          outcome      \* of the promise of each content

batcherVars == <<config, last, pending, batch, direct, isFlushing, closer, disk, outcome>>

Contents == 1..MaxWrites

Write == [key : Keys, content : Contents, resolvers : SUBSET Contents]

Unpending == [content |-> 0, resolvers |-> {}]

Closers == {"no", "flushing", "returned", "cleaned"}

isClosed == closer # "no"

Outcomes == {"none", "open", "resolved", "rejected"}

-----------------------------------------------------------------------------
(* write, flush, close *)

Pending(p) == {k \in Keys : p[k].content # 0}

IsFull(p) == Cardinality(Pending(p)) >= MaxBatchSize

Snapshot(p) == {[key |-> k, content |-> p[k].content, resolvers |-> p[k].resolvers] : k \in Pending(p)}

MayFlushAgain(p) == Pending(p) # {}   \* *mutant*: the flush in flight is not looked at

MayFlush(p) == Pending(p) # {} /\ ~isFlushing

\* flush, called with the pending writes p, up to its await
StartFlush(p) ==
  \/ /\ MayFlush(p)
     /\ isFlushing' = TRUE
     /\ batch' = batch \cup Snapshot(p)
     /\ pending' = [k \in Keys |-> Unpending]
  \/ /\ ~MayFlush(p)
     /\ pending' = p
     /\ UNCHANGED <<batch, isFlushing>>

\* The next content of key k is submitted, and its promise is o
Submit(k, o) ==
  /\ last[k] < MaxWrites
  /\ last' = [last EXCEPT ![k] = @ + 1]
  /\ outcome' = [outcome EXCEPT ![k][last[k] + 1] = o]

CoalescedAnew(w, n) == [content |-> n, resolvers |-> {n}]   \* *mutant*: earlier callers are dropped

Coalesced(w, n) == [content |-> n, resolvers |-> w.resolvers \cup {n}]

\* write: the batch is flushed at once when it is full
Enqueue(k) ==
  LET p == [pending EXCEPT ![k] = Coalesced(@, last[k] + 1)]
  IN  /\ ~isClosed
      /\ Submit(k, "open")
      /\ \/ IsFull(p) /\ StartFlush(p)
         \/ ~IsFull(p) /\ pending' = p /\ UNCHANGED <<batch, isFlushing>>
      /\ UNCHANGED <<config, direct, closer, disk>>

\* A write after close throws
Refuse(k) ==
  /\ isClosed
  /\ Submit(k, "rejected")
  /\ UNCHANGED <<config, pending, batch, direct, isFlushing, closer, disk>>

\* flush, called by the owner, also after close
Flush ==
  /\ MayFlush(pending)
  /\ StartFlush(pending)
  /\ UNCHANGED <<config, last, direct, closer, disk, outcome>>

\* The interval timer runs until close
TimerFires == ~isClosed /\ Flush

Close ==
  /\ "close" \in config.ops
  /\ ~isClosed
  /\ closer' = IF MayFlush(pending) THEN "flushing" ELSE "returned"
  /\ StartFlush(pending)
  /\ UNCHANGED <<config, last, direct, disk, outcome>>

-----------------------------------------------------------------------------
(* Writes in flight *)

Settle(w, o) ==
  outcome' = [outcome EXCEPT ![w.key] = [n \in Contents |-> IF n \in w.resolvers THEN o ELSE @[n]]]

SettleFirst(w, o) ==   \* *mutant*: only the first of the coalesced callers is told
  outcome' = [outcome EXCEPT ![w.key] =
    [n \in Contents |-> IF n \in w.resolvers /\ \A i \in w.resolvers : n <= i THEN o ELSE @[n]]]

SettleBatched(w, o) == Settle(w, o)

\* The handler of a write of the flush in flight resolves
Written(w) ==
  /\ w \in batch
  /\ batch' = batch \ {w}
  /\ disk' = [disk EXCEPT ![w.key] = w.content]
  /\ SettleBatched(w, "resolved")
  /\ UNCHANGED <<config, last, pending, direct, isFlushing, closer>>

WriteFails(w) ==
  /\ "fail" \in config.ops
  /\ w \in batch
  /\ batch' = batch \ {w}
  /\ SettleBatched(w, "rejected")
  /\ UNCHANGED <<config, last, pending, direct, isFlushing, closer, disk>>

\* Promise.all of the batch settles: whoever awaits this flush goes on
FlushDone ==
  /\ isFlushing /\ batch = {}
  /\ isFlushing' = FALSE
  /\ closer' = IF closer = "flushing" THEN "returned" ELSE closer
  /\ UNCHANGED <<config, last, pending, batch, direct, disk, outcome>>

-----------------------------------------------------------------------------
(* Writes past the queue *)

Single(k) == [key |-> k, content |-> last[k] + 1, resolvers |-> {last[k] + 1}]

\* writeImmediate: the promises of the pending write of its key are rejected
WriteImmediate(k) ==
  /\ "immediate" \in config.ops
  /\ ~isClosed
  /\ last[k] < MaxWrites
  /\ last' = [last EXCEPT ![k] = @ + 1]
  /\ outcome' = [outcome EXCEPT ![k] =
       [n \in Contents |-> IF n = last[k] + 1 THEN "open"
                           ELSE IF n \in pending[k].resolvers THEN "rejected" ELSE @[n]]]
  /\ pending' = [pending EXCEPT ![k] = Unpending]
  /\ direct' = direct \cup {Single(k)}
  /\ UNCHANGED <<config, batch, isFlushing, closer, disk>>

\* An atomic write of the owner that does not use the batcher
WriteDirect(k) ==
  /\ "direct" \in config.ops
  /\ Submit(k, "open")
  /\ direct' = direct \cup {Single(k)}
  /\ UNCHANGED <<config, pending, batch, isFlushing, closer, disk>>

DirectWritten(w) ==
  /\ w \in direct
  /\ direct' = direct \ {w}
  /\ disk' = [disk EXCEPT ![w.key] = w.content]
  /\ Settle(w, "resolved")
  /\ UNCHANGED <<config, last, pending, batch, isFlushing, closer>>

DirectFails(w) ==
  /\ "fail" \in config.ops
  /\ w \in direct
  /\ direct' = direct \ {w}
  /\ Settle(w, "rejected")
  /\ UNCHANGED <<config, last, pending, batch, isFlushing, closer, disk>>

-----------------------------------------------------------------------------
BatcherInit ==
  /\ config \in Configs
  /\ last = [k \in Keys |-> 0]
  /\ pending = [k \in Keys |-> Unpending]
  /\ batch = {}
  /\ direct = {}
  /\ isFlushing = FALSE
  /\ closer = "no"
  /\ disk = [k \in Keys |-> 0]
  /\ outcome = [k \in Keys |-> [n \in Contents |-> "none"]]

\* Steps of the handler and of the timer
Background ==
  \/ \E w \in batch : Written(w) \/ WriteFails(w)
  \/ \E w \in direct : DirectWritten(w) \/ DirectFails(w)
  \/ FlushDone
  \/ TimerFires

-----------------------------------------------------------------------------
(* Properties *)

\* Every variable has its type, and a write is in a batch only during a flush.
BatcherTypeOK ==
  /\ config \in Configs
  /\ last \in [Keys -> 0..MaxWrites]
  /\ pending \in [Keys -> [content : 0..MaxWrites, resolvers : SUBSET Contents]]
  /\ batch \subseteq Write
  /\ direct \subseteq Write
  /\ isFlushing \in BOOLEAN
  /\ closer \in Closers
  /\ disk \in [Keys -> 0..MaxWrites]
  /\ outcome \in [Keys -> [Contents -> Outcomes]]
  /\ batch # {} => isFlushing

B == INSTANCE WriteBehind WITH stored <- disk

\* As long as every write of a key goes through the queue, nothing else touches its file
\* and it is deleted by nobody, the batcher is a write-behind store: coalescing, a flush
\* that overlaps with later writes, failed writes and close never let an older content
\* overwrite a newer one, nor fulfil the promise of a write that is not stored.
OnlyQueued == config.ops \cap {"immediate", "direct", "delete", "external"} = {}

ImplementsWriteBehind == [][OnlyQueued => B!Next]_<<last, disk, outcome>>

\* No caller of write is forgotten: a promise that is open is one that the queue, where the
\* next flush takes it, or a write in flight will settle, although contents are coalesced,
\* the queue is taken by overlapping flushes and writeImmediate takes its place in it.
PromisesHeld ==
  \A k \in Keys, n \in Contents : outcome[k][n] = "open" =>
    \/ n \in pending[k].resolvers /\ k \in Pending(pending)
    \/ \E w \in batch \cup direct : w.key = k /\ n \in w.resolvers

\* Every promise settles, unless close came while a flush was in flight and left the
\* write in the queue.
Abandoned(k) == isClosed /\ pending[k].content # 0

WritesSettle ==
  \A k \in Keys, n \in Contents :
    [](outcome[k][n] = "open" => <>(outcome[k][n] # "open" \/ Abandoned(k)))
=============================================================================
