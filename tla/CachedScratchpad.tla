-------------------------- MODULE CachedScratchpad --------------------------
(***************************************************************************)
(* The read and write cache over the batcher, scratchpad/CachedScratchpad  *)
(* with LRUCache.                                                          *)
(*                                                                         *)
(* write puts a content into the cache and queues it; a read returns the   *)
(* cached content, after comparing modification times if change detection  *)
(* is on, or loads the file.  Reads await the file system, so that writes, *)
(* flushes and other reads of the same key come between their steps.       *)
(*                                                                         *)
(* A file's modification time is identified with the content it holds; an  *)
(* entry of an own write carries the time of the call instead (0), which   *)
(* is the file's only by chance.                                           *)
(***************************************************************************)
EXTENDS WriteBatcher

CONSTANTS Clients   \* callers with one read or deletion at a time

VARIABLES cache,    \* the LRU cache: content and time of an entry, NoEntry if there is none
          call      \* the read or deletion each client is in

vars == <<config, last, pending, batch, direct, isFlushing, closer, disk, outcome, cache, call>>

\* batching, caching and change detection are options; in a sequential configuration
\* one caller awaits each of its calls before it makes the next
ASSUME CacheAssumption ==
  /\ Keys # {}
  /\ \A c \in Configs :
       /\ c.batching \in BOOLEAN /\ c.caching \in BOOLEAN /\ c.detect \in BOOLEAN
       /\ c.sequential \in BOOLEAN
       /\ ~c.batching => "direct" \in c.ops

NoEntry == [content |-> 0, mtime |-> 0]

OwnEntry(n) == [content |-> n, mtime |-> 0]

Idle == [pc |-> "idle", key |-> CHOOSE k \in Keys : TRUE, entry |-> NoEntry]

PCs == {"idle", "checking", "loading", "stating", "deleting", "answered"}

Goto(c, pc, k, e) == call' = [call EXCEPT ![c] = [pc |-> pc, key |-> k, entry |-> e]]

\* The read of client c returns content n, 0 for a missing file
Answer(c, k, n) == Goto(c, "answered", k, OwnEntry(n))

\* A sequential caller has nothing else to wait for
MayCall == config.sequential => direct = {} /\ \A c \in Clients : call[c].pc = "idle"

-----------------------------------------------------------------------------
(* Writing *)

CacheWrite(k) ==
  cache' = IF config.caching THEN [cache EXCEPT ![k] = OwnEntry(last'[k])] ELSE cache

CacheMiss(k) ==   \* *mutant*: the entry is left for the next read to replace
  cache' = cache

UpdateCache(k) == CacheWrite(k)

\* write, writeImmediate: the cache has the content before the batcher takes or refuses it,
\* and a write the batcher refuses is reported to nobody
WriteQueued(k) ==
  /\ MayCall
  /\ config.batching
  /\ Enqueue(k) \/ Refuse(k)
  /\ UpdateCache(k)
  /\ UNCHANGED call

\* write with a file mode, and every write without a batcher
WriteThrough(k) ==
  /\ MayCall
  /\ WriteDirect(k)
  /\ UpdateCache(k)
  /\ UNCHANGED call

WriteNow(k) ==
  /\ MayCall
  /\ config.batching
  /\ WriteImmediate(k) \/ ("immediate" \in config.ops /\ Refuse(k))
  /\ UpdateCache(k)
  /\ UNCHANGED call

-----------------------------------------------------------------------------
(* Reading *)

\* The entry is compared with the file, unless a write of it is pending
Compared(k) == config.detect /\ k \notin Pending(pending)

\* readWithCache up to its first await.  A pending write is found through the cache only.
Read(c, k) ==
  /\ MayCall
  /\ call[c].pc = "idle"
  /\ \/ /\ cache[k] = NoEntry
        /\ Goto(c, "loading", k, NoEntry)
     \/ /\ cache[k] # NoEntry /\ Compared(k)
        /\ Goto(c, "checking", k, cache[k])
     \/ /\ cache[k] # NoEntry /\ ~Compared(k)
        /\ Answer(c, k, cache[k].content)
  /\ UNCHANGED <<batcherVars, cache>>

\* isCacheValid: the file has the time of the entry, by chance if that is an own write's
MayBeValid(e, n) == n # 0 /\ (e.mtime = n \/ e = OwnEntry(n))

\* The entry compared and returned is the one read before the file was stated
Checked(c) ==
  LET k == call[c].key
      e == call[c].entry
  IN  /\ call[c].pc = "checking"
      /\ \/ /\ MayBeValid(e, disk[k])
            /\ Answer(c, k, e.content)
            /\ UNCHANGED cache
         \/ /\ disk[k] = 0 \/ e.mtime # disk[k]
            /\ cache' = [cache EXCEPT ![k] = NoEntry]
            /\ Goto(c, "loading", k, NoEntry)
      /\ UNCHANGED batcherVars

\* readFile: a missing file ends the read, and without caching so does any other
FileRead(c) ==
  LET k == call[c].key
  IN  /\ call[c].pc = "loading"
      /\ \/ /\ disk[k] = 0 \/ ~config.caching
            /\ Answer(c, k, disk[k])
         \/ /\ disk[k] # 0 /\ config.caching
            /\ Goto(c, "stating", k, OwnEntry(disk[k]))
      /\ UNCHANGED <<batcherVars, cache>>

\* stat, some time after readFile, and a new entry over whatever the cache has by then
FileStated(c) ==
  LET k == call[c].key
      n == call[c].entry.content
  IN  /\ call[c].pc = "stating"
      /\ \/ /\ disk[k] = 0
            /\ Answer(c, k, 0)
            /\ UNCHANGED cache
         \/ /\ disk[k] # 0
            /\ cache' = [cache EXCEPT ![k] = [content |-> n, mtime |-> disk[k]]]
            /\ Answer(c, k, n)
      /\ UNCHANGED batcherVars

Return(c) ==
  /\ call[c].pc = "answered"
  /\ call' = [call EXCEPT ![c] = Idle]
  /\ UNCHANGED <<batcherVars, cache>>

-----------------------------------------------------------------------------
(* Deleting, dropping entries, closing *)

\* deleteFile drops the entry, but not a pending write, and removes the file
Delete(c, k) ==
  /\ "delete" \in config.ops
  /\ MayCall
  /\ call[c].pc = "idle"
  /\ cache' = [cache EXCEPT ![k] = NoEntry]
  /\ Goto(c, "deleting", k, NoEntry)
  /\ UNCHANGED batcherVars

Deleted(c) ==
  /\ call[c].pc = "deleting"
  /\ disk' = [disk EXCEPT ![call[c].key] = 0]
  /\ call' = [call EXCEPT ![c] = Idle]
  /\ UNCHANGED <<config, last, pending, batch, direct, isFlushing, closer, outcome, cache>>

\* invalidateCache, a full cache or a time to live
Evict(k) ==
  /\ "evict" \in config.ops
  /\ cache[k] # NoEntry
  /\ cache' = [cache EXCEPT ![k] = NoEntry]
  /\ UNCHANGED <<batcherVars, call>>

FlushNow == Flush /\ UNCHANGED <<cache, call>>

\* cleanup closes the batcher and, once close has returned, empties the cache
Cleanup == Close /\ UNCHANGED <<cache, call>>

CleanedUp ==
  /\ closer = "returned"
  /\ closer' = "cleaned"
  /\ cache' = [k \in Keys |-> NoEntry]
  /\ UNCHANGED <<config, last, pending, batch, direct, isFlushing, disk, outcome, call>>

\* Another process writes the file
ExternalWrite(k) ==
  /\ "external" \in config.ops
  /\ Submit(k, "resolved")
  /\ disk' = [disk EXCEPT ![k] = last'[k]]
  /\ UNCHANGED <<config, pending, batch, direct, isFlushing, closer, cache, call>>

-----------------------------------------------------------------------------
Init ==
  /\ BatcherInit
  /\ cache = [k \in Keys |-> NoEntry]
  /\ call = [c \in Clients |-> Idle]

BatcherStep == Background /\ UNCHANGED <<cache, call>>

ReadStep(c) == Checked(c) \/ FileRead(c) \/ FileStated(c) \/ Return(c) \/ Deleted(c)

Next ==
  \/ \E k \in Keys :
       \/ WriteQueued(k) \/ WriteThrough(k) \/ WriteNow(k)
       \/ Evict(k) \/ ExternalWrite(k)
       \/ \E c \in Clients : Read(c, k) \/ Delete(c, k)
  \/ \E c \in Clients : ReadStep(c)
  \/ FlushNow \/ Cleanup \/ CleanedUp
  \/ BatcherStep

\* Node runs the timer and its callbacks, and the file system answers
Fairness == WF_vars(BatcherStep) /\ WF_vars(CleanedUp) /\ \A c \in Clients : WF_vars(ReadStep(c))

SafeSpec == Init /\ [][Next]_vars
Spec == SafeSpec /\ Fairness

-----------------------------------------------------------------------------
(* Properties *)

\* Every variable has its type, and a write is in a batch only during a flush.
TypeOK ==
  /\ BatcherTypeOK
  /\ cache \in [Keys -> [content : 0..MaxWrites, mtime : 0..MaxWrites]]
  /\ call \in [Clients -> [pc : PCs, key : Keys,
                           entry : [content : 0..MaxWrites, mtime : 0..MaxWrites]]]

\* A caller that awaits its calls reads what it wrote last, wherever that is by then:
\* queued, in a flush, refused or failed.  It holds only with a cache that keeps its
\* entries and trusts them, and until cleanup: no read looks into the queue itself.
OwnWritesCached ==
  /\ config.sequential /\ config.caching /\ ~config.detect
  /\ config.ops \cap {"close", "delete", "external", "evict"} = {}

ReadYourWrites ==
  OwnWritesCached =>
    \A c \in Clients : call[c].pc = "answered" => call[c].entry.content = last[call[c].key]
=============================================================================
