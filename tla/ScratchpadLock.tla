--------------------------- MODULE ScratchpadLock ---------------------------
(***************************************************************************)
(* The lock file of one path, scratchpad/Scratchpad: withLock, acquireLock *)
(* and releaseLock, stealing, cooperative release, heartbeats and the      *)
(* auto-release timer.  A client is a process with its own holder id, in   *)
(* one withLock call at a time.  Every file system call is a step of its   *)
(* own; a heartbeat's writeFile is two, since it truncates the file before *)
(* it writes it.  How long retries wait and how many there are is left     *)
(* open: a client may give up wherever it would retry.                     *)
(***************************************************************************)
EXTENDS Naturals, FiniteSets

CONSTANTS Clients,
          NoClient,
          MaxCrashes,      \* bound
          MaxGeneration,   \* bound: higher generations are not told apart
          Configs          \* the configurations considered, see config

\* Which locks outlive their expiresAt: none, those whose holder does not use them any
\* more (a function is faster than lockTimeout), or any
Expiries == {"never", "abandoned", "any"}

ASSUME LockAssumption ==
  /\ NoClient \notin Clients
  /\ MaxCrashes \in Nat /\ MaxGeneration \in Nat
  /\ Configs \subseteq [callers : SUBSET Clients, expires : Expiries, heartbeat : SUBSET Clients, cooperative : BOOLEAN]

VARIABLES config,     \* the clients that call withLock, the expiry of locks, the
                      \* clients with heartbeats, cooperativeRelease
          lockFile,   \* the lock file, NoLock if there is none
          client      \* each client's withLock call and timers

vars == <<config, lockFile, client>>

-----------------------------------------------------------------------------
(* The lock file *)

\* torn: the file was truncated and cannot be parsed
Lock == [holder : Clients \cup {NoClient}, generation : 0..MaxGeneration,
         expired : BOOLEAN, torn : BOOLEAN]

NoLock == [holder |-> NoClient, generation |-> 0, expired |-> FALSE, torn |-> FALSE]

LockOf(c, g) == [holder |-> c, generation |-> g, expired |-> FALSE, torn |-> FALSE]

Exists == lockFile # NoLock

\* readLock; NoLock also for a file that cannot be parsed
Read == IF lockFile.torn THEN NoLock ELSE lockFile

-----------------------------------------------------------------------------
(* Clients *)

PCs == {"idle",
        "linking",       \* the temporary file is written, link is next
        "examining",     \* link failed, readLock is next
        "cooperating",   \* tryCooperativeRelease polls
        "stealing",      \* tryStealLock reads the lock again
        "renaming",      \* ... and renames the temporary file over it
        "critical",      \* the function runs
        "releasing",     \* releaseLock reads the lock
        "unlinking",     \* ... and unlinks it
        "crashed"}

\* Timers belong to the activeLocks entry, or to one that was overwritten before they were
\* cleared.  Bound: those of several overwritten entries are not told apart.
Owners == {"entry", "overwritten"}

\* The call, what it has read, the holder it has asked to release; the auto-release timers
\* that have not fired, the heartbeat intervals that run, and the releaseLock and
\* updateLockHeartbeat calls they have in flight (bound: one of each)
NewClient == [pc |-> "idle", seen |-> NoLock, asked |-> NoClient,
              timers |-> {}, intervals |-> {}, releases |-> FALSE,
              beats |-> "no", copy |-> NoLock]

Using == {c \in Clients : client[c].pc \in {"critical", "releasing", "unlinking"}}

Goto(c, pc) == client' = [client EXCEPT ![c].pc = pc]

\* Try again, or give up with a LockContentionError
Retry(c) ==
  client' \in {[client EXCEPT ![c].pc = pc, ![c].seen = NoLock,
                              ![c].asked = IF pc = "idle" THEN NoClient ELSE @]
                 : pc \in {"linking", "idle"}}

\* A new entry's timer, beside those that run
Started(running) == {"entry"} \cup (IF running # {} THEN {"overwritten"} ELSE {})

\* setupAutoRelease: a new entry, its timers and the function's start
Entered(r, heartbeat) ==
  [r EXCEPT !.pc = "critical", !.seen = NoLock, !.asked = NoClient, !.timers = Started(@),
            !.intervals = IF heartbeat THEN Started(@) ELSE {}]

\* The lock is acquired
Enter(c) == client' = [client EXCEPT ![c] = Entered(@, c \in config.heartbeat)]

\* A write to a file that is gone has no effect
Detached == [d \in Clients |->
               IF client[d].beats = "truncated"
               THEN [client[d] EXCEPT !.beats = "no", !.copy = NoLock] ELSE client[d]]

-----------------------------------------------------------------------------
(* acquireLock *)

Call(c) ==
  /\ c \in config.callers
  /\ client[c].pc = "idle"
  /\ Goto(c, "linking")
  /\ UNCHANGED <<config, lockFile>>

\* Mutant: rename instead of link, which overwrites an existing lock
LinkOrOverwrite(c) ==
  /\ client[c].pc = "linking"
  /\ lockFile' = LockOf(c, 0)
  /\ Enter(c)
  /\ UNCHANGED config

\* link fails if the file exists, whatever is in it
Link(c) ==
  /\ client[c].pc = "linking"
  /\ \/ /\ ~Exists
        /\ lockFile' = LockOf(c, 0)
        /\ Enter(c)
     \/ /\ Exists
        /\ Goto(c, "examining")
        /\ UNCHANGED lockFile
  /\ UNCHANGED config

\* Mutant: any lock is stolen
ExamineImpatient(c) ==
  /\ client[c].pc = "examining"
  /\ \/ Read # NoLock /\ client' = [client EXCEPT ![c].seen = Read, ![c].pc = "stealing"]
     \/ Read = NoLock /\ Retry(c)
  /\ UNCHANGED <<config, lockFile>>

\* An expired lock is stolen, after its holder was asked once to release it
Examine(c) ==
  /\ client[c].pc = "examining"
  /\ \/ /\ Read.expired
        /\ LET ask == config.cooperative /\ client[c].asked # Read.holder
           IN  client' = [client EXCEPT ![c].seen = Read,
                                        ![c].pc = IF ask THEN "cooperating" ELSE "stealing",
                                        ![c].asked = IF ask THEN Read.holder ELSE @]
     \/ /\ ~Read.expired
        /\ Retry(c)
  /\ UNCHANGED <<config, lockFile>>

\* A poll that finds no lock; otherwise the holder changes or the time runs out
Cooperate(c) ==
  /\ client[c].pc = "cooperating"
  /\ \/ Read = NoLock /\ Retry(c)
     \/ Goto(c, "stealing")
  /\ UNCHANGED <<config, lockFile>>

\* Mutant: compared with the generation the stolen lock will have
UnchangedNext(lock, seen) ==
  lock # NoLock => lock.generation = seen.generation + 1 /\ lock.holder = seen.holder

\* The lock has not changed, as far as tryStealLock looks, or it is gone
Unchanged(lock, seen) ==
  lock # NoLock => lock.generation = seen.generation /\ lock.holder = seen.holder

Verify(c) ==
  /\ client[c].pc = "stealing"
  /\ \/ Unchanged(Read, client[c].seen) /\ Goto(c, "renaming")
     \/ ~Unchanged(Read, client[c].seen) /\ Retry(c)
  /\ UNCHANGED <<config, lockFile>>

Rename(c) ==
  LET g == IF client[c].seen.generation < MaxGeneration
           THEN client[c].seen.generation + 1 ELSE MaxGeneration
  IN  /\ client[c].pc = "renaming"
      /\ lockFile' = LockOf(c, g)
      /\ client' = [Detached EXCEPT ![c] = Entered(@, c \in config.heartbeat)]
      /\ UNCHANGED config

-----------------------------------------------------------------------------
(* releaseLock, called by withLock and by the auto-release timer *)

Finish(c) ==
  /\ client[c].pc = "critical"
  /\ Goto(c, "releasing")
  /\ UNCHANGED <<config, lockFile>>

\* The lock of another holder is not released; the timers stay
MayUnlink(c) == Read = NoLock \/ Read.holder = c

Release(c) ==
  /\ client[c].pc = "releasing"
  /\ Goto(c, IF MayUnlink(c) THEN "unlinking" ELSE "idle")
  /\ UNCHANGED <<config, lockFile>>

\* The timers of the entry that is there now are cleared
Cleared(r) == [r EXCEPT !.timers = @ \ {"entry"}, !.intervals = @ \ {"entry"}]

\* client c after unlink and, if there was a file, the end of releaseLock
Unlinked(c) == IF Exists THEN Cleared(Detached[c]) ELSE client[c]

Unlink(c) ==
  /\ client[c].pc = "unlinking"
  /\ lockFile' = NoLock
  /\ client' = [Detached EXCEPT ![c] = [Unlinked(c) EXCEPT !.pc = "idle"]]
  /\ UNCHANGED config

\* A timer fires when the function takes longer than lockTimeout, or later if the release
\* did not clear it.  Its release may throw, and then leaves the heartbeat interval.
TimerFires(c) ==
  /\ config.expires # "never" /\ ~client[c].releases
  /\ \E t \in client[c].timers :
       /\ t = "entry" => config.expires = "any" \/ c \notin Using
       /\ client' = [client EXCEPT ![c].timers = @ \ {t}, ![c].releases = MayUnlink(c)]
  /\ UNCHANGED <<config, lockFile>>

TimerUnlinks(c) ==
  /\ client[c].releases
  /\ lockFile' = NoLock
  /\ client' = [Detached EXCEPT ![c] = [Unlinked(c) EXCEPT !.releases = FALSE]]
  /\ UNCHANGED config

-----------------------------------------------------------------------------
(* updateLockHeartbeat *)

\* Of any interval that runs: the lock need not be that of its call
HeartbeatReads(c) ==
  /\ client[c].intervals # {} /\ client[c].beats = "no"
  /\ Read.holder = c
  /\ client' = [client EXCEPT ![c].beats = "read", ![c].copy = Read]
  /\ UNCHANGED <<config, lockFile>>

\* writeFile truncates whatever lock file there is now, or creates one
HeartbeatTruncates(c) ==
  /\ client[c].beats = "read"
  /\ lockFile' = [(IF Exists THEN lockFile ELSE client[c].copy) EXCEPT !.torn = TRUE]
  /\ client' = [client EXCEPT ![c].beats = "truncated"]
  /\ UNCHANGED config

HeartbeatWrites(c) ==
  /\ client[c].beats = "truncated"
  /\ lockFile' = [client[c].copy EXCEPT !.expired = FALSE]
  /\ client' = [client EXCEPT ![c].beats = "no", ![c].copy = NoLock]
  /\ UNCHANGED config

-----------------------------------------------------------------------------
(* Time and crashes *)

Crashed == {c \in Clients : client[c].pc = "crashed"}

Expire ==
  /\ Exists /\ ~lockFile.torn /\ ~lockFile.expired
  /\ \/ config.expires = "any"
     \/ config.expires = "abandoned" /\ lockFile.holder \notin Using
  /\ lockFile' = [lockFile EXCEPT !.expired = TRUE]
  /\ UNCHANGED <<config, client>>

Crash(c) ==
  /\ c \notin Crashed /\ Cardinality(Crashed) < MaxCrashes
  /\ client' = [client EXCEPT ![c] = [NewClient EXCEPT !.pc = "crashed"]]
  /\ UNCHANGED <<config, lockFile>>

-----------------------------------------------------------------------------
Init ==
  /\ config \in Configs
  /\ lockFile = NoLock
  /\ client = [c \in Clients |-> NewClient]

ClientStep(c) ==
  \/ Link(c) \/ Examine(c) \/ Cooperate(c) \/ Verify(c) \/ Rename(c)
  \/ Finish(c) \/ Release(c) \/ Unlink(c)

TimerStep(c) ==
  \/ TimerFires(c) \/ TimerUnlinks(c)
  \/ HeartbeatReads(c) \/ HeartbeatTruncates(c) \/ HeartbeatWrites(c)

Next ==
  \/ \E c \in Clients : Call(c) \/ ClientStep(c) \/ TimerStep(c) \/ Crash(c)
  \/ Expire

\* Calls go on, functions return, timers fire and time passes; who needs the lock
\* calls withLock again after it gave up
Fairness ==
  /\ \A c \in Clients : WF_vars(Call(c) \/ ClientStep(c)) /\ WF_vars(HeartbeatWrites(c))
  /\ WF_vars(Expire)

SafeSpec == Init /\ [][Next]_vars
Spec == SafeSpec /\ Fairness

-----------------------------------------------------------------------------
(* Properties *)

\* Every variable has its type, and only a lock seen expired is asked for or stolen.
TypeOK ==
  /\ config \in Configs
  /\ lockFile \in Lock
  /\ client \in [Clients -> [pc : PCs, seen : Lock, asked : Clients \cup {NoClient},
                             timers : SUBSET Owners, intervals : SUBSET Owners, releases : BOOLEAN,
                             beats : {"no", "read", "truncated"}, copy : Lock]]
  /\ \A c \in Clients :
       client[c].pc \in {"cooperating", "stealing", "renaming"} => client[c].seen.expired

Critical == {c \in Clients : client[c].pc = "critical"}

M == INSTANCE Mutex WITH holders <- Critical

\* As long as no lock expires, withLock is a mutual exclusion, whatever crashes, gives
\* up or asks for a release, and although a late heartbeat can bring back a lock file
\* that was released or write over the one of the next holder.
ImplementsMutex == [][config.expires = "never" => M!Next]_Critical

\* A process crashed between truncating the lock file and writing its heartbeat
TornByCrash == lockFile.torn /\ \A c \in Clients : client[c].beats # "truncated"

\* A lock nobody uses any more, of a crashed process or one that a late heartbeat has
\* left, is taken over as long as others call withLock, unless a process crashed while
\* it wrote a heartbeat, or a heartbeat interval of the holder still runs.
AbandonedLockTaken ==
  \A c \in Clients :
    lockFile.holder = c /\ config.expires # "never"
      ~> lockFile.holder # c \/ TornByCrash \/ c \in Using \/ client[c].intervals # {}

\* tryStealLock's "Uses atomic rename to prevent race conditions when multiple
\* processes try to steal the same expired lock": clients that are all faster than
\* lockTimeout do not hold the lock together after one of them crashed.
StealExclusive == Cardinality(Critical) <= 1
=============================================================================
