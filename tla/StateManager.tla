---------------------------- MODULE StateManager ----------------------------
(***************************************************************************)
(* The state of one project on file and the processes that change it,      *)
(* state-manager/StatePersistence, StateRecovery, StateHistory and         *)
(* StateManager.                                                           *)
(*                                                                         *)
(* Every call is a path of steps, each a read or a write of one file, with *)
(* other processes' steps, failures and crashes in between.  A section's   *)
(* file and the metadata's have locks; a checkpoint, an audit entry and    *)
(* updateMeta read and write without one.  A section holds the keys that   *)
(* were merged into it: a process merges its own name.                     *)
(*                                                                         *)
(* Instance: the project exists, one section, enableLocking, history off.  *)
(***************************************************************************)
EXTENDS StateMachine, Sequences

CONSTANTS Clients,
          InitialStates,    \* of initializeProject
          OverrideTargets,  \* the states an administrator overrides to
          MaxCheckpoints,   \* maxCheckpoints
          MaxAudit,         \* recordAudit keeps the last 100 entries
          MaxCalls,         \* bound: the calls of one process
          Roles             \* the roles considered: what each process calls

Updates == {"update", "set"}
Recoveries == {"skip", "recover", "override"}   \* the calls that save a checkpoint
Kinds == Updates \cup Recoveries \cup {"unsavedSkip", "transition", "restore"}

CONSTANTS Free, Stale      \* a lock nobody holds, and one whose holder crashed

ASSUME StateAssumption ==
  /\ InitialStates \subseteq ProjectStates /\ OverrideTargets \subseteq ProjectStates
  /\ MaxCheckpoints \in Nat \ {0} /\ MaxAudit \in Nat \ {0} /\ MaxCalls \in Nat
  /\ Roles \subseteq [Clients -> SUBSET Kinds]
  /\ Free \notin Clients /\ Stale \notin Clients /\ Free # Stale

VARIABLES role,          \* what each process calls
          meta,          \* the metadata file
          section,       \* the section's file
          checkpoints,   \* the checkpoints file, newest first
          audit,         \* the recovery audit log, newest first
          sectionLock, metaLock,
          pc,            \* the step each process is at
          job,           \* what its call asked for
          read,          \* what its call read from the files
          calls          \* how many calls it made

files == <<meta, section, checkpoints, audit>>
locks == <<sectionLock, metaLock>>
procs == <<pc, job, read, calls>>
vars == <<role, files, locks, procs>>

-----------------------------------------------------------------------------
(* Calls as paths: the step after each step, from "idle" back to "idle" *)

UpdateReadingUnlocked ==   \* *mutant*: the section is read before it is locked
  [idle |-> "readSection", readSection |-> "lockSection", lockSection |-> "writeSection",
   writeSection |-> "readMeta", readMeta |-> "writeMeta", writeMeta |-> "unlockSection",
   unlockSection |-> "idle"]

UpdatePath ==
  [idle |-> "lockSection", lockSection |-> "readSection", readSection |-> "writeSection",
   writeSection |-> "readMeta", readMeta |-> "writeMeta", writeMeta |-> "unlockSection",
   unlockSection |-> "idle"]

TransitionReadingUnlocked ==   \* *mutant*: the metadata is read before it is locked
  [idle |-> "readMeta", readMeta |-> "lockMeta", lockMeta |-> "writeMeta",
   writeMeta |-> "unlockMeta", unlockMeta |-> "idle"]

TransitionPath ==
  [idle |-> "lockMeta", lockMeta |-> "readMeta", readMeta |-> "writeMeta",
   writeMeta |-> "unlockMeta", unlockMeta |-> "idle"]

SkipPath ==
  [idle |-> "collect", collect |-> "readCheckpoints", readCheckpoints |-> "writeCheckpoints",
   writeCheckpoints |-> "readFirstLog", readFirstLog |-> "writeFirstLog",
   writeFirstLog |-> "lockMeta", lockMeta |-> "readMeta", readMeta |-> "writeMeta",
   writeMeta |-> "unlockMeta", unlockMeta |-> "readLog", readLog |-> "writeLog",
   writeLog |-> "idle"]

\* skipTo with createCheckpoint false
UnsavedSkipPath ==
  [idle |-> "lockMeta", lockMeta |-> "readMeta", readMeta |-> "writeMeta",
   writeMeta |-> "unlockMeta", unlockMeta |-> "readLog", readLog |-> "writeLog",
   writeLog |-> "idle"]

RecoverPath ==
  [idle |-> "collect", collect |-> "readCheckpoints", readCheckpoints |-> "writeCheckpoints",
   writeCheckpoints |-> "lockMeta", lockMeta |-> "readMeta", readMeta |-> "writeMeta",
   writeMeta |-> "unlockMeta", unlockMeta |-> "readLog", readLog |-> "writeLog",
   writeLog |-> "idle"]

OverrideLoggedLast == RecoverPath   \* *mutant*: the audit entry after the transition

OverridePath ==
  [idle |-> "collect", collect |-> "readCheckpoints", readCheckpoints |-> "writeCheckpoints",
   writeCheckpoints |-> "readLog", readLog |-> "writeLog", writeLog |-> "lockMeta",
   lockMeta |-> "readMeta", readMeta |-> "writeMeta", writeMeta |-> "unlockMeta",
   unlockMeta |-> "idle"]

RestorePath ==
  [idle |-> "readMeta", readMeta |-> "writeMeta", writeMeta |-> "restoreSection",
   restoreSection |-> "readLog", readLog |-> "writeLog", writeLog |-> "idle"]

Path ==
  [update |-> UpdatePath, set |-> UpdatePath, transition |-> TransitionPath, skip |-> SkipPath,
   unsavedSkip |-> UnsavedSkipPath, recover |-> RecoverPath, override |-> OverridePath,
   restore |-> RestorePath]

\* "giveUp" releases what a call that failed has locked
Steps == (UNION {DOMAIN Path[k] : k \in Kinds}) \cup {"giveUp"}

-----------------------------------------------------------------------------
(* Data *)

Meta == [state : ProjectStates, version : Nat]
Sections == SUBSET Clients   \* a section that exists is not empty
NoSection == {}
Checkpoint == [state : ProjectStates, section : Sections]
AuditEntry == [type : Kinds \cup {"checkpoint_created"}, from : ProjectStates, to : ProjectStates]
Job == [kind : Kinds, from : ProjectStates, to : ProjectStates, section : Sections]

\* What a call read of each file, until it writes: "section" is read by an update, and collected
\* for a checkpoint
Nothing == [meta |-> [state |-> "collecting", version |-> 0], section |-> NoSection,
            checkpoints |-> <<>>, audit |-> <<>>]

PrunedFirst(x, s, n) ==   \* *mutant*: pruned before the new entry is added
  <<x>> \o SubSeq(s, 1, IF Len(s) < n THEN Len(s) ELSE n)

\* x is put first, and the oldest entries after the first n are dropped
Prepend(x, s, n) == <<x>> \o SubSeq(s, 1, IF Len(s) < n THEN Len(s) ELSE n - 1)

-----------------------------------------------------------------------------
(* Steps *)

At(c, step) == pc[c] = step

Advance(c) == pc' = [pc EXCEPT ![c] = Path[job[c].kind][@]]

\* The step reads a file into the record f
Reads(c, f) ==
  /\ Advance(c)
  /\ read' = [read EXCEPT ![c] = f]
  /\ UNCHANGED <<role, files, locks, job, calls>>

\* A call that passed its checks: what it is to do, and the state it read
Begin(c, j) ==
  /\ At(c, "idle") /\ calls[c] < MaxCalls /\ j.kind \in role[c]
  /\ pc' = [pc EXCEPT ![c] = Path[j.kind].idle]
  /\ job' = [job EXCEPT ![c] = j]
  /\ calls' = [calls EXCEPT ![c] = @ + 1]
  /\ UNCHANGED <<role, files, locks, read>>

JobOf(k, to) == [kind |-> k, from |-> meta.state, to |-> to, section |-> NoSection]

Update(c) == \E k \in Updates : Begin(c, JobOf(k, meta.state))

Transition(c) == \E to \in ValidTransitions[meta.state] : Begin(c, JobOf("transition", to))

SkipTo(c) ==
  \E to \in ProjectStates, k \in {"skip", "unsavedSkip"}, force \in BOOLEAN :
    MaySkip(meta.state, to, force) /\ Begin(c, JobOf(k, to))

RecoverTo(c) == \E to \in RecoveryOptions[meta.state] : Begin(c, JobOf("recover", to))

AdminOverride(c) == \E to \in OverrideTargets : Begin(c, JobOf("override", to))

RestoreCheckpoint(c) ==
  \E i \in DOMAIN checkpoints :
    Begin(c, [JobOf("restore", checkpoints[i].state) EXCEPT !.section = checkpoints[i].section])

Call(c) ==
  Update(c) \/ Transition(c) \/ SkipTo(c) \/ RecoverTo(c) \/ AdminOverride(c) \/ RestoreCheckpoint(c)

LockSection(c) ==
  /\ At(c, "lockSection") /\ sectionLock = Free
  /\ sectionLock' = c
  /\ Advance(c)
  /\ UNCHANGED <<role, files, metaLock, job, read, calls>>

LockMeta(c) ==
  /\ At(c, "lockMeta") /\ metaLock = Free
  /\ metaLock' = c
  /\ Advance(c)
  /\ UNCHANGED <<role, files, sectionLock, job, read, calls>>

Released(lock, c) == IF lock = c THEN Free ELSE lock

UnlockSection(c) ==
  /\ At(c, "unlockSection")
  /\ sectionLock' = Released(sectionLock, c)
  /\ Advance(c)
  /\ UNCHANGED <<role, files, metaLock, job, read, calls>>

UnlockMeta(c) ==
  /\ At(c, "unlockMeta")
  /\ metaLock' = Released(metaLock, c)
  /\ Advance(c)
  /\ UNCHANGED <<role, files, sectionLock, job, read, calls>>

ReadSection(c) ==
  /\ At(c, "readSection")
  /\ Reads(c, [read[c] EXCEPT !.section = section])

\* collectSectionStates leaves out a section that cannot be read
Collect(c) ==
  /\ At(c, "collect")
  /\ \E s \in {section, NoSection} : Reads(c, [read[c] EXCEPT !.section = s])

ReadMeta(c) ==
  /\ At(c, "readMeta")
  /\ Reads(c, [read[c] EXCEPT !.meta = meta])

ReadCheckpoints(c) ==
  /\ At(c, "readCheckpoints")
  /\ Reads(c, [read[c] EXCEPT !.checkpoints = checkpoints])

ReadLog(c) ==
  /\ pc[c] \in {"readFirstLog", "readLog"}
  /\ Reads(c, [read[c] EXCEPT !.audit = audit])

\* updateState merges what it was given, setState replaces
Merged(c) ==
  IF job[c].kind = "update" THEN read[c].section \cup {c} ELSE {c}

WriteSection(c) ==
  /\ At(c, "writeSection")
  /\ section' = Merged(c)
  /\ Advance(c)
  /\ read' = [read EXCEPT ![c].section = NoSection]
  /\ UNCHANGED <<role, meta, checkpoints, audit, locks, job, calls>>

\* updateMeta keeps the state it read; a transition and a restore put theirs
WriteMeta(c) ==
  /\ At(c, "writeMeta")
  /\ meta' = [state |-> IF job[c].kind \in Updates THEN read[c].meta.state ELSE job[c].to,
              version |-> read[c].meta.version + 1]
  /\ Advance(c)
  /\ read' = [read EXCEPT ![c].meta = Nothing.meta]
  /\ UNCHANGED <<role, section, checkpoints, audit, locks, job, calls>>

WriteCheckpoints(c) ==
  /\ At(c, "writeCheckpoints")
  /\ checkpoints' = Prepend([state |-> job[c].from, section |-> read[c].section],
                            read[c].checkpoints, MaxCheckpoints)
  /\ Advance(c)
  /\ read' = [read EXCEPT ![c].checkpoints = <<>>, ![c].section = NoSection]
  /\ UNCHANGED <<role, meta, section, audit, locks, job, calls>>

LogEntry(c) ==
  IF pc[c] = "writeFirstLog"
  THEN [type |-> "checkpoint_created", from |-> job[c].from, to |-> job[c].from]
  ELSE [type |-> job[c].kind, from |-> job[c].from, to |-> job[c].to]

WriteLog(c) ==
  /\ pc[c] \in {"writeFirstLog", "writeLog"}
  /\ audit' = Prepend(LogEntry(c), read[c].audit, MaxAudit)
  /\ Advance(c)
  /\ read' = [read EXCEPT ![c].audit = <<>>]
  /\ UNCHANGED <<role, meta, section, checkpoints, locks, job, calls>>

\* restoreSectionStates writes the sections the checkpoint has, and removes none
RestoreSection(c) ==
  /\ At(c, "restoreSection")
  /\ section' = IF job[c].section = NoSection THEN section ELSE job[c].section
  /\ Advance(c)
  /\ UNCHANGED <<role, meta, checkpoints, audit, locks, job, read, calls>>

-----------------------------------------------------------------------------
(* Failures *)

ThrowsAtOnce(c) == "idle"   \* *mutant*: no finally

\* finally releases the lock
AfterThrow(c) == IF c \in {sectionLock, metaLock} THEN "giveUp" ELSE "idle"

\* A lock that is not obtained, a read or a write that throws
Fail(c) ==
  /\ pc[c] \notin {"idle", "giveUp", "unlockSection", "unlockMeta"}
  /\ pc' = [pc EXCEPT ![c] = AfterThrow(c)]
  /\ read' = [read EXCEPT ![c] = Nothing]
  /\ UNCHANGED <<role, files, locks, job, calls>>

GiveUp(c) ==
  /\ At(c, "giveUp")
  /\ sectionLock' = Released(sectionLock, c)
  /\ metaLock' = Released(metaLock, c)
  /\ pc' = [pc EXCEPT ![c] = "idle"]
  /\ UNCHANGED <<role, files, job, read, calls>>

\* The process restarts and knows nothing of its call; the file of its lock is left behind
Crash(c) ==
  /\ ~At(c, "idle")
  /\ sectionLock' = IF sectionLock = c THEN Stale ELSE sectionLock
  /\ metaLock' = IF metaLock = c THEN Stale ELSE metaLock
  /\ pc' = [pc EXCEPT ![c] = "idle"]
  /\ read' = [read EXCEPT ![c] = Nothing]
  /\ UNCHANGED <<role, files, job, calls>>

\* A lock left behind times out
Expire ==
  /\ Stale \in {sectionLock, metaLock}
  /\ sectionLock' = Released(sectionLock, Stale)
  /\ metaLock' = Released(metaLock, Stale)
  /\ UNCHANGED <<role, files, procs>>

-----------------------------------------------------------------------------
Init ==
  /\ role \in Roles
  /\ \E s \in InitialStates : meta = [state |-> s, version |-> 1]
  /\ section = NoSection /\ checkpoints = <<>> /\ audit = <<>>
  /\ sectionLock = Free /\ metaLock = Free
  /\ pc = [c \in Clients |-> "idle"]
  /\ job = [c \in Clients |-> JobOf("update", meta.state)]
  /\ read = [c \in Clients |-> Nothing]
  /\ calls = [c \in Clients |-> 0]

Read(c) == ReadSection(c) \/ Collect(c) \/ ReadMeta(c) \/ ReadCheckpoints(c) \/ ReadLog(c)

Write(c) ==
  WriteSection(c) \/ WriteMeta(c) \/ WriteCheckpoints(c) \/ WriteLog(c) \/ RestoreSection(c)

Step(c) ==
  LockSection(c) \/ LockMeta(c) \/ UnlockSection(c) \/ UnlockMeta(c) \/ Read(c) \/ Write(c)
  \/ GiveUp(c)

Next ==
  \/ \E c \in Clients : Call(c) \/ Step(c) \/ Fail(c) \/ Crash(c)
  \/ Expire

\* Reads and writes settle, and a lock that was left behind times out
Fairness == WF_vars(Expire) /\ \A c \in Clients : WF_vars(Step(c))

SafeSpec == Init /\ [][Next]_vars
Spec == SafeSpec /\ Fairness

-----------------------------------------------------------------------------
(* Properties *)

\* Every variable has its type; the checkpoints and the audit log keep their bounds.
TypeOK ==
  /\ role \in Roles
  /\ meta \in Meta /\ section \in Sections
  /\ checkpoints \in Seq(Checkpoint) /\ Len(checkpoints) <= MaxCheckpoints
  /\ audit \in Seq(AuditEntry) /\ Len(audit) <= MaxAudit
  /\ sectionLock \in Clients \cup {Free, Stale} /\ metaLock \in Clients \cup {Free, Stale}
  /\ pc \in [Clients -> Steps] /\ job \in [Clients -> Job] /\ calls \in [Clients -> 0..MaxCalls]
  /\ read \in [Clients -> [meta : [state : ProjectStates, version : Nat], section : Sections,
                           checkpoints : Seq(Checkpoint), audit : Seq(AuditEntry)]]

NobodyRestores == \A c \in Clients : "restore" \notin role[c]

\* Without a restore, which writes sections without their lock, only setState takes keys out of
\* a section: no merge ever writes over another one, whatever fails or crashes.
UpdatesKept ==
  [][NobodyRestores =>
       \/ section \subseteq section'
       \/ \E c \in Clients : WriteSection(c) /\ job[c].kind = "set"]_vars

OnlyLockedWrites == \A c \in Clients : role[c] \cap (Updates \cup {"restore"}) = {}

\* Without the unlocked writes of updates and restores, the version counts the changes of the
\* project's state: none is written over one it did not see, whatever fails or crashes.
ChangesCounted == [][OnlyLockedWrites /\ meta' # meta => meta'.version = meta.version + 1]_vars

\* The calls that write the audit log
Loggers == Recoveries \cup {"unsavedSkip", "restore"}

SoleRecoverer ==
  \A c, d \in Clients : role[c] \cap Loggers # {} /\ role[d] \cap Loggers # {} => c = d

\* A skip, a recovery or an override by the only process that makes them and restores reaches the
\* metadata only when a checkpoint of the state it was checked against is on file, and an override
\* only when it is in the audit log too: none is ever without a way back or a trace.
RecoveryTraceable ==
  [][\A c \in Clients : SoleRecoverer /\ WriteMeta(c) /\ job[c].kind \in Recoveries =>
       /\ \E i \in DOMAIN checkpoints : checkpoints[i].state = job[c].from
       /\ job[c].kind = "override" =>
            \E i \in DOMAIN audit : audit[i] = [type |-> "override", from |-> job[c].from, to |-> job[c].to]]_vars

\* Whoever holds a lock is in a call, and at a step of it that waits for no lock: nobody forgets
\* one, whatever fails, and no two processes wait for each other's.
HoldersGoOn ==
  \A c \in Clients : c \in {sectionLock, metaLock} => pc[c] \notin {"idle", "lockSection", "lockMeta"}

\* A lock is never kept for good, whatever fails while it is held.
LocksReleased == (sectionLock # Free ~> sectionLock = Free) /\ (metaLock # Free ~> metaLock = Free)
=============================================================================
