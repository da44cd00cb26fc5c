------------------------ MODULE StateManager_proofs ------------------------
(***************************************************************************)
(* Type correctness, UpdatesKept, ChangesCounted, RecoveryTraceable and    *)
(* HoldersGoOn of StateManager, and two facts of StateMachine's tables.    *)
(***************************************************************************)
EXTENDS StateManager, TLAPS

Unlocked == Updates \cup {"restore"}

\* The step after s of a call k stays on its path, and a file is written only from what was read
\* under its lock, except for the metadata by updates and restores.
LEMMA Paths ==
  ASSUME NEW k \in Kinds, NEW s \in DOMAIN Path[k]
  PROVE  /\ Path[k][s] \in DOMAIN Path[k]
         /\ Path[k].idle = Path[k]["idle"]
         /\ Path[k][s] = "readSection" => s = "lockSection"
         /\ Path[k][s] = "writeSection" => s = "readSection"
         /\ s = "restoreSection" => k = "restore"
         /\ s = "writeSection" => k \in Updates
         /\ k \notin Unlocked /\ Path[k][s] = "readMeta" => s = "lockMeta"
         /\ k \notin Unlocked /\ Path[k][s] = "writeMeta" => s = "readMeta"
         /\ Path[k]["idle"] \notin {"readSection", "writeSection", "writeMeta"}
         /\ k \notin Unlocked => Path[k]["idle"] # "readMeta"
<1> USE DEF Path, Unlocked, Updates
<1>1. CASE k = "update"  BY <1>1 DEF UpdatePath
<1>2. CASE k = "set"  BY <1>2 DEF UpdatePath
<1>3. CASE k = "transition"  BY <1>3 DEF TransitionPath
<1>4. CASE k = "skip"  BY <1>4 DEF SkipPath
<1>5. CASE k = "unsavedSkip"  BY <1>5 DEF UnsavedSkipPath
<1>6. CASE k = "recover"  BY <1>6 DEF RecoverPath
<1>7. CASE k = "override"  BY <1>7 DEF OverridePath
<1>8. CASE k = "restore"  BY <1>8 DEF RestorePath
<1> QED  BY <1>1, <1>2, <1>3, <1>4, <1>5, <1>6, <1>7, <1>8 DEF Kinds, Recoveries

\* Every path begins.
LEMMA PathsBegin == ASSUME NEW k \in Kinds PROVE "idle" \in DOMAIN Path[k]
BY DEF Kinds, Updates, Recoveries, Path, UpdatePath, TransitionPath, SkipPath, UnsavedSkipPath,
     RecoverPath, OverridePath, RestorePath

\* A list that an entry was put in has one of the right type, and keeps its bound.
LEMMA Prepended ==
  ASSUME NEW S, NEW x \in S, NEW s \in Seq(S), NEW n \in Nat \ {0}
  PROVE  Prepend(x, s, n) \in Seq(S) /\ Len(Prepend(x, s, n)) <= n
<1> DEFINE m == IF Len(s) < n THEN Len(s) ELSE n - 1
           t == SubSeq(s, 1, m)
<1>1. Len(s) \in Nat /\ m \in 0..Len(s) /\ m + 1 <= n  OBVIOUS
<1>2. t \in Seq(S) /\ Len(t) = m  BY <1>1
<1>3. <<x>> \o t \in Seq(S) /\ Len(<<x>> \o t) = 1 + Len(t)  BY <1>2
<1>4. Prepend(x, s, n) = <<x>> \o t  BY DEF Prepend
<1> HIDE DEF t, m
<1> QED  BY <1>1, <1>2, <1>3, <1>4

-----------------------------------------------------------------------------
(* The invariant *)

OnPath == \A c \in Clients : pc[c] \in DOMAIN Path[job[c].kind] \cup {"giveUp"}

InRole == \A c \in Clients : pc[c] # "idle" => job[c].kind \in role[c]

\* A section that is read and written is locked, and what was read of it is true
SectionHeld == \A c \in Clients : pc[c] \in {"readSection", "writeSection"} => sectionLock = c

SectionSeen ==
  NobodyRestores => \A c \in Clients : pc[c] = "writeSection" => read[c].section = section

\* So is the metadata, for calls other than updates and restores
MetaHeld ==
  \A c \in Clients :
    pc[c] \in {"readMeta", "writeMeta"} /\ job[c].kind \notin Unlocked => metaLock = c

MetaSeen ==
  OnlyLockedWrites => \A c \in Clients : pc[c] = "writeMeta" => read[c].meta = meta

Inv == TypeOK /\ OnPath /\ InRole /\ SectionHeld /\ SectionSeen /\ MetaHeld /\ MetaSeen

\* The states of a call's record
LEMMA JobTyped ==
  ASSUME TypeOK, NEW k \in Kinds, NEW to \in ProjectStates
  PROVE  JobOf(k, to) \in Job /\ JobOf(k, to).kind = k
BY DEF TypeOK, JobOf, Job, Meta, Sections, NoSection

LEMMA InitInv == ASSUME StateAssumption, Init PROVE Inv
<1>1. PICK s \in InitialStates : meta = [state |-> s, version |-> 1]  BY DEF Init
<1>2. s \in ProjectStates  BY <1>1 DEF StateAssumption
<1>3. "update" \in Kinds /\ "idle" \in DOMAIN Path["update"]
  BY DEF Kinds, Updates, Path, UpdatePath
<1>4. "idle" \in Steps  BY <1>3 DEF Steps
<1>5. JobOf("update", meta.state) \in Job /\ JobOf("update", meta.state).kind = "update"
  BY <1>1, <1>2, <1>3 DEF JobOf, Job, Sections, NoSection
<1>6. Nothing \in [meta : [state : ProjectStates, version : Nat], section : Sections,
                   checkpoints : Seq(Checkpoint), audit : Seq(AuditEntry)]
  BY DEF Nothing, ProjectStates, Sections, NoSection
<1>7. 0 \in 0..MaxCalls  BY DEF StateAssumption
<1>8. <<>> \in Seq(Checkpoint) /\ <<>> \in Seq(AuditEntry) /\ Len(<<>>) <= MaxCheckpoints /\ Len(<<>>) <= MaxAudit
  BY DEF StateAssumption
<1>9. meta \in Meta /\ section \in Sections  BY <1>1, <1>2 DEF Init, Meta, Sections, NoSection
<1>10. TypeOK  BY <1>4, <1>5, <1>6, <1>7, <1>8, <1>9 DEF Init, TypeOK
<1>11. OnPath /\ InRole /\ SectionHeld /\ SectionSeen /\ MetaHeld /\ MetaSeen
  BY <1>3, <1>5 DEF Init, OnPath, InRole, SectionHeld, SectionSeen, MetaHeld, MetaSeen
<1> QED  BY <1>10, <1>11 DEF Inv

-----------------------------------------------------------------------------
(* Steps *)

ReadType == [meta : [state : ProjectStates, version : Nat], section : Sections,
             checkpoints : Seq(Checkpoint), audit : Seq(AuditEntry)]

\* A call that goes on takes the next step of its path.
LEMMA Advanced ==
  ASSUME TypeOK, OnPath, InRole, NEW c \in Clients, pc[c] # "giveUp", Advance(c), UNCHANGED <<job, role>>
  PROVE  /\ pc' \in [Clients -> Steps] /\ OnPath'
         /\ pc[c] \in DOMAIN Path[job[c].kind] /\ pc'[c] = Path[job[c].kind][pc[c]]
         /\ job[c].kind \in Kinds
         /\ \A d \in Clients : d # c => pc'[d] = pc[d]
<1>1. job[c].kind \in Kinds  BY DEF TypeOK, Job
<1>2. pc[c] \in DOMAIN Path[job[c].kind]  BY DEF OnPath
<1>3. pc'[c] = Path[job[c].kind][pc[c]]  BY DEF TypeOK, Advance
<1>4. \A d \in Clients : d # c => pc'[d] = pc[d]  BY DEF TypeOK, Advance
<1>5. pc'[c] \in DOMAIN Path[job[c].kind]  BY <1>1, <1>2, <1>3, Paths
<1>6. pc'[c] \in Steps  BY <1>1, <1>5 DEF Steps
<1>7. pc' \in [Clients -> Steps]  BY <1>6 DEF TypeOK, Advance
<1>8. OnPath'  BY <1>4, <1>5 DEF OnPath
<1> QED  BY <1>1, <1>2, <1>3, <1>4, <1>7, <1>8

\* Where a call that goes on can be next.
LEMMA AdvancedTo ==
  ASSUME TypeOK, OnPath, InRole, NEW c \in Clients, pc[c] # "giveUp", Advance(c), UNCHANGED <<job, role>>
  PROVE  /\ pc'[c] = "readSection" => pc[c] = "lockSection"
         /\ pc'[c] = "writeSection" => pc[c] = "readSection"
         /\ job[c].kind \notin Unlocked /\ pc'[c] = "readMeta" => pc[c] = "lockMeta"
         /\ job[c].kind \notin Unlocked /\ pc'[c] = "writeMeta" => pc[c] = "readMeta"
         /\ pc[c] = "restoreSection" => job[c].kind = "restore"
         /\ pc[c] = "writeSection" => job[c].kind \in Updates
BY Advanced, Paths

\* A call that has ended, or gives up, keeps the other calls where they are.
LEMMA Left ==
  ASSUME TypeOK, OnPath, InRole, NEW c \in Clients, NEW s \in {"idle", "giveUp"},
         pc' = [pc EXCEPT ![c] = s], pc[c] # "idle", UNCHANGED <<job, role>>
  PROVE  /\ pc' \in [Clients -> Steps] /\ OnPath' /\ InRole'
         /\ pc'[c] = s
         /\ \A d \in Clients : d # c => pc'[d] = pc[d]
<1>1. job[c].kind \in Kinds  BY DEF TypeOK, Job
<1>2. "idle" \in DOMAIN Path[job[c].kind]  BY <1>1, PathsBegin
<1>3. s \in Steps
  <2>1. CASE s = "idle"  BY <1>1, <1>2, <2>1 DEF Steps
  <2>2. CASE s = "giveUp"
    <3>1. "giveUp" \in Steps  BY DEF Steps
    <3> QED  BY <2>2, <3>1
  <2> QED  BY <2>1, <2>2
<1>4. pc' \in [Clients -> Steps]  BY <1>3 DEF TypeOK
<1>5. pc'[c] = s /\ \A d \in Clients : d # c => pc'[d] = pc[d]  BY DEF TypeOK
<1>6. OnPath' /\ InRole'  BY <1>2, <1>5 DEF OnPath, InRole
<1> QED  BY <1>4, <1>5, <1>6

\* A call that begins.
LEMMA Begun ==
  ASSUME StateAssumption, Inv, NEW c \in Clients, NEW j \in Job, Begin(c, j)
  PROVE  Inv'
<1> DEFINE first == Path[j.kind]["idle"]
<1>1. j.kind \in Kinds /\ j.kind \in role[c]  BY DEF Job, Begin
<1>2. "idle" \in DOMAIN Path[j.kind]
  BY <1>1, PathsBegin
<1>3. /\ first \in DOMAIN Path[j.kind] /\ Path[j.kind].idle = first
      /\ first \notin {"readSection", "writeSection", "writeMeta"}
      /\ j.kind \notin Unlocked => first # "readMeta"
  BY <1>1, <1>2, Paths
<1>4. first \in Steps  BY <1>1, <1>3 DEF Steps
<1> HIDE DEF first
<1>5. /\ pc' = [pc EXCEPT ![c] = first] /\ job' = [job EXCEPT ![c] = j]
      /\ calls' = [calls EXCEPT ![c] = @ + 1] /\ calls[c] < MaxCalls
      /\ UNCHANGED <<role, files, locks, read>>
  BY <1>3 DEF Begin
<1>6. calls[c] + 1 \in 0..MaxCalls
  <2>1. calls[c] \in 0..MaxCalls /\ MaxCalls \in Nat  BY DEF Inv, TypeOK, StateAssumption
  <2> QED  BY <1>5, <2>1
<1>7. TypeOK'  BY <1>4, <1>5, <1>6 DEF Inv, TypeOK, files, locks
<1>8. /\ pc'[c] = first /\ job'[c] = j
      /\ \A d \in Clients : d # c => pc'[d] = pc[d] /\ job'[d] = job[d]
  BY <1>5 DEF Inv, TypeOK
<1>9. OnPath' /\ InRole'  BY <1>1, <1>3, <1>5, <1>8 DEF Inv, OnPath, InRole
<1>10. SectionHeld'  BY <1>3, <1>5, <1>8 DEF Inv, SectionHeld, locks
<1>11. MetaHeld'  BY <1>3, <1>5, <1>8 DEF Inv, MetaHeld, locks
<1>12. SectionSeen'  BY <1>3, <1>5, <1>8 DEF Inv, SectionSeen, NobodyRestores, files
<1>13. MetaSeen'  BY <1>3, <1>5, <1>8 DEF Inv, MetaSeen, OnlyLockedWrites, files
<1> QED  BY <1>7, <1>9, <1>10, <1>11, <1>12, <1>13 DEF Inv

\* Every call begins with a job of the right type.
LEMMA CallBegins == ASSUME StateAssumption, Inv, NEW c \in Clients, Call(c) PROVE \E j \in Job : Begin(c, j)
<1>1. TypeOK /\ meta.state \in ProjectStates  BY DEF Inv, TypeOK, Meta
<1>2. CASE Update(c)
  <2>1. PICK k \in Updates : Begin(c, JobOf(k, meta.state))  BY <1>2 DEF Update
  <2> QED  BY <1>1, <2>1, JobTyped DEF Kinds
<1>3. CASE Transition(c)
  <2>1. PICK to \in ValidTransitions[meta.state] : Begin(c, JobOf("transition", to))
    BY <1>3 DEF Transition
  <2>2. to \in ProjectStates  BY <1>1, <2>1 DEF ValidTransitions, ProjectStates
  <2> QED  BY <1>1, <2>1, <2>2, JobTyped DEF Kinds
<1>4. CASE SkipTo(c)
  <2>1. PICK to \in ProjectStates, k \in {"skip", "unsavedSkip"} : Begin(c, JobOf(k, to))
    BY <1>4 DEF SkipTo
  <2> QED  BY <1>1, <2>1, JobTyped DEF Kinds, Recoveries
<1>5. CASE RecoverTo(c)
  <2>1. PICK to \in RecoveryOptions[meta.state] : Begin(c, JobOf("recover", to))
    BY <1>5 DEF RecoverTo
  <2>2. to \in ProjectStates  BY <1>1, <2>1 DEF RecoveryOptions, ProjectStates
  <2> QED  BY <1>1, <2>1, <2>2, JobTyped DEF Kinds, Recoveries
<1>6. CASE AdminOverride(c)
  <2>1. PICK to \in OverrideTargets : Begin(c, JobOf("override", to))  BY <1>6 DEF AdminOverride
  <2> QED  BY <1>1, <2>1, JobTyped DEF Kinds, Recoveries, StateAssumption
<1>7. CASE RestoreCheckpoint(c)
  <2>1. PICK i \in DOMAIN checkpoints :
          Begin(c, [JobOf("restore", checkpoints[i].state) EXCEPT !.section = checkpoints[i].section])
    BY <1>7 DEF RestoreCheckpoint
  <2>2. checkpoints[i] \in Checkpoint  BY <1>1, <2>1 DEF TypeOK
  <2>3. checkpoints[i].state \in ProjectStates /\ checkpoints[i].section \in Sections
    BY <2>2 DEF Checkpoint
  <2>4. [JobOf("restore", checkpoints[i].state) EXCEPT !.section = checkpoints[i].section] \in Job
    BY <1>1, <2>3, JobTyped DEF Kinds, Job
  <2> QED  BY <2>1, <2>4
<1> QED  BY <1>2, <1>3, <1>4, <1>5, <1>6, <1>7 DEF Call

LEMMA CallInv == ASSUME StateAssumption, Inv, NEW c \in Clients, Call(c) PROVE Inv'
BY CallBegins, Begun

-----------------------------------------------------------------------------
(* One step of a call *)

\* A call that reads a file.
LEMMA ReadInv ==
  ASSUME StateAssumption, Inv, NEW c \in Clients, NEW f \in ReadType, Reads(c, f),
         pc[c] \in {"readSection", "collect", "readMeta", "readCheckpoints", "readFirstLog", "readLog"},
         pc[c] = "readSection" => f.section = section,
         pc[c] = "readMeta" => f.meta = meta
  PROVE  Inv'
<1>1. Advance(c) /\ read' = [read EXCEPT ![c] = f] /\ UNCHANGED <<role, files, locks, job, calls>>
  BY DEF Reads
<1>2. TypeOK /\ OnPath /\ InRole  BY DEF Inv
<1>3. /\ pc' \in [Clients -> Steps] /\ OnPath'
      /\ \A d \in Clients : d # c => pc'[d] = pc[d]
  BY <1>1, <1>2, Advanced
<1>4. /\ pc'[c] = "readSection" => pc[c] = "lockSection"
      /\ pc'[c] = "writeSection" => pc[c] = "readSection"
      /\ job[c].kind \notin Unlocked /\ pc'[c] = "readMeta" => pc[c] = "lockMeta"
      /\ job[c].kind \notin Unlocked /\ pc'[c] = "writeMeta" => pc[c] = "readMeta"
  BY <1>1, <1>2, AdvancedTo
<1>5. read'[c] = f /\ \A d \in Clients : d # c => read'[d] = read[d]  BY <1>1, <1>2 DEF TypeOK
<1>6. TypeOK'  BY <1>1, <1>2, <1>3 DEF TypeOK, ReadType, files, locks
<1>7. InRole'  BY <1>1, <1>2, <1>3 DEF InRole
<1>8. SectionHeld'  BY <1>1, <1>3, <1>4 DEF Inv, SectionHeld, locks
<1>9. MetaHeld'  BY <1>1, <1>3, <1>4 DEF Inv, MetaHeld, locks
<1>10. SectionSeen'  BY <1>1, <1>3, <1>4, <1>5 DEF Inv, SectionSeen, NobodyRestores, files
<1>11. MetaSeen'
  <2>1. SUFFICES ASSUME OnlyLockedWrites', NEW d \in Clients, pc'[d] = "writeMeta"
                 PROVE  read'[d].meta = meta'
    BY DEF MetaSeen
  <2>2. OnlyLockedWrites /\ meta' = meta  BY <1>1, <2>1 DEF OnlyLockedWrites, files
  <2>3. CASE d = c
    <3>1. job[c].kind \in role[c]  BY <1>2 DEF InRole
    <3>2. job[c].kind \notin Unlocked  BY <2>2, <3>1 DEF OnlyLockedWrites, Unlocked
    <3> QED  BY <1>4, <1>5, <2>1, <2>2, <2>3, <3>2
  <2>4. CASE d # c  BY <1>3, <1>5, <2>1, <2>2, <2>4 DEF Inv, MetaSeen
  <2> QED  BY <2>3, <2>4
<1> QED  BY <1>3, <1>6, <1>7, <1>8, <1>9, <1>10, <1>11 DEF Inv

\* The invariant lets two calls write a file that both have read only if nobody counts on it.
LEMMA SectionExclusive ==
  ASSUME Inv, NEW c \in Clients, NEW d \in Clients, pc[c] = "writeSection", d # c
  PROVE  pc[d] \notin {"readSection", "writeSection"}
BY DEF Inv, SectionHeld

\* A call that writes a file.
LEMMA WriteInv ==
  ASSUME StateAssumption, Inv, NEW c \in Clients, Write(c)
  PROVE  Inv'
<1> DEFINE step == pc[c]
           Written == {"writeSection", "writeMeta", "writeCheckpoints", "writeFirstLog", "writeLog", "restoreSection"}
<1>1. Advance(c) /\ UNCHANGED <<role, locks, job, calls>> /\ step \in Written
  BY DEF Write, WriteSection, WriteMeta, WriteCheckpoints, WriteLog, RestoreSection, At
<1>2. TypeOK /\ OnPath /\ InRole  BY DEF Inv
<1>3. /\ pc' \in [Clients -> Steps] /\ OnPath'
      /\ job[c].kind \in Kinds
      /\ \A d \in Clients : d # c => pc'[d] = pc[d]
  BY <1>1, <1>2, Advanced
<1>4. /\ pc'[c] \notin {"readSection", "writeSection"}
      /\ job[c].kind \notin Unlocked => pc'[c] \notin {"readMeta", "writeMeta"}
      /\ step = "restoreSection" => job[c].kind = "restore"
      /\ step = "writeSection" => job[c].kind \in Updates
  BY <1>1, <1>2, AdvancedTo
<1>5. job[c].kind \in role[c]  BY <1>1, <1>2 DEF InRole
<1>6. /\ job[c] \in Job /\ read[c] \in ReadType /\ c \in Clients
      /\ job[c].to \in ProjectStates /\ job[c].from \in ProjectStates /\ job[c].section \in Sections
      /\ read[c].section \in Sections /\ read[c].meta.state \in ProjectStates
      /\ read[c].meta.version \in Nat
      /\ read[c].checkpoints \in Seq(Checkpoint) /\ read[c].audit \in Seq(AuditEntry)
  BY <1>2 DEF TypeOK, ReadType, Job
<1>7. /\ meta' \in Meta /\ section' \in Sections
      /\ checkpoints' \in Seq(Checkpoint) /\ Len(checkpoints') <= MaxCheckpoints
      /\ audit' \in Seq(AuditEntry) /\ Len(audit') <= MaxAudit
      /\ read' \in [Clients -> ReadType]
      /\ \A d \in Clients : d # c => read'[d] = read[d]
      /\ step # "writeMeta" => meta' = meta
      /\ step \notin {"writeSection", "restoreSection"} => section' = section
  <2> USE DEF TypeOK, ReadType
  <2>1. CASE WriteSection(c)
    <3>1. Merged(c) \in Sections  BY <1>6 DEF Merged, Sections
    <3> QED  BY <1>2, <1>6, <2>1, <3>1 DEF WriteSection, At, Sections, NoSection
  <2>2. CASE WriteMeta(c)
    <3>1. meta' \in Meta  BY <1>6, <2>2 DEF WriteMeta, Meta
    <3>2. Nothing.meta \in [state : ProjectStates, version : Nat]  BY DEF Nothing, ProjectStates
    <3>3. read' = [read EXCEPT ![c].meta = Nothing.meta] /\ UNCHANGED <<section, checkpoints, audit>>
      BY <2>2 DEF WriteMeta
    <3>4. read' \in [Clients -> ReadType]  BY <1>2, <1>6, <3>2, <3>3
    <3>5. \A d \in Clients : d # c => read'[d] = read[d]  BY <1>2, <3>3
    <3> QED  BY <1>2, <2>2, <3>1, <3>3, <3>4, <3>5 DEF WriteMeta, At
  <2>3. CASE WriteCheckpoints(c)
    <3> DEFINE x == [state |-> job[c].from, section |-> read[c].section]
    <3>1. x \in Checkpoint  BY <1>6 DEF Checkpoint
    <3>2. checkpoints' = Prepend(x, read[c].checkpoints, MaxCheckpoints)
      BY <2>3 DEF WriteCheckpoints
    <3>3. checkpoints' \in Seq(Checkpoint) /\ Len(checkpoints') <= MaxCheckpoints
      BY <1>6, <3>1, <3>2, Prepended DEF StateAssumption
    <3>4. /\ read' = [read EXCEPT ![c].checkpoints = <<>>, ![c].section = NoSection]
          /\ UNCHANGED <<meta, section, audit>> /\ step = "writeCheckpoints"
      BY <2>3 DEF WriteCheckpoints, At
    <3>5. <<>> \in Seq(Checkpoint) /\ NoSection \in Sections  BY DEF NoSection, Sections
    <3>6. read' \in [Clients -> ReadType]  BY <1>2, <1>6, <3>4, <3>5
    <3>7. \A d \in Clients : d # c => read'[d] = read[d]  BY <1>2, <3>4
    <3> QED  BY <1>2, <3>3, <3>4, <3>6, <3>7
  <2>4. CASE WriteLog(c)
    <3>1. LogEntry(c) \in AuditEntry
      <4>1. job[c].kind \in Kinds \cup {"checkpoint_created"}  BY <1>3
      <4> QED  BY <1>6, <4>1 DEF LogEntry, AuditEntry
    <3>2. audit' = Prepend(LogEntry(c), read[c].audit, MaxAudit)  BY <2>4 DEF WriteLog
    <3>3. audit' \in Seq(AuditEntry) /\ Len(audit') <= MaxAudit
      BY <1>6, <3>1, <3>2, Prepended DEF StateAssumption
    <3>4. /\ read' = [read EXCEPT ![c].audit = <<>>]
          /\ UNCHANGED <<meta, section, checkpoints>> /\ step \in {"writeFirstLog", "writeLog"}
      BY <2>4 DEF WriteLog
    <3>5. <<>> \in Seq(AuditEntry)  OBVIOUS
    <3>6. read' \in [Clients -> ReadType]  BY <1>2, <1>6, <3>4, <3>5
    <3>7. \A d \in Clients : d # c => read'[d] = read[d]  BY <1>2, <3>4
    <3> QED  BY <1>2, <3>3, <3>4, <3>6, <3>7
  <2>5. CASE RestoreSection(c)
    BY <1>2, <1>6, <2>5 DEF RestoreSection, At
  <2> QED  BY <2>1, <2>2, <2>3, <2>4, <2>5 DEF Write
<1>8. TypeOK'  BY <1>1, <1>2, <1>3, <1>7 DEF TypeOK, ReadType, locks
<1>9. InRole'  BY <1>1, <1>2, <1>3, <1>5 DEF InRole
<1>10. SectionHeld' /\ MetaHeld'
  BY <1>1, <1>3, <1>4 DEF Inv, SectionHeld, MetaHeld, locks
<1>11. SectionSeen'
  <2>1. SUFFICES ASSUME NobodyRestores', NEW d \in Clients, pc'[d] = "writeSection"
                 PROVE  read'[d].section = section'
    BY DEF SectionSeen
  <2>2. NobodyRestores  BY <1>1, <2>1 DEF NobodyRestores
  <2>3. d # c /\ pc[d] = "writeSection" /\ read'[d] = read[d]  BY <1>3, <1>4, <1>7, <2>1
  <2>4. step # "restoreSection"  BY <1>4, <1>5, <2>2 DEF NobodyRestores
  <2>5. step # "writeSection"  BY <2>3, SectionExclusive
  <2>6. read[d].section = section  BY <2>2, <2>3 DEF Inv, SectionSeen
  <2> QED  BY <1>7, <2>3, <2>4, <2>5, <2>6
<1>12. MetaSeen'
  <2>1. SUFFICES ASSUME OnlyLockedWrites', NEW d \in Clients, pc'[d] = "writeMeta"
                 PROVE  read'[d].meta = meta'
    BY DEF MetaSeen
  <2>2. OnlyLockedWrites  BY <1>1, <2>1 DEF OnlyLockedWrites
  <2>3. job[c].kind \notin Unlocked  BY <1>5, <2>2 DEF OnlyLockedWrites, Unlocked
  <2>4. d # c /\ pc[d] = "writeMeta" /\ read'[d] = read[d]  BY <1>3, <1>4, <1>7, <2>1, <2>3
  <2>5. job[d].kind \in role[d]  BY <1>2, <2>4 DEF InRole
  <2>6. job[d].kind \notin Unlocked  BY <2>2, <2>5 DEF OnlyLockedWrites, Unlocked
  <2>7. step # "writeMeta"  BY <2>3, <2>4, <2>6 DEF Inv, MetaHeld
  <2>8. read[d].meta = meta  BY <2>2, <2>4 DEF Inv, MetaSeen
  <2> QED  BY <1>7, <2>4, <2>7, <2>8
<1> QED  BY <1>3, <1>8, <1>9, <1>10, <1>11, <1>12 DEF Inv

\* A call that locks or unlocks a file.
LEMMA LockInv ==
  ASSUME StateAssumption, Inv, NEW c \in Clients,
         LockSection(c) \/ LockMeta(c) \/ UnlockSection(c) \/ UnlockMeta(c)
  PROVE  Inv'
<1>1. /\ Advance(c) /\ UNCHANGED <<role, files, job, read, calls>>
      /\ pc[c] \in {"lockSection", "lockMeta", "unlockSection", "unlockMeta"}
  BY DEF LockSection, LockMeta, UnlockSection, UnlockMeta, At
<1>2. TypeOK /\ OnPath /\ InRole /\ SectionHeld /\ MetaHeld  BY DEF Inv
<1>3. /\ pc' \in [Clients -> Steps] /\ OnPath'
      /\ \A d \in Clients : d # c => pc'[d] = pc[d]
  BY <1>1, <1>2, Advanced
<1>4. /\ pc'[c] = "readSection" => pc[c] = "lockSection"
      /\ pc'[c] # "writeSection"
      /\ job[c].kind \notin Unlocked /\ pc'[c] = "readMeta" => pc[c] = "lockMeta"
      /\ job[c].kind \notin Unlocked => pc'[c] # "writeMeta"
  BY <1>1, <1>2, AdvancedTo
<1>5. job[c].kind \in role[c]  BY <1>1, <1>2 DEF InRole
<1>6. /\ \A d \in Clients : d # c /\ sectionLock = d => sectionLock' = d
      /\ \A d \in Clients : d # c /\ metaLock = d => metaLock' = d
      /\ pc[c] = "lockSection" => sectionLock' = c
      /\ pc[c] = "lockMeta" => metaLock' = c
      /\ sectionLock' \in {sectionLock, c, Free} /\ metaLock' \in {metaLock, c, Free}
  BY DEF LockSection, LockMeta, UnlockSection, UnlockMeta, At, Released, StateAssumption
<1>7. TypeOK'  BY <1>1, <1>2, <1>3, <1>6 DEF TypeOK, files
<1>8. InRole'  BY <1>1, <1>2, <1>3, <1>5 DEF InRole
<1>9. SectionHeld'  BY <1>1, <1>2, <1>3, <1>4, <1>6 DEF SectionHeld
<1>10. MetaHeld'  BY <1>1, <1>2, <1>3, <1>4, <1>6 DEF MetaHeld
<1>11. SectionSeen'  BY <1>1, <1>3, <1>4 DEF Inv, SectionSeen, NobodyRestores, files
<1>12. MetaSeen'
  <2>1. OnlyLockedWrites => pc'[c] # "writeMeta"
    BY <1>4, <1>5 DEF OnlyLockedWrites, Unlocked
  <2> QED  BY <1>1, <1>3, <2>1 DEF Inv, MetaSeen, OnlyLockedWrites, files
<1> QED  BY <1>3, <1>7, <1>8, <1>9, <1>10, <1>11, <1>12 DEF Inv

\* A call that fails, gives up what it holds, or whose process crashes.
LEMMA FailInv ==
  ASSUME StateAssumption, Inv, NEW c \in Clients, Fail(c) \/ GiveUp(c) \/ Crash(c)
  PROVE  Inv'
<1>1. PICK s \in {"idle", "giveUp"} : pc' = [pc EXCEPT ![c] = s]
  BY DEF Fail, GiveUp, Crash, AfterThrow
<1>2. pc[c] # "idle" /\ UNCHANGED <<role, files, job, calls>>
  BY DEF Fail, GiveUp, Crash, At
<1>3. TypeOK /\ OnPath /\ InRole /\ SectionHeld /\ MetaHeld  BY DEF Inv
<1>4. /\ pc' \in [Clients -> Steps] /\ OnPath' /\ InRole'
      /\ pc'[c] = s /\ \A d \in Clients : d # c => pc'[d] = pc[d]
  BY <1>1, <1>2, <1>3, Left
<1>5. /\ \A d \in Clients : d # c /\ sectionLock = d => sectionLock' = d
      /\ \A d \in Clients : d # c /\ metaLock = d => metaLock' = d
      /\ sectionLock' \in {sectionLock, Free, Stale} /\ metaLock' \in {metaLock, Free, Stale}
  BY DEF Fail, GiveUp, Crash, Released, locks
<1>6. read' = read \/ read' = [read EXCEPT ![c] = Nothing]  BY DEF Fail, GiveUp, Crash
<1>7. Nothing \in ReadType
  BY DEF Nothing, ProjectStates, Sections, NoSection, ReadType
<1>8. /\ read' \in [Clients -> ReadType]
      /\ \A d \in Clients : d # c => read'[d] = read[d]
  <2>1. read \in [Clients -> ReadType]  BY <1>3 DEF TypeOK, ReadType
  <2> QED  BY <1>6, <1>7, <2>1
<1>9. TypeOK'  BY <1>2, <1>3, <1>4, <1>5, <1>8 DEF TypeOK, ReadType, files
<1>10. SectionHeld' /\ MetaHeld'  BY <1>2, <1>3, <1>4, <1>5 DEF SectionHeld, MetaHeld
<1>11. SectionSeen'  BY <1>2, <1>4, <1>8 DEF Inv, SectionSeen, NobodyRestores, files
<1>12. MetaSeen'  BY <1>2, <1>4, <1>8 DEF Inv, MetaSeen, OnlyLockedWrites, files
<1> QED  BY <1>4, <1>9, <1>10, <1>11, <1>12 DEF Inv

\* A lock that times out belonged to nobody any more.
LEMMA ExpireInv == ASSUME StateAssumption, Inv, Expire PROVE Inv'
<1>1. UNCHANGED <<role, files, procs>>  BY DEF Expire
<1>2. /\ \A d \in Clients : sectionLock = d => sectionLock' = d
      /\ \A d \in Clients : metaLock = d => metaLock' = d
      /\ sectionLock' \in {sectionLock, Free} /\ metaLock' \in {metaLock, Free}
  BY DEF Expire, Released, StateAssumption
<1>3. TypeOK'  BY <1>1, <1>2 DEF Inv, TypeOK, files, procs
<1>4. OnPath' /\ InRole'  BY <1>1 DEF Inv, OnPath, InRole, procs
<1>5. SectionHeld' /\ MetaHeld'  BY <1>1, <1>2 DEF Inv, SectionHeld, MetaHeld, procs
<1>6. SectionSeen' /\ MetaSeen'
  BY <1>1 DEF Inv, SectionSeen, MetaSeen, NobodyRestores, OnlyLockedWrites, files, procs
<1> QED  BY <1>3, <1>4, <1>5, <1>6 DEF Inv

\* A stuttering step.
LEMMA StutterInv == ASSUME Inv, UNCHANGED vars PROVE Inv'
<1>1. UNCHANGED <<role, files, locks, procs>>  BY DEF vars
<1>2. TypeOK'  BY <1>1 DEF Inv, TypeOK, files, locks, procs
<1>3. OnPath' /\ InRole'  BY <1>1 DEF Inv, OnPath, InRole, procs
<1>4. SectionHeld' /\ MetaHeld'  BY <1>1 DEF Inv, SectionHeld, MetaHeld, locks, procs
<1>5. SectionSeen' /\ MetaSeen'
  BY <1>1 DEF Inv, SectionSeen, MetaSeen, NobodyRestores, OnlyLockedWrites, files, procs
<1> QED  BY <1>2, <1>3, <1>4, <1>5 DEF Inv

\* What each step that reads gives its call.
LEMMA ReadsTyped ==
  ASSUME StateAssumption, Inv, NEW c \in Clients, Read(c)
  PROVE  Inv'
<1> TypeOK  BY DEF Inv
<1>1. /\ read[c] \in ReadType /\ meta \in [state : ProjectStates, version : Nat]
      /\ section \in Sections /\ NoSection \in Sections
      /\ checkpoints \in Seq(Checkpoint) /\ audit \in Seq(AuditEntry)
  BY DEF TypeOK, ReadType, Meta, Sections, NoSection
<1>2. CASE ReadSection(c)
  <2> DEFINE f == [read[c] EXCEPT !.section = section]
  <2>1. f \in ReadType /\ f.section = section  BY <1>1 DEF ReadType
  <2> QED  BY <1>2, <2>1, ReadInv DEF ReadSection, At
<1>3. CASE Collect(c)
  <2>1. PICK s \in {section, NoSection} : Reads(c, [read[c] EXCEPT !.section = s])  BY <1>3 DEF Collect
  <2> DEFINE f == [read[c] EXCEPT !.section = s]
  <2>2. f \in ReadType  BY <1>1 DEF ReadType
  <2> QED  BY <1>3, <2>1, <2>2, ReadInv DEF Collect, At
<1>4. CASE ReadMeta(c)
  <2> DEFINE f == [read[c] EXCEPT !.meta = meta]
  <2>1. f \in ReadType /\ f.meta = meta  BY <1>1 DEF ReadType
  <2> QED  BY <1>4, <2>1, ReadInv DEF ReadMeta, At
<1>5. CASE ReadCheckpoints(c)
  <2> DEFINE f == [read[c] EXCEPT !.checkpoints = checkpoints]
  <2>1. f \in ReadType  BY <1>1 DEF ReadType
  <2> QED  BY <1>5, <2>1, ReadInv DEF ReadCheckpoints, At
<1>6. CASE ReadLog(c)
  <2> DEFINE f == [read[c] EXCEPT !.audit = audit]
  <2>1. f \in ReadType  BY <1>1 DEF ReadType
  <2> QED  BY <1>6, <2>1, ReadInv DEF ReadLog
<1> QED  BY <1>2, <1>3, <1>4, <1>5, <1>6 DEF Read

LEMMA NextInv == ASSUME StateAssumption, Inv, [Next]_vars PROVE Inv'
<1>1. ASSUME NEW c \in Clients, Call(c) PROVE Inv'  BY <1>1, CallInv
<1>2. ASSUME NEW c \in Clients, Step(c) PROVE Inv'
  BY <1>2, LockInv, ReadsTyped, WriteInv, FailInv DEF Step
<1>3. ASSUME NEW c \in Clients, Fail(c) \/ Crash(c) PROVE Inv'  BY <1>3, FailInv
<1>4. CASE Expire  BY <1>4, ExpireInv
<1>5. CASE UNCHANGED vars  BY <1>5, StutterInv
<1> QED  BY <1>1, <1>2, <1>3, <1>4, <1>5 DEF Next

\* The invariant holds in every reachable state.
LEMMA InvHolds == Spec => []Inv
<1>1. Init => Inv  BY InitInv, StateAssumption
<1>2. Inv /\ [Next]_vars => Inv'  BY NextInv, StateAssumption
<1> QED  BY <1>1, <1>2, PTL DEF Spec, SafeSpec

-----------------------------------------------------------------------------
(* Theorems *)

\* Every variable keeps its type, and the checkpoints and the audit log keep their bounds.
THEOREM TypeCorrect == Spec => []TypeOK
<1>1. Inv => TypeOK  BY DEF Inv
<1> QED  BY <1>1, InvHolds, PTL

KeysKept ==
  NobodyRestores =>
    \/ section \subseteq section'
    \/ \E c \in Clients : WriteSection(c) /\ job[c].kind = "set"

\* Only WriteSection and RestoreSection write the section.
LEMMA WhoWritesSection ==
  ASSUME [Next]_vars, section' # section
  PROVE  \E c \in Clients : WriteSection(c) \/ RestoreSection(c)
<1>1. ASSUME NEW c \in Clients, Call(c) PROVE FALSE
  BY <1>1 DEF Call, Update, Transition, SkipTo, RecoverTo, AdminOverride, RestoreCheckpoint, Begin, files
<1>2. ASSUME NEW c \in Clients, Read(c) PROVE FALSE
  BY <1>2 DEF Read, ReadSection, Collect, ReadMeta, ReadCheckpoints, ReadLog, Reads, files
<1>3. ASSUME NEW c \in Clients,
             LockSection(c) \/ LockMeta(c) \/ UnlockSection(c) \/ UnlockMeta(c) \/ GiveUp(c) \/ Fail(c) \/ Crash(c)
      PROVE FALSE
  BY <1>3 DEF LockSection, LockMeta, UnlockSection, UnlockMeta, GiveUp, Fail, Crash, files
<1>4. ASSUME NEW c \in Clients, WriteMeta(c) \/ WriteCheckpoints(c) \/ WriteLog(c) PROVE FALSE
  BY <1>4 DEF WriteMeta, WriteCheckpoints, WriteLog
<1>5. ~Expire /\ ~UNCHANGED vars  BY DEF Expire, vars, files
<1> QED  BY <1>1, <1>2, <1>3, <1>4, <1>5 DEF Next, Step, Write

\* Without a restore, only setState takes keys out of a section: updateState never writes over a
\* merge it did not see, for any processes, failures and crashes.
THEOREM NoUpdateLost == Spec => UpdatesKept
<1>1. ASSUME Inv, [Next]_vars PROVE [KeysKept]_vars
  <2>1. SUFFICES ASSUME NobodyRestores, section' # section PROVE KeysKept
    BY DEF KeysKept
  <2>2. PICK c \in Clients : WriteSection(c) \/ RestoreSection(c)  BY <1>1, <2>1, WhoWritesSection
  <2>3. pc[c] \in DOMAIN Path[job[c].kind] /\ job[c].kind \in Kinds /\ job[c].kind \in role[c]
    BY <1>1, <2>2 DEF Inv, OnPath, InRole, TypeOK, Job, WriteSection, RestoreSection, At
  <2>4. ~RestoreSection(c)
    BY <2>1, <2>3, Paths DEF RestoreSection, At, NobodyRestores
  <2>5. job[c].kind \in Updates /\ read[c].section = section
    BY <1>1, <2>1, <2>2, <2>3, <2>4, Paths DEF WriteSection, At, Inv, SectionSeen
  <2>6. section' = Merged(c)  BY <2>2, <2>4 DEF WriteSection
  <2>7. CASE job[c].kind = "update"  BY <2>5, <2>6, <2>7 DEF Merged, KeysKept
  <2>8. CASE job[c].kind = "set"  BY <2>2, <2>4, <2>8 DEF KeysKept
  <2> QED  BY <2>5, <2>7, <2>8 DEF Updates
<1>2. Inv /\ [Next]_vars => [KeysKept]_vars  BY <1>1
<1>3. Spec => [][KeysKept]_vars  BY <1>2, InvHolds, PTL DEF Spec, SafeSpec
<1> QED  BY <1>3 DEF UpdatesKept, KeysKept

Counted == OnlyLockedWrites /\ meta' # meta => meta'.version = meta.version + 1

\* Only WriteMeta writes the metadata.
LEMMA WhoWritesMeta ==
  ASSUME [Next]_vars, meta' # meta
  PROVE  \E c \in Clients : WriteMeta(c)
<1>1. ASSUME NEW c \in Clients, Call(c) PROVE FALSE
  BY <1>1 DEF Call, Update, Transition, SkipTo, RecoverTo, AdminOverride, RestoreCheckpoint, Begin, files
<1>2. ASSUME NEW c \in Clients, Read(c) PROVE FALSE
  BY <1>2 DEF Read, ReadSection, Collect, ReadMeta, ReadCheckpoints, ReadLog, Reads, files
<1>3. ASSUME NEW c \in Clients,
             LockSection(c) \/ LockMeta(c) \/ UnlockSection(c) \/ UnlockMeta(c) \/ GiveUp(c) \/ Fail(c) \/ Crash(c)
      PROVE FALSE
  BY <1>3 DEF LockSection, LockMeta, UnlockSection, UnlockMeta, GiveUp, Fail, Crash, files
<1>4. ASSUME NEW c \in Clients, WriteSection(c) \/ WriteCheckpoints(c) \/ WriteLog(c) \/ RestoreSection(c)
      PROVE FALSE
  BY <1>4 DEF WriteSection, WriteCheckpoints, WriteLog, RestoreSection
<1>5. ~Expire /\ ~UNCHANGED vars  BY DEF Expire, vars, files
<1> QED  BY <1>1, <1>2, <1>3, <1>4, <1>5 DEF Next, Step, Write

\* Without updates and restores, the version grows by one with every change of the state: no
\* change is written over one it did not see, for any processes, failures and crashes.
THEOREM NoChangeLost == Spec => ChangesCounted
<1>1. ASSUME Inv, [Next]_vars PROVE [Counted]_vars
  <2>1. SUFFICES ASSUME OnlyLockedWrites, meta' # meta PROVE meta'.version = meta.version + 1
    BY DEF Counted
  <2>2. PICK c \in Clients : WriteMeta(c)  BY <1>1, <2>1, WhoWritesMeta
  <2>3. pc[c] = "writeMeta"  BY <2>2 DEF WriteMeta, At
  <2>4. read[c].meta = meta  BY <1>1, <2>1, <2>3 DEF Inv, MetaSeen
  <2> QED  BY <2>2, <2>4 DEF WriteMeta
<1>2. Inv /\ [Next]_vars => [Counted]_vars  BY <1>1
<1>3. Spec => [][Counted]_vars  BY <1>2, InvHolds, PTL DEF Spec, SafeSpec
<1> QED  BY <1>3 DEF ChangesCounted, Counted

-----------------------------------------------------------------------------
(* Recoveries *)

\* The steps of a recovery between its checkpoint and the metadata, and of an override between
\* its audit entry and the metadata
SavedSteps(k) ==
  {"readFirstLog", "writeFirstLog", "lockMeta", "readMeta", "writeMeta"}
  \cup IF k = "override" THEN {"readLog", "writeLog"} ELSE {}

LoggedSteps == {"lockMeta", "readMeta", "writeMeta"}

Saved(c) == \E i \in DOMAIN checkpoints : checkpoints[i].state = job[c].from

OverrideEntry(c) == [type |-> "override", from |-> job[c].from, to |-> job[c].to]

Logged(c) == \E i \in DOMAIN audit : audit[i] = OverrideEntry(c)

Traced ==
  SoleRecoverer =>
    \A c \in Clients :
      /\ job[c].kind \in Recoveries /\ pc[c] \in SavedSteps(job[c].kind) => Saved(c)
      /\ job[c].kind = "override" /\ pc[c] \in LoggedSteps => Logged(c)

\* A recovery saves before it goes on to the metadata, and an override logs too.
LEMMA RecoveryPaths ==
  ASSUME NEW k \in Kinds, NEW s \in DOMAIN Path[k]
  PROVE  /\ k \in Recoveries /\ Path[k][s] \in SavedSteps(k) => s \in SavedSteps(k) \cup {"writeCheckpoints"}
         /\ k = "override" /\ Path[k][s] \in LoggedSteps => s \in LoggedSteps \cup {"writeLog"}
         /\ k \in Recoveries => Path[k]["idle"] \notin SavedSteps(k)
         /\ s \in {"writeCheckpoints", "writeFirstLog", "writeLog"} => k \in Loggers
         /\ s = "writeCheckpoints" => k \in Recoveries
         /\ k # "skip" => s # "writeFirstLog"
<1> USE DEF Path, SavedSteps, LoggedSteps, Recoveries, Loggers
<1>1. CASE k = "update"  BY <1>1 DEF UpdatePath
<1>2. CASE k = "set"  BY <1>2 DEF UpdatePath
<1>3. CASE k = "transition"  BY <1>3 DEF TransitionPath
<1>4. CASE k = "skip"  BY <1>4 DEF SkipPath
<1>5. CASE k = "unsavedSkip"  BY <1>5 DEF UnsavedSkipPath
<1>6. CASE k = "recover"  BY <1>6 DEF RecoverPath
<1>7. CASE k = "override"  BY <1>7 DEF OverridePath
<1>8. CASE k = "restore"  BY <1>8 DEF RestorePath
<1> QED  BY <1>1, <1>2, <1>3, <1>4, <1>5, <1>6, <1>7, <1>8 DEF Kinds, Updates

\* An entry that was just put in a list is in it.
LEMMA PrependedFirst ==
  ASSUME NEW S, NEW x \in S, NEW s \in Seq(S), NEW n \in Nat \ {0}
  PROVE  1 \in DOMAIN Prepend(x, s, n) /\ Prepend(x, s, n)[1] = x
<1> DEFINE m == IF Len(s) < n THEN Len(s) ELSE n - 1
           t == SubSeq(s, 1, m)
<1>1. Len(s) \in Nat /\ m \in 0..Len(s)  OBVIOUS
<1>2. t \in Seq(S)  BY <1>1
<1>3. (<<x>> \o t)[1] = x /\ 1 \in DOMAIN (<<x>> \o t)  BY <1>2
<1>4. Prepend(x, s, n) = <<x>> \o t  BY DEF Prepend
<1> QED  BY <1>3, <1>4

\* How a step moves a call.
LEMMA Moves ==
  ASSUME Inv, [Next]_vars, NEW c \in Clients
  PROVE  \/ pc'[c] = pc[c] /\ job'[c] = job[c]
         \/ job'[c].kind \in Kinds /\ pc'[c] = Path[job'[c].kind]["idle"]
         \/ pc'[c] \in {"idle", "giveUp"}
         \/ /\ job'[c] = job[c] /\ pc[c] # "giveUp" /\ Advance(c) /\ UNCHANGED <<job, role>>
            /\ pc[c] = "writeCheckpoints" => WriteCheckpoints(c)
            /\ pc[c] = "writeLog" => WriteLog(c)
<1> TypeOK  BY DEF Inv
<1>1. ASSUME NEW d \in Clients, NEW j \in Job, Begin(d, j)
      PROVE  \/ c # d /\ pc'[c] = pc[c] /\ job'[c] = job[c]
             \/ job'[c].kind \in Kinds /\ pc'[c] = Path[job'[c].kind]["idle"]
  <2>1. j.kind \in Kinds  BY DEF Job
  <2>2. "idle" \in DOMAIN Path[j.kind]  BY <2>1, PathsBegin
  <2>3. Path[j.kind].idle = Path[j.kind]["idle"]  BY <2>1, <2>2, Paths
  <2> QED  BY <1>1, <2>1, <2>3 DEF Begin, TypeOK
<1>2. ASSUME NEW d \in Clients, Call(d)
      PROVE  \E j \in Job : Begin(d, j)
  BY <1>2, CallBegins, StateAssumption
<1>3. ASSUME NEW d \in Clients, Advance(d), UNCHANGED <<job, role>>, c # d PROVE pc'[c] = pc[c] /\ job'[c] = job[c]
  BY <1>3 DEF Advance, TypeOK
<1>4. ASSUME NEW d \in Clients, Step(d), ~GiveUp(d)
      PROVE  /\ Advance(d) /\ UNCHANGED <<job, role>> /\ pc[d] # "giveUp"
             /\ pc[d] = "writeCheckpoints" => WriteCheckpoints(d)
             /\ pc[d] = "writeLog" => WriteLog(d)
  BY <1>4 DEF Step, LockSection, LockMeta, UnlockSection, UnlockMeta, Read, ReadSection, Collect,
     ReadMeta, ReadCheckpoints, ReadLog, Reads, Write, WriteSection, WriteMeta, WriteCheckpoints,
     WriteLog, RestoreSection, At
<1>5. ASSUME NEW d \in Clients, GiveUp(d) \/ Fail(d) \/ Crash(d)
      PROVE  /\ pc'[d] \in {"idle", "giveUp"}
             /\ c # d => pc'[c] = pc[c] /\ job'[c] = job[c]
  BY <1>5 DEF GiveUp, Fail, Crash, AfterThrow, TypeOK
<1>6. CASE Expire  BY <1>6 DEF Expire, procs
<1>7. CASE UNCHANGED vars  BY <1>7 DEF vars, procs
<1>8. CASE \E d \in Clients : Call(d)  BY <1>1, <1>2, <1>8
<1>9. CASE \E d \in Clients : Step(d)
  <2>1. PICK d \in Clients : Step(d)  BY <1>9
  <2>2. CASE GiveUp(d)  BY <1>5, <2>2
  <2>3. CASE ~GiveUp(d)  BY <1>3, <1>4, <2>1, <2>3
  <2> QED  BY <2>2, <2>3
<1>10. CASE \E d \in Clients : Fail(d) \/ Crash(d)  BY <1>5, <1>10
<1> QED  BY <1>6, <1>7, <1>8, <1>9, <1>10 DEF Next

\* Only WriteCheckpoints and WriteLog write their files, and no step changes what a process calls.
LEMMA WhoWritesTraces ==
  ASSUME [Next]_vars
  PROVE  /\ role' = role
         /\ checkpoints' # checkpoints => \E d \in Clients : WriteCheckpoints(d)
         /\ audit' # audit => \E d \in Clients : WriteLog(d)
<1>1. ASSUME NEW c \in Clients, Call(c) PROVE UNCHANGED <<role, checkpoints, audit>>
  BY <1>1 DEF Call, Update, Transition, SkipTo, RecoverTo, AdminOverride, RestoreCheckpoint, Begin, files
<1>2. ASSUME NEW c \in Clients, Read(c) PROVE UNCHANGED <<role, checkpoints, audit>>
  BY <1>2 DEF Read, ReadSection, Collect, ReadMeta, ReadCheckpoints, ReadLog, Reads, files
<1>3. ASSUME NEW c \in Clients,
             LockSection(c) \/ LockMeta(c) \/ UnlockSection(c) \/ UnlockMeta(c) \/ GiveUp(c) \/ Fail(c) \/ Crash(c)
      PROVE UNCHANGED <<role, checkpoints, audit>>
  BY <1>3 DEF LockSection, LockMeta, UnlockSection, UnlockMeta, GiveUp, Fail, Crash, files
<1>4. ASSUME NEW c \in Clients, WriteSection(c) \/ WriteMeta(c) \/ RestoreSection(c)
      PROVE UNCHANGED <<role, checkpoints, audit>>
  BY <1>4 DEF WriteSection, WriteMeta, RestoreSection
<1>5. ASSUME NEW c \in Clients, WriteCheckpoints(c) PROVE UNCHANGED <<role, audit>>
  BY <1>5 DEF WriteCheckpoints
<1>6. ASSUME NEW c \in Clients, WriteLog(c) PROVE UNCHANGED <<role, checkpoints>>
  BY <1>6 DEF WriteLog
<1>7. Expire \/ UNCHANGED vars => UNCHANGED <<role, checkpoints, audit>>  BY DEF Expire, vars, files
<1> QED  BY <1>1, <1>2, <1>3, <1>4, <1>5, <1>6, <1>7 DEF Next, Step, Write

\* A call that is at a step of a log or a recovery is one of a process that logs.
LEMMA LoggerAt ==
  ASSUME Inv, NEW c \in Clients,
         pc[c] \in {"writeCheckpoints", "writeFirstLog", "writeLog"}
  PROVE  /\ role[c] \cap Loggers # {}
         /\ pc[c] = "writeFirstLog" => job[c].kind = "skip"
<1>1. job[c].kind \in Kinds /\ pc[c] \in DOMAIN Path[job[c].kind] /\ job[c].kind \in role[c]
  BY DEF Inv, TypeOK, Job, OnPath, InRole
<1>2. job[c].kind \in Loggers  BY <1>1, RecoveryPaths
<1>3. pc[c] = "writeFirstLog" => job[c].kind = "skip"  BY <1>1, RecoveryPaths
<1> QED  BY <1>1, <1>2, <1>3

\* What a recovery saved and logged stays until it reaches the metadata.
LEMMA TracedStep == ASSUME StateAssumption, Inv, Inv', Traced, [Next]_vars PROVE Traced'
<1>1. SUFFICES ASSUME SoleRecoverer', NEW c \in Clients
               PROVE  /\ job'[c].kind \in Recoveries /\ pc'[c] \in SavedSteps(job'[c].kind) => Saved(c)'
                      /\ job'[c].kind = "override" /\ pc'[c] \in LoggedSteps => Logged(c)'
  BY DEF Traced
<1>2. role' = role /\ SoleRecoverer  BY <1>1, WhoWritesTraces DEF SoleRecoverer
<1>3. ASSUME job'[c].kind \in Recoveries, pc'[c] \notin {"idle", "giveUp"}, NEW d \in Clients,
             WriteCheckpoints(d) \/ WriteLog(d)
      PROVE  d = c
  <2>1. role[d] \cap Loggers # {}  BY <1>3, LoggerAt DEF WriteCheckpoints, WriteLog, At
  <2>2. job'[c].kind \in role[c]  BY <1>2, <1>3 DEF Inv, InRole
  <2>3. role[c] \cap Loggers # {}  BY <1>3, <2>2 DEF Loggers
  <2> QED  BY <1>2, <2>1, <2>3 DEF SoleRecoverer
<1>4. ASSUME job'[c].kind \in Recoveries, pc'[c] \in SavedSteps(job'[c].kind)
      PROVE  Saved(c)'
  <2>1. pc'[c] \notin {"idle", "giveUp", "writeCheckpoints"}  BY <1>4 DEF SavedSteps
  <2>2. ~(job'[c].kind \in Kinds /\ pc'[c] = Path[job'[c].kind]["idle"])
    <3>1. job'[c].kind \in Kinds  BY <1>4 DEF Kinds
    <3>2. "idle" \in DOMAIN Path[job'[c].kind]  BY <3>1, PathsBegin
    <3> QED  BY <1>4, <3>1, <3>2, RecoveryPaths
  <2>3. ASSUME job'[c] = job[c], pc[c] \in SavedSteps(job[c].kind) PROVE Saved(c)'
    <3>1. Saved(c)  BY <1>2, <1>4, <2>3 DEF Traced
    <3>2. checkpoints' = checkpoints
      <4>1. ASSUME checkpoints' # checkpoints PROVE FALSE
        <5>1. PICK d \in Clients : WriteCheckpoints(d)  BY <4>1, WhoWritesTraces
        <5>2. d = c  BY <1>3, <1>4, <2>1, <5>1
        <5> QED  BY <2>3, <5>1, <5>2 DEF WriteCheckpoints, At, SavedSteps
      <4> QED  BY <4>1
    <3> QED  BY <2>3, <3>1, <3>2 DEF Saved
  <2>4. CASE pc'[c] = pc[c] /\ job'[c] = job[c]  BY <1>4, <2>3, <2>4
  <2>5. CASE /\ job'[c] = job[c] /\ pc[c] # "giveUp" /\ Advance(c) /\ UNCHANGED <<job, role>>
             /\ pc[c] = "writeCheckpoints" => WriteCheckpoints(c)
    <3>1. /\ pc[c] \in DOMAIN Path[job[c].kind] /\ pc'[c] = Path[job[c].kind][pc[c]]
          /\ job[c].kind \in Kinds
      BY <2>5, Advanced DEF Inv
    <3>2. pc[c] \in SavedSteps(job[c].kind) \cup {"writeCheckpoints"}
      BY <1>4, <2>5, <3>1, RecoveryPaths
    <3>3. CASE pc[c] = "writeCheckpoints"
      <4> DEFINE x == [state |-> job[c].from, section |-> read[c].section]
      <4>1. checkpoints' = Prepend(x, read[c].checkpoints, MaxCheckpoints)
        BY <2>5, <3>3 DEF WriteCheckpoints
      <4>2. x \in Checkpoint /\ read[c].checkpoints \in Seq(Checkpoint)
        BY DEF Inv, TypeOK, Job, Checkpoint
      <4>3. MaxCheckpoints \in Nat \ {0}  BY DEF StateAssumption
      <4>4. 1 \in DOMAIN checkpoints' /\ checkpoints'[1] = x
        BY <4>1, <4>2, <4>3, PrependedFirst
      <4> QED  BY <2>5, <4>4 DEF Saved
    <3> QED  BY <2>3, <2>5, <3>2, <3>3
  <2> QED  BY <2>1, <2>2, <2>4, <2>5, Moves
<1>5. ASSUME job'[c].kind = "override", pc'[c] \in LoggedSteps
      PROVE  Logged(c)'
  <2>1. pc'[c] \notin {"idle", "giveUp", "writeLog", "writeFirstLog"} /\ job'[c].kind \in Recoveries
    BY <1>5 DEF LoggedSteps, Recoveries
  <2>2. ~(job'[c].kind \in Kinds /\ pc'[c] = Path[job'[c].kind]["idle"])
    <3>1. job'[c].kind \in Kinds  BY <2>1 DEF Kinds
    <3>2. "idle" \in DOMAIN Path[job'[c].kind]  BY <3>1, PathsBegin
    <3>3. pc'[c] \in SavedSteps(job'[c].kind)  BY <1>5 DEF LoggedSteps, SavedSteps
    <3> QED  BY <2>1, <3>1, <3>2, <3>3, RecoveryPaths
  <2>3. ASSUME job'[c] = job[c], pc[c] \in LoggedSteps PROVE Logged(c)'
    <3>1. Logged(c)  BY <1>2, <1>5, <2>3 DEF Traced
    <3>2. audit' = audit
      <4>1. ASSUME audit' # audit PROVE FALSE
        <5>1. PICK d \in Clients : WriteLog(d)  BY <4>1, WhoWritesTraces
        <5>2. d = c  BY <1>3, <2>1, <5>1
        <5> QED  BY <2>3, <5>1, <5>2 DEF WriteLog, LoggedSteps
      <4> QED  BY <4>1
    <3> QED  BY <2>3, <3>1, <3>2 DEF Logged, OverrideEntry
  <2>4. CASE pc'[c] = pc[c] /\ job'[c] = job[c]  BY <1>5, <2>3, <2>4
  <2>5. CASE /\ job'[c] = job[c] /\ pc[c] # "giveUp" /\ Advance(c) /\ UNCHANGED <<job, role>>
             /\ pc[c] = "writeLog" => WriteLog(c)
    <3>1. /\ pc[c] \in DOMAIN Path[job[c].kind] /\ pc'[c] = Path[job[c].kind][pc[c]]
          /\ job[c].kind \in Kinds
      BY <2>5, Advanced DEF Inv
    <3>2. pc[c] \in LoggedSteps \cup {"writeLog"}
      BY <1>5, <2>5, <3>1, RecoveryPaths
    <3>3. CASE pc[c] = "writeLog"
      <4>1. LogEntry(c) = OverrideEntry(c)  BY <1>5, <2>5, <3>3 DEF LogEntry, OverrideEntry
      <4>2. audit' = Prepend(OverrideEntry(c), read[c].audit, MaxAudit)
        BY <2>5, <3>3, <4>1 DEF WriteLog
      <4>3. OverrideEntry(c) \in AuditEntry /\ read[c].audit \in Seq(AuditEntry)
        BY DEF Inv, TypeOK, Job, AuditEntry, OverrideEntry, Kinds, Recoveries
      <4>4. MaxAudit \in Nat \ {0}  BY DEF StateAssumption
      <4>5. 1 \in DOMAIN audit' /\ audit'[1] = OverrideEntry(c)
        BY <4>2, <4>3, <4>4, PrependedFirst
      <4> QED  BY <2>5, <4>5 DEF Logged, OverrideEntry
    <3> QED  BY <2>3, <2>5, <3>2, <3>3
  <2> QED  BY <2>1, <2>2, <2>4, <2>5, Moves
<1> QED  BY <1>4, <1>5

TracedCommit ==
  \A c \in Clients : SoleRecoverer /\ WriteMeta(c) /\ job[c].kind \in Recoveries =>
    /\ \E i \in DOMAIN checkpoints : checkpoints[i].state = job[c].from
    /\ job[c].kind = "override" =>
         \E i \in DOMAIN audit : audit[i] = [type |-> "override", from |-> job[c].from, to |-> job[c].to]

\* When a sole process makes the skips, recoveries, overrides and restores, none of its recoveries
\* reaches the metadata without its checkpoint, and no override without its audit entry, for any
\* other processes, failures and crashes.
THEOREM RecoveriesTraced == Spec => RecoveryTraceable
<1>1. Init => Traced
  <2>1. \A c \in Clients : Init => pc[c] = "idle"  BY DEF Init
  <2> QED  BY <2>1 DEF Traced, SavedSteps, LoggedSteps
<1>2. Inv /\ Inv' /\ Traced /\ [Next]_vars => Traced'  BY TracedStep, StateAssumption
<1>3. Traced => TracedCommit
  BY DEF Traced, TracedCommit, Saved, Logged, OverrideEntry, SavedSteps, LoggedSteps, WriteMeta, At
<1>4. Traced /\ [Next]_vars => [TracedCommit]_vars  BY <1>3
<1>5. Spec => [][TracedCommit]_vars  BY <1>1, <1>2, <1>4, InvHolds, PTL DEF Spec, SafeSpec
<1> QED  BY <1>5 DEF RecoveryTraceable, TracedCommit

\* No skip that the table allows passes over a required stage, so skipTo never refuses one: its
\* check of the required stages, and forceSkipRequired, make no difference.
THEOREM SkipsOptionalStages ==
  ASSUME NEW from \in ProjectStates, NEW to \in SkipOptions(from)
  PROVE  \A s \in StagesBetween(from, to) : ~IsStageRequired(s)
BY DEF ProjectStates, SkipOptions, StagesBetween, IsStageRequired, Place

\* Recoveries go back in the pipeline and skips go forward, and neither leaves a terminal state.
THEOREM MovesKeepOrder ==
  ASSUME NEW from \in ProjectStates
  PROVE  /\ \A to \in RecoveryOptions[from] : Place[to] < Place[from]
         /\ \A to \in SkipOptions(from) : Place[from] < Place[to]
         /\ ValidTransitions[from] = {} => RecoveryOptions[from] = {} /\ SkipOptions(from) = {}
BY DEF ProjectStates, RecoveryOptions, SkipOptions, ValidTransitions, Place

-----------------------------------------------------------------------------
(* Locks *)

SectionHolding == {"readSection", "writeSection", "readMeta", "writeMeta", "unlockSection"}

MetaHolding == {"readMeta", "writeMeta", "unlockMeta"}

HoldsSection(c) == pc[c] = "giveUp" \/ (job[c].kind \in Updates /\ pc[c] \in SectionHolding)

HoldsMeta(c) == pc[c] = "giveUp" \/ (job[c].kind \notin Unlocked /\ pc[c] \in MetaHolding)

\* A lock is held from its step to its release, or until a call that failed has given it up
Holders ==
  \A c \in Clients : (sectionLock = c => HoldsSection(c)) /\ (metaLock = c => HoldsMeta(c))

\* From the step that locks a file every path goes to the one that unlocks it.
LEMMA HolderPaths ==
  ASSUME NEW k \in Kinds, NEW s \in DOMAIN Path[k]
  PROVE  /\ s = "lockSection" => k \in Updates /\ Path[k][s] \in SectionHolding
         /\ s = "lockMeta" => k \notin Unlocked /\ Path[k][s] \in MetaHolding
         /\ k \in Updates /\ s \in SectionHolding \ {"unlockSection"} => Path[k][s] \in SectionHolding
         /\ k \notin Unlocked /\ s \in MetaHolding \ {"unlockMeta"} => Path[k][s] \in MetaHolding
<1> USE DEF Path, SectionHolding, MetaHolding, Unlocked, Updates
<1>1. CASE k = "update"  BY <1>1 DEF UpdatePath
<1>2. CASE k = "set"  BY <1>2 DEF UpdatePath
<1>3. CASE k = "transition"  BY <1>3 DEF TransitionPath
<1>4. CASE k = "skip"  BY <1>4 DEF SkipPath
<1>5. CASE k = "unsavedSkip"  BY <1>5 DEF UnsavedSkipPath
<1>6. CASE k = "recover"  BY <1>6 DEF RecoverPath
<1>7. CASE k = "override"  BY <1>7 DEF OverridePath
<1>8. CASE k = "restore"  BY <1>8 DEF RestorePath
<1> QED  BY <1>1, <1>2, <1>3, <1>4, <1>5, <1>6, <1>7, <1>8 DEF Kinds, Recoveries

\* A step of one call leaves the other holders where they are.
LEMMA OtherHolders ==
  ASSUME Holders, NEW c \in Clients,
         \A d \in Clients : d # c => pc'[d] = pc[d] /\ job'[d] = job[d],
         \A d \in Clients : d # c /\ sectionLock' = d => sectionLock = d,
         \A d \in Clients : d # c /\ metaLock' = d => metaLock = d,
         sectionLock' = c => HoldsSection(c)', metaLock' = c => HoldsMeta(c)'
  PROVE  Holders'
BY DEF Holders, HoldsSection, HoldsMeta

LEMMA AdvanceHolders ==
  ASSUME StateAssumption, Inv, Holders, NEW c \in Clients, Step(c), ~GiveUp(c)
  PROVE  Holders'
<1> TypeOK /\ OnPath /\ InRole  BY DEF Inv
<1>1. Advance(c) /\ UNCHANGED <<job, role>> /\ pc[c] # "giveUp"
  BY DEF Step, LockSection, LockMeta, UnlockSection, UnlockMeta, Read, ReadSection, Collect,
     ReadMeta, ReadCheckpoints, ReadLog, Reads, Write, WriteSection, WriteMeta, WriteCheckpoints,
     WriteLog, RestoreSection, At
<1>2. /\ pc[c] \in DOMAIN Path[job[c].kind] /\ pc'[c] = Path[job[c].kind][pc[c]]
      /\ job[c].kind \in Kinds
      /\ \A d \in Clients : d # c => pc'[d] = pc[d] /\ job'[d] = job[d]
  BY <1>1, Advanced
<1>3. /\ sectionLock = c => job[c].kind \in Updates /\ pc[c] \in SectionHolding
      /\ metaLock = c => job[c].kind \notin Unlocked /\ pc[c] \in MetaHolding
  BY <1>1 DEF Holders, HoldsSection, HoldsMeta
<1>4. CASE LockSection(c)
  <2>1. pc[c] = "lockSection" /\ sectionLock' = c /\ metaLock' = metaLock /\ metaLock # c
    BY <1>3, <1>4 DEF LockSection, At, MetaHolding
  <2>2. HoldsSection(c)'
    BY <1>1, <1>2, <2>1, HolderPaths DEF HoldsSection
  <2> QED  BY <1>2, <2>1, <2>2, OtherHolders
<1>5. CASE LockMeta(c)
  <2>1. pc[c] = "lockMeta" /\ metaLock' = c /\ sectionLock' = sectionLock /\ sectionLock # c
    BY <1>3, <1>5 DEF LockMeta, At, SectionHolding
  <2>2. HoldsMeta(c)'
    BY <1>1, <1>2, <2>1, HolderPaths DEF HoldsMeta
  <2> QED  BY <1>2, <2>1, <2>2, OtherHolders
<1>6. CASE UnlockSection(c)
  <2>1. /\ pc[c] = "unlockSection" /\ sectionLock' = Released(sectionLock, c) /\ metaLock' = metaLock
        /\ metaLock # c
    BY <1>3, <1>6 DEF UnlockSection, At, MetaHolding
  <2>2. sectionLock' # c /\ \A d \in Clients : sectionLock' = d => sectionLock = d
    BY <2>1 DEF Released, StateAssumption
  <2> QED  BY <1>2, <2>1, <2>2, OtherHolders
<1>7. CASE UnlockMeta(c)
  <2>1. /\ pc[c] = "unlockMeta" /\ metaLock' = Released(metaLock, c) /\ sectionLock' = sectionLock
        /\ sectionLock # c
    BY <1>3, <1>7 DEF UnlockMeta, At, SectionHolding
  <2>2. metaLock' # c /\ \A d \in Clients : metaLock' = d => metaLock = d
    BY <2>1 DEF Released, StateAssumption
  <2> QED  BY <1>2, <2>1, <2>2, OtherHolders
<1>8. CASE Read(c) \/ Write(c)
  <2>1. UNCHANGED locks /\ pc[c] \notin {"unlockSection", "unlockMeta"}
    BY <1>8 DEF Read, ReadSection, Collect, ReadMeta, ReadCheckpoints, ReadLog, Reads, Write,
       WriteSection, WriteMeta, WriteCheckpoints, WriteLog, RestoreSection, At
  <2>2. sectionLock' = sectionLock /\ metaLock' = metaLock  BY <2>1 DEF locks
  <2>3. sectionLock = c => HoldsSection(c)'
    BY <1>1, <1>2, <1>3, <2>1, HolderPaths DEF HoldsSection
  <2>4. metaLock = c => HoldsMeta(c)'
    BY <1>1, <1>2, <1>3, <2>1, HolderPaths DEF HoldsMeta
  <2> QED  BY <1>2, <2>2, <2>3, <2>4, OtherHolders
<1> QED  BY <1>4, <1>5, <1>6, <1>7, <1>8 DEF Step

\* A call that fails releases what it holds, and a crashed one's lock is nobody's.
LEMMA FailHolders ==
  ASSUME StateAssumption, Inv, Holders, NEW c \in Clients, Fail(c) \/ GiveUp(c) \/ Crash(c)
  PROVE  Holders'
<1> TypeOK  BY DEF Inv
<1>1. UNCHANGED job /\ \A d \in Clients : d # c => pc'[d] = pc[d] /\ job'[d] = job[d]
  BY DEF Fail, GiveUp, Crash, TypeOK
<1>2. CASE Fail(c)
  <2>1. UNCHANGED locks /\ pc'[c] = AfterThrow(c)  BY <1>2 DEF Fail, TypeOK
  <2>2. sectionLock = c \/ metaLock = c => pc'[c] = "giveUp"  BY <2>1 DEF AfterThrow
  <2> QED  BY <1>1, <2>1, <2>2, OtherHolders DEF locks, HoldsSection, HoldsMeta
<1>3. CASE GiveUp(c) \/ Crash(c)
  <2>1. /\ sectionLock' # c /\ metaLock' # c
        /\ \A d \in Clients : (sectionLock' = d => sectionLock = d) /\ (metaLock' = d => metaLock = d)
    BY <1>3 DEF GiveUp, Crash, Released, StateAssumption
  <2> QED  BY <1>1, <2>1, OtherHolders
<1> QED  BY <1>2, <1>3

LEMMA HoldersStep == ASSUME StateAssumption, Inv, Holders, [Next]_vars PROVE Holders'
<1> TypeOK  BY DEF Inv
<1>1. ASSUME NEW c \in Clients, Call(c) PROVE Holders'
  <2>1. PICK j \in Job : Begin(c, j)  BY <1>1, CallBegins
  <2>2. /\ pc[c] = "idle" /\ UNCHANGED locks
        /\ \A d \in Clients : d # c => pc'[d] = pc[d] /\ job'[d] = job[d]
    BY <2>1 DEF Begin, At, TypeOK
  <2>3. sectionLock # c /\ metaLock # c
    BY <2>2 DEF Holders, HoldsSection, HoldsMeta, SectionHolding, MetaHolding
  <2> QED  BY <2>2, <2>3, OtherHolders DEF locks
<1>2. ASSUME NEW c \in Clients, Step(c) \/ Fail(c) \/ Crash(c) PROVE Holders'
  BY <1>2, AdvanceHolders, FailHolders
<1>3. CASE Expire
  <2>1. \A d \in Clients : (sectionLock' = d => sectionLock = d) /\ (metaLock' = d => metaLock = d)
    BY <1>3 DEF Expire, Released, StateAssumption
  <2>2. pc' = pc /\ job' = job  BY <1>3 DEF Expire, procs
  <2> QED  BY <2>1, <2>2 DEF Holders, HoldsSection, HoldsMeta
<1>4. CASE UNCHANGED vars
  BY <1>4 DEF vars, locks, procs, Holders, HoldsSection, HoldsMeta
<1> QED  BY <1>1, <1>2, <1>3, <1>4 DEF Next

\* A lock is held only by a call that is on its way to release it, and that waits for nobody: the
\* processes never deadlock on their locks and no failure leaves one behind, for any number of them.
THEOREM LocksOnTheirWay == Spec => []HoldersGoOn
<1>1. Init => Holders
  BY StateAssumption DEF Init, Holders, StateAssumption
<1>2. Inv /\ Holders /\ [Next]_vars => Holders'
  BY HoldersStep, StateAssumption
<1>3. Holders => HoldersGoOn
  BY DEF Holders, HoldersGoOn, HoldsSection, HoldsMeta, SectionHolding, MetaHolding
<1> QED  BY <1>1, <1>2, <1>3, InvHolds, PTL DEF Spec, SafeSpec
=============================================================================
