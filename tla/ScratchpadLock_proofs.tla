----------------------- MODULE ScratchpadLock_proofs -----------------------
(* Proofs about ScratchpadLock, for every set of clients and every configuration *)
EXTENDS ScratchpadLock, FiniteSetTheorems, TLAPS

ClientRecord == [pc : PCs, seen : Lock, asked : Clients \cup {NoClient},
                 timers : SUBSET Owners, intervals : SUBSET Owners, releases : BOOLEAN,
                 beats : {"no", "read", "truncated"}, copy : Lock]

Types ==
  /\ config \in Configs
  /\ lockFile \in Lock
  /\ client \in [Clients -> ClientRecord]

-----------------------------------------------------------------------------
(* Types *)

LEMMA NoLockType == NoLock \in Lock
BY LockAssumption DEF NoLock, Lock

LEMMA LockOfType == ASSUME NEW c \in Clients, NEW g \in 0..MaxGeneration PROVE LockOf(c, g) \in Lock
BY LockAssumption DEF LockOf, Lock

LEMMA ReadType == ASSUME Types PROVE Read \in Lock
BY NoLockType DEF Types, Read

LEMMA NewClientType ==
  /\ NewClient \in ClientRecord
  /\ [NewClient EXCEPT !.pc = "crashed"] \in ClientRecord
BY NoLockType DEF NewClient, ClientRecord, PCs

\* Detached changes only heartbeats whose file is gone
LEMMA DetachedType == ASSUME Types PROVE Detached \in [Clients -> ClientRecord]
<1> SUFFICES ASSUME NEW d \in Clients PROVE Detached[d] \in ClientRecord
  BY DEF Detached
<1>1. CASE client[d].beats = "truncated"
  <2>1. client[d] \in ClientRecord
    BY DEF Types
  <2>2. [client[d] EXCEPT !.beats = "no", !.copy = NoLock] \in ClientRecord
    BY <2>1, NoLockType DEF ClientRecord
  <2> QED BY <1>1, <2>2 DEF Detached
<1>2. CASE client[d].beats # "truncated"
  BY <1>2 DEF Detached, Types
<1> QED BY <1>1, <1>2

LEMMA DetachedPC == ASSUME Types, NEW d \in Clients PROVE Detached[d].pc = client[d].pc
<1>1. client[d] \in ClientRecord
  BY DEF Types
<1> QED BY <1>1 DEF Detached, ClientRecord

\* Clearing and starting timers leaves the calls in flight as they are
LEMMA ClearedType ==
  ASSUME NEW r \in ClientRecord
  PROVE  /\ Cleared(r) \in ClientRecord
         /\ Cleared(r).pc = r.pc /\ Cleared(r).seen = r.seen /\ Cleared(r).releases = r.releases
         /\ Cleared(r).beats = r.beats /\ Cleared(r).copy = r.copy
BY DEF Cleared, ClientRecord

LEMMA EnteredType ==
  ASSUME NEW r \in ClientRecord, NEW h \in BOOLEAN
  PROVE  /\ Entered(r, h) \in ClientRecord /\ Entered(r, h).pc = "critical"
         /\ Entered(r, h).releases = r.releases
         /\ Entered(r, h).beats = r.beats /\ Entered(r, h).copy = r.copy
<1> DEFINE t == Started(r.timers)
           n == IF h THEN Started(r.intervals) ELSE {}
<1>1. t \in SUBSET Owners /\ n \in SUBSET Owners
  BY DEF Started, Owners
<1>2. Entered(r, h) = [r EXCEPT !.pc = "critical", !.seen = NoLock, !.asked = NoClient,
                                !.timers = t, !.intervals = n]
  BY DEF Entered, ClientRecord
<1> HIDE DEF t, n
<1> QED BY <1>1, <1>2, NoLockType DEF ClientRecord, PCs

LEMMA UnlinkedType == ASSUME Types, NEW c \in Clients PROVE Unlinked(c) \in ClientRecord
<1>1. client[c] \in ClientRecord /\ Detached[c] \in ClientRecord
  BY DetachedType DEF Types
<1> QED BY <1>1, ClearedType DEF Unlinked

LEMMA UnlinkedPC == ASSUME Types, NEW c \in Clients PROVE Unlinked(c).pc = client[c].pc
<1>1. client[c] \in ClientRecord /\ Detached[c] \in ClientRecord
  BY DetachedType DEF Types
<1> QED BY <1>1, ClearedType, DetachedPC DEF Unlinked

LEMMA InitTypes == Init => Types
BY NoLockType, NewClientType DEF Init, Types

-----------------------------------------------------------------------------
(* The inductive invariant *)

\* Only a lock seen expired is asked for or stolen
SeenExpired(c) ==
  client[c].pc \in {"cooperating", "stealing", "renaming"} => client[c].seen.expired

\* A client while no lock expires: it steals nothing, no timer releases its lock, and
\* what a heartbeat will write is a lock
Patient(c) ==
  /\ client[c].pc \notin {"cooperating", "stealing", "renaming"}
  /\ client[c].releases = FALSE
  /\ client[c].copy.expired = FALSE
  /\ client[c].beats # "no" => client[c].copy.holder \in Clients

\* While no lock expires, one client uses the lock and the lock file is there; which
\* client the file names is open, since a late heartbeat can write another
Exclusion ==
  /\ \A c \in Clients : Patient(c)
  /\ lockFile.expired = FALSE
  /\ \A c, d \in Using : c = d
  /\ Using # {} => Exists

IInv ==
  /\ Types
  /\ \A c \in Clients : SeenExpired(c)
  /\ config.expires = "never" => Exclusion

\* What a step of client c does while no lock expires
Allowed(c) ==
  /\ Patient(c)'
  /\ lockFile'.expired = FALSE
  /\ c \in Using' => c \in Using \/ Using = {}
  /\ Using' # {} => Exists'
  /\ c \in Critical' => c \in Critical \/ Using = {}

\* What every step of client c does
StepOf(c) ==
  /\ config' = config
  /\ lockFile' \in Lock
  /\ client' \in [Clients -> ClientRecord]
  /\ \A d \in Clients : d # c => client'[d] \in {client[d], Detached[d]}
  /\ SeenExpired(c)'
  /\ config.expires = "never" => Allowed(c)

LEMMA ExclusionMember ==
  ASSUME IInv, config.expires = "never", NEW c \in Clients
  PROVE  Patient(c) /\ lockFile.expired = FALSE
BY DEF IInv, Exclusion

LEMMA DetachedKeeps ==
  ASSUME IInv, NEW d \in Clients
  PROVE  /\ Detached[d].seen = client[d].seen
         /\ Detached[d].releases = client[d].releases
         /\ \/ Detached[d] = client[d]
            \/ Detached[d].beats = "no" /\ Detached[d].copy = NoLock
<1>1. client[d] \in ClientRecord
  BY DEF IInv, Types
<1> QED BY <1>1 DEF Detached, ClientRecord

LEMMA StepPreserves == ASSUME IInv, NEW c \in Clients, StepOf(c) PROVE IInv'
<1>1. Types'
  BY DEF IInv, Types, StepOf
<1> DEFINE Same(d) == /\ client'[d].pc = client[d].pc
                      /\ client'[d].seen = client[d].seen
                      /\ client'[d].releases = client[d].releases
                      /\ \/ client'[d] = client[d]
                         \/ client'[d].beats = "no" /\ client'[d].copy = NoLock
<1>2. \A d \in Clients : d # c => Same(d)
  BY DetachedKeeps, DetachedPC DEF StepOf, IInv
<1> HIDE DEF Same
<1>3. ASSUME NEW d \in Clients PROVE SeenExpired(d)'
  <2>1. CASE d = c
    BY <2>1 DEF StepOf
  <2>2. CASE d # c
    BY <1>2, <2>2 DEF Same, SeenExpired, IInv
  <2> QED BY <2>1, <2>2
<1>4. ASSUME config'.expires = "never" PROVE Exclusion'
  <2>1. config.expires = "never" /\ Allowed(c) /\ Exclusion
    BY <1>4 DEF StepOf, IInv
  <2>2. ASSUME NEW d \in Clients PROVE Patient(d)'
    <3>1. CASE d = c
      BY <2>1, <3>1 DEF Allowed
    <3>2. CASE d # c
      <4>1. Same(d) /\ Patient(d)
        BY <1>2, <2>1, <3>2 DEF Exclusion
      <4>2. NoLock.expired = FALSE
        BY DEF NoLock
      <4> QED BY <4>1, <4>2 DEF Same, Patient
    <3> QED BY <3>1, <3>2
  <2>3. ASSUME NEW x \in Using', NEW y \in Using' PROVE x = y
    <3>1. ASSUME NEW d \in Using', d # c PROVE d \in Using
      <4>1. d \in Clients /\ Same(d)
        BY <1>2, <3>1 DEF Using
      <4> QED BY <3>1, <4>1 DEF Same, Using
    <3>2. \A d, e \in Using : d = e
      BY <2>1 DEF Exclusion
    <3>3. c \in Using' => c \in Using \/ Using = {}
      BY <2>1 DEF Allowed
    <3> QED BY <3>1, <3>2, <3>3
  <2> QED BY <2>1, <2>2, <2>3 DEF Exclusion, Allowed
<1> QED BY <1>1, <1>3, <1>4 DEF IInv

-----------------------------------------------------------------------------
(* Every step of a client is a StepOf it *)

LEMMA Record == ASSUME IInv, NEW c \in Clients PROVE client[c] \in ClientRecord
BY DEF IInv, Types

LEMMA ReadExpired ==
  ASSUME IInv, config.expires = "never"
  PROVE  Read.expired = FALSE
BY DEF IInv, Exclusion, Read, NoLock

\* A step that changes one client's record and not the lock file
LEMMA OneRecord ==
  ASSUME IInv, NEW c \in Clients, NEW r \in ClientRecord,
         config' = config, lockFile' = lockFile, client' = [client EXCEPT ![c] = r],
         r.pc \in {"cooperating", "stealing", "renaming"} => r.seen.expired,
         config.expires = "never" =>
           /\ r.pc \notin {"cooperating", "stealing", "renaming"}
           /\ r.releases = FALSE
           /\ r.copy.expired = FALSE
           /\ r.beats # "no" => r.copy.holder \in Clients
           /\ r.pc = "critical" => client[c].pc = "critical"
           /\ r.pc \in {"releasing", "unlinking"} =>
                client[c].pc \in {"critical", "releasing", "unlinking"}
  PROVE  StepOf(c)
<1>1. client'[c] = r /\ \A d \in Clients : d # c => client'[d] = client[d]
  BY DEF IInv, Types
<1>2. client' \in [Clients -> ClientRecord] /\ lockFile' \in Lock
  BY DEF IInv, Types
<1>3. SeenExpired(c)'
  BY <1>1 DEF SeenExpired
<1>4. ASSUME config.expires = "never" PROVE Allowed(c)
  <2>1. Patient(c)'
    BY <1>1, <1>4 DEF Patient
  <2>2. lockFile'.expired = FALSE
    BY <1>4, ExclusionMember
  <2>3. c \in Using' => c \in Using
    BY <1>1, <1>4 DEF Using
  <2>4. c \in Critical' => c \in Critical
    BY <1>1, <1>4 DEF Critical
  <2>5. Using' # {} => Using # {}
    BY <1>1, <2>3 DEF Using
  <2>6. Using # {} => Exists
    BY <1>4 DEF IInv, Exclusion
  <2>7. Exists' = Exists
    BY DEF Exists
  <2> QED BY <2>1, <2>2, <2>3, <2>4, <2>5, <2>6, <2>7 DEF Allowed
<1> QED BY <1>1, <1>2, <1>3, <1>4 DEF StepOf

LEMMA GotoStep ==
  ASSUME IInv, NEW c \in Clients, NEW pc \in PCs, Goto(c, pc), config' = config, lockFile' = lockFile,
         pc \in {"cooperating", "stealing", "renaming"} => client[c].seen.expired,
         config.expires = "never" =>
           /\ pc \notin {"cooperating", "stealing", "renaming", "critical"}
           /\ pc \in {"releasing", "unlinking"} => client[c].pc \in {"critical", "releasing", "unlinking"}
  PROVE  StepOf(c)
<1> DEFINE r == [client[c] EXCEPT !.pc = pc]
<1>1. r \in ClientRecord
  BY Record DEF ClientRecord
<1>2. /\ r.pc = pc /\ r.seen = client[c].seen /\ r.releases = client[c].releases
      /\ r.beats = client[c].beats /\ r.copy = client[c].copy
  BY Record DEF ClientRecord
<1>3. client' = [client EXCEPT ![c] = r]
  BY DEF Goto, IInv, Types
<1>4. config.expires = "never" => Patient(c)
  BY ExclusionMember
<1> HIDE DEF r
<1> QED BY <1>1, <1>2, <1>3, <1>4, OneRecord DEF Patient

LEMMA RetryStep ==
  ASSUME IInv, NEW c \in Clients, Retry(c), config' = config, lockFile' = lockFile
  PROVE  StepOf(c)
<1>1. PICK pc \in {"linking", "idle"} :
        client' = [client EXCEPT ![c].pc = pc, ![c].seen = NoLock,
                                 ![c].asked = IF pc = "idle" THEN NoClient ELSE @]
  BY DEF Retry
<1> DEFINE asked == IF pc = "idle" THEN NoClient ELSE client[c].asked
           r == [client[c] EXCEPT !.pc = pc, !.seen = NoLock, !.asked = asked]
<1>2. asked \in Clients \cup {NoClient} /\ pc \in PCs
  BY Record DEF ClientRecord, PCs
<1>3. client' = [client EXCEPT ![c] = r]
  BY <1>1 DEF IInv, Types
<1> HIDE DEF asked
<1>4. r \in ClientRecord
  BY <1>2, Record, NoLockType DEF ClientRecord
<1>5. /\ r.pc = pc /\ r.releases = client[c].releases
      /\ r.beats = client[c].beats /\ r.copy = client[c].copy
  BY Record DEF ClientRecord
<1>6. config.expires = "never" => Patient(c)
  BY ExclusionMember
<1> HIDE DEF r
<1> QED BY <1>3, <1>4, <1>5, <1>6, OneRecord DEF Patient

LEMMA CallStep == ASSUME IInv, NEW c \in Clients, Call(c) PROVE StepOf(c)
BY GotoStep DEF Call, PCs

LEMMA ExamineStep == ASSUME IInv, NEW c \in Clients, Examine(c) PROVE StepOf(c)
<1>1. CASE Read.expired /\ UNCHANGED <<config, lockFile>>
  <2> DEFINE ask == config.cooperative /\ client[c].asked # Read.holder
             pc == IF ask THEN "cooperating" ELSE "stealing"
             asked == IF ask THEN Read.holder ELSE client[c].asked
             r == [client[c] EXCEPT !.seen = Read, !.pc = pc, !.asked = asked]
  <2>1. CASE Retry(c)
    BY <1>1, <2>1, RetryStep
  <2>2. CASE client' = [client EXCEPT ![c].seen = Read, ![c].pc = pc, ![c].asked = asked]
    <3>1. Read \in Lock /\ Read.holder \in Clients \cup {NoClient}
      BY ReadType DEF IInv, Lock
    <3>2. pc \in {"cooperating", "stealing"} /\ asked \in Clients \cup {NoClient}
      BY <3>1, Record DEF ClientRecord
    <3>3. client' = [client EXCEPT ![c] = r]
      BY <2>2 DEF IInv, Types
    <3> HIDE DEF ask, pc, asked
    <3>4. r \in ClientRecord
      BY <3>1, <3>2, Record DEF ClientRecord, PCs
    <3>5. r.seen = Read
      BY Record DEF ClientRecord
    <3>6. config.expires # "never"
      BY <1>1, ReadExpired
    <3> HIDE DEF r
    <3> QED BY <1>1, <3>3, <3>4, <3>5, <3>6, OneRecord
  <2> QED BY <1>1, <2>1, <2>2 DEF Examine
<1>2. CASE Retry(c)
  BY <1>2, RetryStep DEF Examine
<1> QED BY <1>1, <1>2 DEF Examine

\* In these states a lock was seen expired
LEMMA Stealing ==
  ASSUME IInv, NEW c \in Clients, client[c].pc \in {"cooperating", "stealing", "renaming"}
  PROVE  config.expires # "never" /\ client[c].seen.expired
BY ExclusionMember DEF IInv, Patient, SeenExpired

LEMMA CooperateStep == ASSUME IInv, NEW c \in Clients, Cooperate(c) PROVE StepOf(c)
<1>1. config.expires # "never" /\ client[c].seen.expired
  BY Stealing DEF Cooperate
<1> QED BY <1>1, RetryStep, GotoStep DEF Cooperate, PCs

LEMMA VerifyStep == ASSUME IInv, NEW c \in Clients, Verify(c) PROVE StepOf(c)
<1>1. config.expires # "never" /\ client[c].seen.expired
  BY Stealing DEF Verify
<1> QED BY <1>1, RetryStep, GotoStep DEF Verify, PCs

LEMMA FinishStep == ASSUME IInv, NEW c \in Clients, Finish(c) PROVE StepOf(c)
BY GotoStep DEF Finish, PCs

LEMMA ReleaseStep == ASSUME IInv, NEW c \in Clients, Release(c) PROVE StepOf(c)
<1>1. CASE MayUnlink(c)
  BY <1>1, GotoStep DEF Release, PCs
<1>2. CASE ~MayUnlink(c)
  BY <1>2, GotoStep DEF Release, PCs
<1> QED BY <1>1, <1>2

LEMMA CrashStep == ASSUME IInv, NEW c \in Clients, Crash(c) PROVE StepOf(c)
<1> DEFINE r == [NewClient EXCEPT !.pc = "crashed"]
<1>1. r \in ClientRecord
  BY NewClientType
<1>2. r.pc = "crashed" /\ r.releases = FALSE /\ r.beats = "no" /\ r.copy.expired = FALSE
  BY DEF NewClient, NoLock
<1>3. client' = [client EXCEPT ![c] = r] /\ config' = config /\ lockFile' = lockFile
  BY DEF Crash
<1> HIDE DEF r
<1> QED BY <1>1, <1>2, <1>3, OneRecord

LEMMA TimerFiresStep == ASSUME IInv, NEW c \in Clients, TimerFires(c) PROVE StepOf(c)
<1>1. MayUnlink(c) \in BOOLEAN
  BY DEF MayUnlink
<1>2. PICK r \in ClientRecord : client' = [client EXCEPT ![c] = r] /\ r.pc = client[c].pc /\ r.seen = client[c].seen
  <2>1. PICK t \in client[c].timers :
          client' = [client EXCEPT ![c].timers = @ \ {t}, ![c].releases = MayUnlink(c)]
    BY DEF TimerFires
  <2> DEFINE n == client[c].timers \ {t}
             b == MayUnlink(c)
             l == [client[c] EXCEPT !.timers = n, !.releases = b]
  <2>2. client' = [client EXCEPT ![c] = l]
    BY <2>1 DEF IInv, Types
  <2>3. n \in SUBSET Owners
    BY Record DEF ClientRecord
  <2> HIDE DEF n, b
  <2>4. l \in ClientRecord /\ l.pc = client[c].pc /\ l.seen = client[c].seen
    BY <1>1, <2>3, Record DEF ClientRecord, b
  <2> HIDE DEF l
  <2> QED BY <2>2, <2>4
<1>3. r.pc \in {"cooperating", "stealing", "renaming"} => r.seen.expired
  BY <1>2 DEF IInv, SeenExpired
<1>4. config.expires # "never" /\ config' = config /\ lockFile' = lockFile
  BY DEF TimerFires
<1> QED BY <1>2, <1>3, <1>4, OneRecord

LEMMA HeartbeatReadsStep == ASSUME IInv, NEW c \in Clients, HeartbeatReads(c) PROVE StepOf(c)
<1> DEFINE r == [client[c] EXCEPT !.beats = "read", !.copy = Read]
<1>1. r \in ClientRecord
  BY Record, ReadType DEF ClientRecord, IInv
<1>2. /\ r.pc = client[c].pc /\ r.seen = client[c].seen
      /\ r.releases = client[c].releases /\ r.copy = Read
  BY Record DEF ClientRecord
<1>3. /\ client' = [client EXCEPT ![c] = r] /\ config' = config /\ lockFile' = lockFile
      /\ Read.holder = c
  BY DEF HeartbeatReads, IInv, Types
<1> HIDE DEF r
<1>4. config.expires = "never" => Patient(c) /\ Read.expired = FALSE
  BY ExclusionMember, ReadExpired
<1>5. SeenExpired(c)
  BY DEF IInv
<1> QED BY <1>1, <1>2, <1>3, <1>4, <1>5, OneRecord DEF Patient, SeenExpired

\* A step that changes the lock file and perhaps detaches heartbeats from it
LEMMA FileRecord ==
  ASSUME IInv, NEW c \in Clients, NEW r \in ClientRecord,
         config' = config, lockFile' \in Lock,
         client' = [client EXCEPT ![c] = r] \/ client' = [Detached EXCEPT ![c] = r],
         r.pc \notin {"cooperating", "stealing", "renaming"} \/ r.seen.expired,
         config.expires = "never" =>
           /\ r.pc \notin {"cooperating", "stealing", "renaming"}
           /\ r.releases = FALSE
           /\ r.copy.expired = FALSE
           /\ r.beats # "no" => r.copy.holder \in Clients
           /\ lockFile'.expired = FALSE
           /\ \/ Using = {} /\ Exists'
              \/ r.pc = client[c].pc /\ Exists'
              \/ r.pc = "idle" /\ client[c].pc = "unlinking"
  PROVE  StepOf(c)
<1>1. /\ client'[c] = r
      /\ \A d \in Clients : d # c => client'[d] \in {client[d], Detached[d]}
      /\ client' \in [Clients -> ClientRecord]
  BY DetachedType DEF IInv, Types
<1>2. SeenExpired(c)'
  BY <1>1 DEF SeenExpired
<1>3. ASSUME config.expires = "never" PROVE Allowed(c)
  <2>1. Patient(c)' /\ lockFile'.expired = FALSE
    BY <1>1, <1>3 DEF Patient
  <2>2. \A d \in Clients : d # c => client'[d].pc = client[d].pc
    BY <1>1, DetachedPC DEF IInv
  <2>3. Using = {} \/ r.pc = client[c].pc \/ r.pc = "idle"
    BY <1>3
  <2>4. c \in Using' => c \in Using \/ Using = {}
    BY <1>1, <2>3 DEF Using
  <2>5. c \in Critical' => c \in Critical \/ Using = {}
    BY <1>1, <2>3 DEF Critical
  <2>6. Using' # {} => Exists'
    <3>1. CASE r.pc = "idle" /\ client[c].pc = "unlinking"
      <4>1. c \in Using /\ \A d \in Using : d = c
        BY <1>3, <3>1 DEF Using, IInv, Exclusion
      <4>2. Using' = {}
        BY <1>1, <2>2, <3>1, <4>1 DEF Using
      <4> QED BY <4>2
    <3> QED BY <1>3, <3>1
  <2> QED BY <2>1, <2>4, <2>5, <2>6 DEF Allowed
<1> QED BY <1>1, <1>2, <1>3 DEF StepOf

LEMMA LinkStep == ASSUME IInv, NEW c \in Clients, Link(c) PROVE StepOf(c)
<1>1. CASE Exists
  BY <1>1, GotoStep DEF Link, PCs
<1>2. CASE ~Exists
  <2> DEFINE r == Entered(client[c], c \in config.heartbeat)
  <2>1. (c \in config.heartbeat) \in BOOLEAN
    OBVIOUS
  <2>2. r \in ClientRecord
    BY <2>1, Record, EnteredType
  <2>3. /\ r.pc = "critical" /\ r.releases = client[c].releases
        /\ r.copy = client[c].copy /\ r.beats = client[c].beats
    BY <2>1, Record, EnteredType
  <2>4. client' = [client EXCEPT ![c] = r]
    BY <1>2 DEF Link, Enter, IInv, Types
  <2> HIDE DEF r
  <2>5. config' = config /\ lockFile' = LockOf(c, 0) /\ LockOf(c, 0) \in Lock
    BY <1>2, LockOfType, LockAssumption DEF Link
  <2>6. lockFile'.expired = FALSE /\ Exists'
    BY <2>5, LockAssumption DEF LockOf, Exists, NoLock
  <2>7. config.expires = "never" => Patient(c) /\ Using = {}
    BY <1>2, ExclusionMember DEF IInv, Exclusion
  <2> QED BY <2>2, <2>3, <2>4, <2>5, <2>6, <2>7, FileRecord DEF Patient
<1> QED BY <1>1, <1>2

LEMMA RenameStep == ASSUME IInv, NEW c \in Clients, Rename(c) PROVE StepOf(c)
<1> DEFINE g == IF client[c].seen.generation < MaxGeneration
                THEN client[c].seen.generation + 1 ELSE MaxGeneration
           r == Entered(Detached[c], c \in config.heartbeat)
<1>1. config.expires # "never"
  BY Stealing DEF Rename
<1>2. g \in 0..MaxGeneration
  <2>1. client[c].seen.generation \in 0..MaxGeneration
    BY Record DEF ClientRecord, Lock
  <2> QED BY <2>1, LockAssumption
<1>3. Detached[c] \in ClientRecord /\ (c \in config.heartbeat) \in BOOLEAN
  BY DetachedType DEF IInv
<1>4. client' = [Detached EXCEPT ![c] = r] /\ lockFile' = LockOf(c, g) /\ config' = config
  BY DetachedType DEF Rename, IInv
<1> HIDE DEF g
<1>5. r \in ClientRecord /\ r.pc = "critical"
  BY <1>3, EnteredType
<1> HIDE DEF r
<1>6. lockFile' \in Lock
  BY <1>2, <1>4, LockOfType
<1> QED BY <1>1, <1>4, <1>5, <1>6, FileRecord

\* What Unlinked leaves of the client
LEMMA UnlinkedKeeps ==
  ASSUME IInv, NEW c \in Clients
  PROVE  /\ Unlinked(c).pc = client[c].pc /\ Unlinked(c).seen = client[c].seen
         /\ Unlinked(c).releases = client[c].releases
         /\ \/ Unlinked(c).beats = client[c].beats /\ Unlinked(c).copy = client[c].copy
            \/ Unlinked(c).beats = "no" /\ Unlinked(c).copy = NoLock
<1>1. client[c] \in ClientRecord /\ Detached[c] \in ClientRecord
  BY DetachedType, Record DEF IInv
<1>2. CASE ~Exists
  BY <1>2 DEF Unlinked
<1>3. CASE Exists
  <2> DEFINE u == Cleared(Detached[c])
  <2>1. /\ u.pc = Detached[c].pc /\ u.seen = Detached[c].seen
        /\ u.releases = Detached[c].releases
        /\ u.beats = Detached[c].beats /\ u.copy = Detached[c].copy
    BY <1>1, ClearedType
  <2>2. Unlinked(c) = u
    BY <1>3 DEF Unlinked
  <2>3. Detached[c].pc = client[c].pc
    BY DetachedPC DEF IInv
  <2> HIDE DEF u
  <2>4. /\ Detached[c].seen = client[c].seen
        /\ Detached[c].releases = client[c].releases
        /\ \/ Detached[c] = client[c]
           \/ Detached[c].beats = "no" /\ Detached[c].copy = NoLock
    BY DetachedKeeps
  <2> QED BY <2>1, <2>2, <2>3, <2>4
<1> QED BY <1>2, <1>3

LEMMA UnlinkStep == ASSUME IInv, NEW c \in Clients, Unlink(c) PROVE StepOf(c)
<1> DEFINE u == Unlinked(c)
           r == [u EXCEPT !.pc = "idle"]
<1>1. u \in ClientRecord
  BY UnlinkedType DEF IInv
<1>2. /\ u.releases = client[c].releases
      /\ \/ u.beats = client[c].beats /\ u.copy = client[c].copy
         \/ u.beats = "no" /\ u.copy = NoLock
  BY UnlinkedKeeps
<1>3. client' = [Detached EXCEPT ![c] = r] /\ lockFile' = NoLock /\ config' = config
      /\ client[c].pc = "unlinking"
  BY DetachedType DEF Unlink
<1> HIDE DEF u
<1>4. /\ r \in ClientRecord /\ r.pc = "idle" /\ r.releases = u.releases
      /\ r.beats = u.beats /\ r.copy = u.copy
  BY <1>1 DEF ClientRecord, PCs
<1> HIDE DEF r
<1>5. NoLock.expired = FALSE
  BY DEF NoLock
<1>6. config.expires = "never" => Patient(c)
  BY ExclusionMember
<1> QED BY <1>2, <1>3, <1>4, <1>5, <1>6, NoLockType, FileRecord DEF Patient

LEMMA TimerUnlinksStep == ASSUME IInv, NEW c \in Clients, TimerUnlinks(c) PROVE StepOf(c)
<1> DEFINE u == Unlinked(c)
           r == [u EXCEPT !.releases = FALSE]
<1>1. u \in ClientRecord /\ u.pc = client[c].pc /\ u.seen = client[c].seen
  BY UnlinkedType, UnlinkedKeeps DEF IInv
<1>2. client' = [Detached EXCEPT ![c] = r] /\ lockFile' = NoLock /\ config' = config
  BY DetachedType DEF TimerUnlinks
<1>3. config.expires # "never"
  BY ExclusionMember DEF TimerUnlinks, Patient
<1> HIDE DEF u
<1>4. r \in ClientRecord /\ r.pc = u.pc /\ r.seen = u.seen
  BY <1>1 DEF ClientRecord
<1> HIDE DEF r
<1>5. r.pc \notin {"cooperating", "stealing", "renaming"} \/ r.seen.expired
  BY <1>1, <1>4 DEF IInv, SeenExpired
<1> QED BY <1>2, <1>3, <1>4, <1>5, NoLockType, FileRecord

LEMMA HeartbeatTruncatesStep ==
  ASSUME IInv, NEW c \in Clients, HeartbeatTruncates(c) PROVE StepOf(c)
<1> DEFINE r == [client[c] EXCEPT !.beats = "truncated"]
           old == IF Exists THEN lockFile ELSE client[c].copy
<1>1. /\ r \in ClientRecord /\ r.pc = client[c].pc /\ r.seen = client[c].seen
      /\ r.releases = client[c].releases /\ r.copy = client[c].copy
  BY Record DEF ClientRecord
<1>2. /\ client' = [client EXCEPT ![c] = r] /\ config' = config
      /\ lockFile' = [old EXCEPT !.torn = TRUE] /\ client[c].beats = "read"
  BY DEF HeartbeatTruncates, IInv, Types
<1>3. old \in Lock
  BY Record DEF IInv, Types, ClientRecord
<1>4. config.expires = "never" => Patient(c) /\ old.expired = FALSE
  BY ExclusionMember DEF Patient
<1> HIDE DEF r, old
<1>5. lockFile' \in Lock /\ lockFile'.torn = TRUE /\ lockFile'.expired = old.expired
  BY <1>2, <1>3 DEF Lock
<1>6. Exists'
  BY <1>5 DEF Exists, NoLock
<1>7. SeenExpired(c)
  BY DEF IInv
<1> QED BY <1>1, <1>2, <1>4, <1>5, <1>6, <1>7, FileRecord DEF Patient, SeenExpired

LEMMA HeartbeatWritesStep ==
  ASSUME IInv, NEW c \in Clients, HeartbeatWrites(c) PROVE StepOf(c)
<1> DEFINE r == [client[c] EXCEPT !.beats = "no", !.copy = NoLock]
<1>1. /\ r \in ClientRecord /\ r.pc = client[c].pc /\ r.seen = client[c].seen
      /\ r.releases = client[c].releases /\ r.beats = "no" /\ r.copy = NoLock
  BY Record, NoLockType DEF ClientRecord
<1>2. /\ client' = [client EXCEPT ![c] = r] /\ config' = config
      /\ lockFile' = [client[c].copy EXCEPT !.expired = FALSE]
      /\ client[c].beats = "truncated"
  BY DEF HeartbeatWrites, IInv, Types
<1>3. /\ lockFile' \in Lock /\ lockFile'.expired = FALSE
      /\ lockFile'.holder = client[c].copy.holder
  <2>1. client[c].copy \in Lock
    BY Record DEF ClientRecord
  <2>2. /\ [client[c].copy EXCEPT !.expired = FALSE] \in Lock
        /\ [client[c].copy EXCEPT !.expired = FALSE].expired = FALSE
        /\ [client[c].copy EXCEPT !.expired = FALSE].holder = client[c].copy.holder
    BY <2>1 DEF Lock
  <2> QED BY <1>2, <2>2
<1> HIDE DEF r
<1>4. config.expires = "never" => Patient(c)
  BY ExclusionMember
<1>5. config.expires = "never" => Exists'
  BY <1>2, <1>3, <1>4, LockAssumption DEF Patient, Exists, NoLock
<1>6. SeenExpired(c) /\ NoLock.expired = FALSE
  BY DEF IInv, NoLock
<1> QED BY <1>1, <1>2, <1>3, <1>4, <1>5, <1>6, FileRecord DEF Patient, SeenExpired

LEMMA AnyStep ==
  ASSUME IInv, NEW c \in Clients, Call(c) \/ ClientStep(c) \/ TimerStep(c) \/ Crash(c)
  PROVE  StepOf(c)
BY CallStep, LinkStep, ExamineStep, CooperateStep, VerifyStep, RenameStep, FinishStep,
   ReleaseStep, UnlinkStep, TimerFiresStep, TimerUnlinksStep, HeartbeatReadsStep,
   HeartbeatTruncatesStep, HeartbeatWritesStep, CrashStep
   DEF ClientStep, TimerStep

LEMMA ExpireStep == ASSUME IInv, Expire PROVE IInv' /\ Critical' = Critical
<1>1. Types'
  <2>1. [lockFile EXCEPT !.expired = TRUE] \in Lock
    BY DEF IInv, Types, Lock
  <2> QED BY <2>1 DEF Expire, IInv, Types
<1>2. \A c \in Clients : SeenExpired(c)'
  BY DEF Expire, IInv, SeenExpired
<1>3. config'.expires # "never"
  BY DEF Expire
<1>4. Critical' = Critical
  BY DEF Expire, Critical
<1> QED BY <1>1, <1>2, <1>3, <1>4 DEF IInv

LEMMA InitInvariant == Init => IInv
<1> SUFFICES ASSUME Init PROVE IInv
  OBVIOUS
<1>1. Types
  BY InitTypes
<1>2. \A c \in Clients : SeenExpired(c) /\ Patient(c)
  BY DEF Init, NewClient, SeenExpired, Patient, NoLock
<1>3. Using = {} /\ lockFile.expired = FALSE
  BY DEF Init, NewClient, Using, NoLock
<1> QED BY <1>1, <1>2, <1>3 DEF IInv, Exclusion

LEMMA NextInvariant == IInv /\ [Next]_vars => IInv'
<1> SUFFICES ASSUME IInv, [Next]_vars PROVE IInv'
  OBVIOUS
<1>1. CASE Next
  BY <1>1, AnyStep, StepPreserves, ExpireStep DEF Next
<1>2. CASE UNCHANGED vars
  <2>1. Types' /\ \A c \in Clients : SeenExpired(c)'
    BY <1>2 DEF IInv, Types, vars, SeenExpired
  <2>2. Exclusion => Exclusion'
    BY <1>2 DEF vars, Exclusion, Patient, Using, Exists
  <2> QED BY <1>2, <2>1, <2>2 DEF IInv, vars
<1> QED BY <1>1, <1>2

-----------------------------------------------------------------------------
(* Theorems *)

\* Every variable keeps its type, and acquireLock asks for or steals only a lock it has
\* read as expired.
THEOREM TypeCorrect == SafeSpec => []TypeOK
<1>1. IInv => TypeOK
  BY DEF IInv, Types, SeenExpired, TypeOK, ClientRecord
<1> QED BY <1>1, InitInvariant, NextInvariant, PTL DEF SafeSpec

\* A step that changes which functions run is a step of the mutex
LEMMA MutexStep ==
  IInv /\ [Next]_vars => [config.expires = "never" => M!Next]_Critical
<1> SUFFICES ASSUME IInv, [Next]_vars, config.expires = "never", Critical' # Critical
             PROVE  M!Next
  OBVIOUS
<1>1. PICK c \in Clients : StepOf(c)
  <2>1. CASE Next
    BY <2>1, AnyStep, ExpireStep DEF Next
  <2>2. CASE UNCHANGED vars
    BY <2>2 DEF vars, Critical
  <2> QED BY <2>1, <2>2
<1>2. \A d \in Clients : d # c => (d \in Critical' <=> d \in Critical)
  BY <1>1, DetachedPC DEF StepOf, IInv, Critical
<1>3. Critical \subseteq Clients /\ Critical' \subseteq Clients /\ Critical \subseteq Using
  BY DEF Critical, Using
<1>4. CASE c \in Critical'
  <2>1. c \notin Critical
    BY <1>2, <1>3, <1>4
  <2>2. Critical = {}
    BY <1>1, <1>3, <1>4, <2>1 DEF StepOf, Allowed
  <2>3. Critical' = {c}
    BY <1>2, <1>3, <1>4, <2>2
  <2> QED BY <2>2, <2>3 DEF M!Next, M!Enter
<1>5. CASE c \notin Critical'
  <2>1. c \in Critical /\ Critical' = Critical \ {c}
    BY <1>2, <1>3, <1>5
  <2> QED BY <2>1 DEF M!Next, M!Leave
<1> QED BY <1>4, <1>5

\* While no lock expires, withLock implements the mutex: a client starts its function only
\* when no other client runs one, for any number of clients, crashes and heartbeats.
THEOREM MutualExclusion == SafeSpec => ImplementsMutex
<1>1. SafeSpec => []IInv
  BY InitInvariant, NextInvariant, PTL DEF SafeSpec
<1> QED BY <1>1, MutexStep, PTL DEF SafeSpec, ImplementsMutex

\* What MutualExclusion means for callers: while no lock expires, at most one client is in
\* the function it passed to withLock.  The run that lets locks expire shows the converse.
THEOREM AloneInFunction == SafeSpec => [](config.expires = "never" => StealExclusive)
<1>1. SafeSpec => []IInv
  BY InitInvariant, NextInvariant, PTL DEF SafeSpec
<1>2. IInv => (config.expires = "never" => StealExclusive)
  <2> SUFFICES ASSUME IInv, config.expires = "never" PROVE Cardinality(Critical) <= 1
    BY DEF StealExclusive
  <2>1. \A c \in Critical, d \in Critical : c = d
    BY DEF IInv, Exclusion, Critical, Using
  <2>2. CASE Critical = {}
    BY <2>2, FS_EmptySet
  <2>3. CASE Critical # {}
    <3>1. PICK c : Critical = {c}
      BY <2>1, <2>3
    <3>2. Cardinality(Critical) = 1
      BY <3>1, FS_Singleton
    <3> QED BY <3>2
  <2> QED BY <2>2, <2>3
<1> QED BY <1>1, <1>2, PTL
=============================================================================
