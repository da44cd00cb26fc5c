------------------------ MODULE PoolRecovery_proofs ------------------------
(***************************************************************************)
(* Proofs about WorkerHealthMonitor, and about the pool it recovers, for   *)
(* every number of workers, of overlapping checks, of tasks and orders and *)
(* every value of the limits.                                              *)
(*                                                                         *)
(* That a worker is restarted once at a time rests on a relation of two    *)
(* clocks: the time since a restart began (rested) is at most the time     *)
(* since the check that awaits the restart handler read its clock (stale), *)
(* hence below the cooldown as long as handlers settle within it.          *)
(*                                                                         *)
(* The pool with its monitor implements the monitor, so that all of this   *)
(* holds of it too; what the handlers do to the pool meanwhile is then     *)
(* followed from one await to the next.                                    *)
(***************************************************************************)
EXTENDS PoolRecovery, FiniteSetTheorems, TLAPS

CheckRecord == [pc : CheckPCs, stale : 0..MaxStall, visited : SUBSET Objects,
                obj : Objects \cup {NoObject}, task : Tasks \cup {NoTask}]

Awaits == {"zombie", "reassign", "restart"}

\* A count of missed heartbeats that has a heartbeat to count from is at most its age
CountedFrom(h) == h.heard => h.missed <= h.age

\* What a check that awaits a handler knows of the object it holds
HeldVisited == \A k \in Checks : check[k].pc \in Awaits => check[k].obj \in check[k].visited

RestartRecent ==
  \A k \in Checks : check[k].pc = "restart" => health[check[k].obj].rested <= check[k].stale

\* Handlers settle within the cooldown or checks do not overlap, and nobody resets a
\* worker by hand
Prompt == (MaxStall < Cooldown \/ NoOverlap) /\ ~config.manual

BusyRestarting ==
  Prompt => \A k \in Checks : check[k].pc = "restart" => health[check[k].obj].status = "restarting"

ZombieOrRestarted ==
  Prompt =>
    \A k \in Checks : check[k].pc \in {"zombie", "reassign"} =>
      \/ health[check[k].obj].status = "zombie"
      \/ health[check[k].obj].rested <= check[k].stale

IInv ==
  /\ TypeOK
  /\ \A o \in Objects : CountedFrom(health[o])
  /\ HeldVisited
  /\ RestartRecent
  /\ BusyRestarting
  /\ ZombieOrRestarted
  /\ OneRestartAtATime

-----------------------------------------------------------------------------
(* What the operators on worker states and checks preserve *)

\* Objects are pairs, and the mark for no object is none.
LEMMA ObjectsArePairs == \A o \in Objects : o # NoObject
<1> SUFFICES ASSUME NEW o \in Objects PROVE o # NoObject
  OBVIOUS
<1>1. PICK w \in Workers, n \in 1..MaxRegistrations : o = <<w, n>>
  BY DEF Objects
<1>2. <<w, n>> # <<>>
  OBVIOUS
<1> QED
  BY <1>1, <1>2 DEF NoObject

\* A check that examines an object counts at most Threshold missed heartbeats,
\* and at most as many as fit since the last heartbeat.
LEMMA MissedCounted ==
  ASSUME NEW h \in Health, CountedFrom(h), NEW s \in 0..MaxStall
  PROVE  /\ MissedSince(h, s) \in 0..Threshold
         /\ h.heard => MissedSince(h, s) <= h.age
BY MonitorAssumption DEF Health, CountedFrom, MissedSince, AtMost, MaxAge

\* Recording a heartbeat keeps the type and restarts the count.
LEMMA HeardType ==
  ASSUME NEW h \in Health, NEW t \in Tasks \cup {NoTask}, NEW d \in 0..MaxDelay
  PROVE  /\ Heard(h, t, d) \in Health /\ CountedFrom(Heard(h, t, d))
         /\ Heard(h, t, d).rested = h.rested
         /\ h.status = "zombie" => Heard(h, t, d).status = "zombie"
<1> DEFINE st == IF h.status = "degraded" THEN "healthy" ELSE h.status
           g == Heard(h, t, d)
<1>1. st \in Statuses /\ (h.status = "zombie" => st = "zombie")
  BY DEF Health, Statuses
<1>2. g = [h EXCEPT !.heard = TRUE, !.age = d, !.task = t, !.missed = 0, !.status = st]
  BY DEF Heard
<1> HIDE DEF st, g
<1>3. d \in 0..MaxAge /\ 0 \in 0..Threshold
  BY MonitorAssumption DEF MaxAge
<1>4. g \in Health
  BY <1>1, <1>2, <1>3 DEF Health
<1>5. g.missed = 0 /\ g.age = d /\ g.rested = h.rested /\ g.status = st
  BY <1>2 DEF Health
<1> QED
  BY <1>1, <1>4, <1>5, MonitorAssumption DEF g, CountedFrom

\* A recovered state has no heartbeat and keeps the time of its restart.
LEMMA RecoveredType ==
  ASSUME NEW h \in Health
  PROVE  Recovered(h) \in Health /\ CountedFrom(Recovered(h)) /\ Recovered(h).rested = h.rested
<1> DEFINE g == Recovered(h)
<1>1. 0 \in 0..MaxAge /\ 0 \in 0..Threshold /\ "healthy" \in Statuses
  BY MonitorAssumption DEF MaxAge, Statuses
<1>2. g \in Health /\ g.rested = h.rested
  BY <1>1 DEF Health, Recovered
<1>3. g.missed = 0 /\ g.age = 0
  BY DEF Health, Recovered
<1> QED
  BY <1>2, <1>3 DEF CountedFrom

\* A restart that may begin is counted within the budget.
LEMMA RestartingType ==
  ASSUME NEW h \in Health, CountedFrom(h), MayRestart(h)
  PROVE  Restarting(h) \in Health /\ CountedFrom(Restarting(h)) /\ Restarting(h).rested = 0
<1> DEFINE g == Restarting(h)
<1>1. /\ 0 \in 0..Cooldown /\ "restarting" \in Statuses
      /\ h.restarts + 1 \in 0..MaxRestarts
  BY MonitorAssumption DEF Health, MayRestart, Statuses
<1>2. g \in Health /\ g.rested = 0
  BY <1>1 DEF Health, Restarting
<1>3. g.heard = h.heard /\ g.missed = h.missed /\ g.age = h.age
  BY DEF Health, Restarting
<1> QED
  BY <1>2, <1>3 DEF CountedFrom

LEMMA NewType == NewHealth \in Health /\ CountedFrom(NewHealth)
BY MonitorAssumption DEF Health, NewHealth, CountedFrom, MaxAge, Statuses

\* The two ends of an await keep the type of a check and the object it holds.
LEMMA LoopType ==
  ASSUME NEW c \in CheckRecord
  PROVE  /\ Loop(c) \in CheckRecord /\ Loop(c).pc = "loop" /\ Loop(c).obj = NoObject
         /\ Loop(c).stale = c.stale /\ Loop(c).visited = c.visited
BY DEF CheckRecord, Loop, CheckPCs

LEMMA AwaitType ==
  ASSUME NEW c \in CheckRecord, NEW pc \in Awaits, NEW o \in Objects, NEW t \in Tasks \cup {NoTask}
  PROVE  /\ Await(c, pc, o, t) \in CheckRecord /\ Await(c, pc, o, t).pc = pc
         /\ Await(c, pc, o, t).obj = o
         /\ Await(c, pc, o, t).stale = c.stale /\ Await(c, pc, o, t).visited = c.visited
BY DEF CheckRecord, Await, CheckPCs, Awaits

-----------------------------------------------------------------------------
(* The steps *)

\* In a state of the invariant every check is a CheckRecord, and one that awaits a
\* handler holds an object it has visited.
LEMMA Holding ==
  ASSUME IInv
  PROVE  /\ check \in [Checks -> CheckRecord]
         /\ \A k \in Checks : check[k].pc \in Awaits =>
              /\ check[k].obj \in Objects
              /\ check[k].obj \in check[k].visited
         /\ \A k \in Checks : check[k].pc \notin Awaits <=> check[k].obj = NoObject
         /\ \A o \in Objects : health[o] \in Health /\ CountedFrom(health[o])
<1>1. check \in [Checks -> CheckRecord]
  BY DEF IInv, TypeOK, CheckRecord
<1>2. \A k \in Checks : check[k].pc \in CheckPCs /\ check[k].obj \in Objects \cup {NoObject}
  BY <1>1 DEF CheckRecord
<1>3. \A k \in Checks : check[k].pc \notin Awaits <=> check[k].obj = NoObject
  BY <1>2 DEF IInv, TypeOK, CheckPCs, Awaits
<1>4. \A o \in Objects : health[o] \in Health /\ CountedFrom(health[o])
  BY DEF IInv, TypeOK
<1> QED
  BY <1>1, <1>2, <1>3, <1>4 DEF IInv, HeldVisited

\* A step that changes one object and one check keeps the invariant if it keeps the
\* type of both, ages nothing, and leaves the check with no handler to await or
\* with what the invariant says of one that awaits it.
LEMMA OneCheckStep ==
  ASSUME IInv, UNCHANGED <<config, running, timer, live>>,
         NEW k \in Checks, NEW o \in Objects, NEW h \in Health, NEW c \in CheckRecord,
         health' = [health EXCEPT ![o] = h],
         check' = [check EXCEPT ![k] = c],
         CountedFrom(h),
         c.stale = check[k].stale,
         h.rested = health[o].rested \/ h.rested = 0,
         Prompt => \A j \in Checks \ {k} : check[j].obj = o =>
                     IF check[j].pc = "restart" THEN h.status = "restarting"
                     ELSE \/ h.status \in {"zombie", health[o].status}
                          \/ h.rested <= check[j].stale,
         \/ c.pc \notin Awaits /\ c.obj = NoObject
         \/ c.pc \in Awaits /\ c.obj = o /\ o \in c.visited,
         Prompt /\ c.pc \in {"zombie", "reassign"} => h.status = "zombie" \/ h.rested <= c.stale,
         c.pc = "restart" => /\ h.rested = 0 /\ h.status = "restarting"
                             /\ MaxStall < Cooldown => health[o].rested >= Cooldown
  PROVE  IInv'
<1>1. /\ check' \in [Checks -> CheckRecord] /\ check'[k] = c
      /\ \A j \in Checks : j # k => check'[j] = check[j]
  BY Holding
<1>2. /\ health' \in [Objects -> Health] /\ health'[o] = h
      /\ \A p \in Objects : p # o => health'[p] = health[p]
  BY DEF IInv, TypeOK
<1>3. c.pc \in Awaits => c.obj \in Objects
  OBVIOUS
<1>4. \A j \in Checks : (check'[j].obj = NoObject) <=> check'[j].pc \in {"idle", "loop"}
  <2>1. check'[k].obj = NoObject <=> check'[k].pc \in {"idle", "loop"}
    BY <1>1, ObjectsArePairs DEF CheckRecord, CheckPCs, Awaits
  <2> QED
    BY <2>1, <1>1 DEF IInv, TypeOK
<1>5. TypeOK'
  BY <1>1, <1>2, <1>4 DEF IInv, TypeOK, CheckRecord
<1>6. \A p \in Objects : CountedFrom(health'[p])
  BY <1>2 DEF IInv
<1>7. HeldVisited'
  BY <1>1 DEF IInv, HeldVisited, Awaits
<1>8. \A j \in Checks : check[j].stale \in 0..MaxStall
  BY Holding DEF CheckRecord
<1>9. h.rested <= health[o].rested
  BY <1>8, MonitorAssumption DEF IInv, TypeOK, Health
<1>10. RestartRecent'
  <2> SUFFICES ASSUME NEW j \in Checks, check'[j].pc = "restart"
               PROVE  health'[check'[j].obj].rested <= check'[j].stale
    BY DEF RestartRecent
  <2>1. CASE j = k
    BY <2>1, <1>1, <1>2, <1>8 DEF Awaits
  <2>2. CASE j # k
    <3>1. /\ check[j].pc = "restart" /\ check'[j] = check[j] /\ check[j].obj \in Objects
          /\ health[check[j].obj].rested <= check[j].stale
      BY <2>2, <1>1, Holding DEF IInv, RestartRecent, Awaits
    <3>2. health'[check[j].obj].rested <= health[check[j].obj].rested
      BY <3>1, <1>2, <1>9, Holding DEF Health
    <3>3. health'[check[j].obj].rested \in Nat /\ health[check[j].obj].rested \in Nat
      BY <3>1, <1>2, Holding DEF Health
    <3> QED
      BY <3>1, <3>2, <3>3, <1>8
  <2> QED
    BY <2>1, <2>2
<1>11. ZombieOrRestarted'
  <2> SUFFICES ASSUME Prompt, NEW j \in Checks, check'[j].pc \in {"zombie", "reassign"}
               PROVE  \/ health'[check'[j].obj].status = "zombie"
                      \/ health'[check'[j].obj].rested <= check'[j].stale
    BY DEF ZombieOrRestarted, Prompt
  <2>1. CASE j = k
    BY <2>1, <1>1, <1>2 DEF Awaits
  <2>2. CASE j # k /\ check[j].obj # o
    <3>1. check[j].obj \in Objects /\ check'[j] = check[j]
      BY <2>2, <1>1, Holding DEF Awaits
    <3> QED
      BY <2>2, <3>1, <1>2 DEF IInv, ZombieOrRestarted
  <2>3. CASE j # k /\ check[j].obj = o
    <3>1. check'[j] = check[j] /\ health'[check'[j].obj] = h
      BY <2>3, <1>1, <1>2
    <3>2. health[o].status = "zombie" \/ health[o].rested <= check[j].stale
      BY <2>3, <3>1 DEF IInv, ZombieOrRestarted
    <3>3. check[j].pc # "restart"
      BY <3>1
    <3>4. h.status \in {"zombie", health[o].status} \/ h.rested <= check[j].stale
      BY <2>3, <3>3
    <3>5. h.rested \in Nat /\ health[o].rested \in Nat /\ check[j].stale \in Nat
      BY <1>8, Holding DEF Health
    <3> QED
      BY <3>1, <3>2, <3>4, <3>5, <1>9
  <2> QED
    BY <2>1, <2>2, <2>3
<1>13. BusyRestarting'
  <2> SUFFICES ASSUME Prompt, NEW j \in Checks, check'[j].pc = "restart"
               PROVE  health'[check'[j].obj].status = "restarting"
    BY DEF BusyRestarting, Prompt
  <2>1. CASE j = k
    BY <2>1, <1>1, <1>2 DEF Awaits
  <2>2. CASE j # k /\ check[j].obj # o
    <3>1. check[j].obj \in Objects /\ check'[j] = check[j]
      BY <2>2, <1>1, Holding DEF Awaits
    <3> QED
      BY <2>2, <3>1, <1>2 DEF IInv, BusyRestarting
  <2>3. CASE j # k /\ check[j].obj = o
    BY <2>3, <1>1, <1>2
  <2> QED
    BY <2>1, <2>2, <2>3
<1>12. OneRestartAtATime'
  <2> SUFFICES ASSUME MaxStall < Cooldown, NEW p \in Objects, NEW i \in Checks, NEW j \in Checks,
                      check'[i].pc = "restart", check'[i].obj = p,
                      check'[j].pc = "restart", check'[j].obj = p, i # j
               PROVE  FALSE
    BY DEF OneRestartAtATime, BeingRestarted
  <2>1. \A n \in Checks : check[n].pc = "restart" => health[check[n].obj].rested < Cooldown
    <3> SUFFICES ASSUME NEW n \in Checks, check[n].pc = "restart"
                 PROVE  health[check[n].obj].rested < Cooldown
      OBVIOUS
    <3>1. health[check[n].obj].rested <= check[n].stale /\ check[n].obj \in Objects
      BY Holding DEF IInv, RestartRecent, Awaits
    <3>2. health[check[n].obj].rested \in Nat
      BY <3>1, Holding DEF Health
    <3> QED
      BY <3>1, <3>2, <1>8, MonitorAssumption
  <2>2. CASE i # k /\ j # k
    BY <2>2, <1>1 DEF IInv, OneRestartAtATime, BeingRestarted
  <2>3. ASSUME NEW n \in Checks, n # k, check'[n].pc = "restart", check'[n].obj = p,
               check'[k].pc = "restart", check'[k].obj = p
        PROVE  FALSE
    <3>1. p = o /\ health[o].rested >= Cooldown
      BY <2>3, <1>1 DEF Awaits
    <3>2. check[n].pc = "restart" /\ check[n].obj = o
      BY <2>3, <3>1, <1>1
    <3>3. health[o].rested \in Nat
      BY Holding DEF Health
    <3> QED
      BY <3>1, <3>2, <3>3, <2>1, MonitorAssumption
  <2> QED
    BY <2>2, <2>3
<1> QED
  BY <1>5, <1>6, <1>7, <1>10, <1>11, <1>12, <1>13 DEF IInv

\* A step that lets no check reach a handler keeps the invariant if it keeps types
\* and, of every object a check still holds, the time of its restart and its status,
\* a zombie's and a restarting one's at least.
LEMMA NoHandlerStep ==
  ASSUME IInv, config' = config, running' \in BOOLEAN, timer' \in 0..CheckEvery,
         live' \in [Workers -> 0..MaxRegistrations],
         check' \in [Checks -> CheckRecord],
         health' \in [Objects -> Health],
         \A o \in Objects : CountedFrom(health'[o]),
         \A j \in Checks : \/ check'[j] = check[j]
                           \/ check'[j].pc \notin Awaits /\ check'[j].obj = NoObject,
         \A j \in Checks : check'[j].pc \in Awaits =>
           /\ health'[check[j].obj].rested = health[check[j].obj].rested
           /\ Prompt /\ health[check[j].obj].status \in {"zombie", "restarting"} =>
                health'[check[j].obj].status = health[check[j].obj].status
  PROVE  IInv'
<1>1. \A j \in Checks : check'[j].pc \in Awaits => check'[j] = check[j]
  OBVIOUS
<1>2. \A j \in Checks : (check'[j].obj = NoObject) <=> check'[j].pc \in {"idle", "loop"}
  <2> SUFFICES ASSUME NEW j \in Checks
               PROVE  (check'[j].obj = NoObject) <=> check'[j].pc \in {"idle", "loop"}
    OBVIOUS
  <2>1. CASE check'[j] = check[j]
    BY <2>1 DEF IInv, TypeOK
  <2>2. CASE check'[j] # check[j]
    BY <2>2 DEF CheckRecord, CheckPCs, Awaits
  <2> QED
    BY <2>1, <2>2
<1>3. TypeOK'
  BY <1>2 DEF IInv, TypeOK, CheckRecord
<1>4. HeldVisited'
  BY <1>1 DEF IInv, HeldVisited
<1>5. RestartRecent'
  BY <1>1 DEF IInv, RestartRecent, Awaits
<1>6. BusyRestarting'
  BY <1>1 DEF IInv, BusyRestarting, Prompt, Awaits
<1>7. ZombieOrRestarted'
  BY <1>1 DEF IInv, ZombieOrRestarted, Prompt, Awaits
<1>8. OneRestartAtATime'
  BY <1>1 DEF IInv, OneRestartAtATime, BeingRestarted, Awaits
<1> QED
  BY <1>3, <1>4, <1>5, <1>6, <1>7, <1>8 DEF IInv

\* Restarting an object, or leaving it alone within the cooldown or without budget
LEMMA AttemptRestartStep ==
  ASSUME IInv, UNCHANGED <<config, running, timer, live>>,
         NEW k \in Checks, NEW o \in Objects, NEW h \in Health, NEW c \in CheckRecord,
         CountedFrom(h), h.rested = health[o].rested,
         c.stale = check[k].stale, o \in c.visited,
         Prompt => \/ h.status = health[o].status
                   \/ h.status = "zombie" /\ health[o].status # "restarting",
         AttemptRestart(k, c, o, h)
  PROVE  IInv'
<1>1. \A j \in Checks : check[j].stale \in 0..MaxStall
  BY Holding DEF CheckRecord
<1>2. CASE MayRestart(h)
  <2> DEFINE g == Restarting(h)
             d == IF "restart" \in config.handlers THEN Await(c, "restart", o, NoTask) ELSE Loop(c)
  <2>1. g \in Health /\ CountedFrom(g) /\ g.rested = 0 /\ g.status = "restarting"
    <3>1. g.status = "restarting"
      BY DEF Health, Restarting
    <3> QED
      BY <3>1, <1>2, RestartingType
  <2>2. /\ d \in CheckRecord /\ d.stale = check[k].stale /\ d.visited = c.visited
        /\ \/ d.pc = "restart" /\ d.obj = o
           \/ d.pc = "loop" /\ d.obj = NoObject
    <3>1. CASE "restart" \in config.handlers
      BY <3>1, AwaitType DEF Awaits
    <3>2. CASE "restart" \notin config.handlers
      BY <3>2, LoopType
    <3> QED
      BY <3>1, <3>2
  <2>3. health' = [health EXCEPT ![o] = g] /\ check' = [check EXCEPT ![k] = d]
    BY <1>2 DEF AttemptRestart
  <2>4. health[o].rested >= Cooldown
    BY <1>2 DEF MayRestart
  <2>5. \A j \in Checks : g.rested <= check[j].stale
    BY <1>1, <2>1
  <2>6. /\ d.pc \notin {"zombie", "reassign"}
        /\ \/ d.pc \notin Awaits /\ d.obj = NoObject
           \/ d.pc \in Awaits /\ d.obj = o /\ o \in d.visited
    BY <2>2 DEF Awaits
  <2> HIDE DEF g, d
  <2> QED
    BY <2>1, <2>2, <2>3, <2>4, <2>5, <2>6, OneCheckStep
<1>3. CASE ~MayRestart(h)
  <2> DEFINE d == Loop(c)
  <2>1. /\ d \in CheckRecord /\ d.stale = check[k].stale
        /\ d.pc = "loop" /\ d.obj = NoObject
    BY LoopType
  <2>2. health' = [health EXCEPT ![o] = h] /\ check' = [check EXCEPT ![k] = d]
    BY <1>3 DEF AttemptRestart
  <2>3. Prompt => \A j \in Checks : check[j].pc = "restart" /\ check[j].obj = o =>
          health[o].status = "restarting"
    BY DEF IInv, BusyRestarting
  <2> HIDE DEF d
  <2> QED
    BY <2>1, <2>2, <2>3, OneCheckStep DEF Awaits
<1> QED
  BY <1>2, <1>3

\* A zombie, or a state its check has found unchanged, goes on to the reassign
\* handler or to the restart.
LEMMA ReassignOrRestartStep ==
  ASSUME IInv, UNCHANGED <<config, running, timer, live>>,
         NEW k \in Checks, NEW o \in Objects, NEW h \in Health, NEW c \in CheckRecord,
         NEW t \in Tasks \cup {NoTask},
         CountedFrom(h), h.rested = health[o].rested,
         c.stale = check[k].stale, o \in c.visited,
         Prompt => \/ h.status = health[o].status
                   \/ h.status = "zombie" /\ health[o].status # "restarting",
         Prompt => h.status = "zombie" \/ h.rested <= c.stale,
         ReassignOrRestart(k, c, o, h, t)
  PROVE  IInv'
<1>1. CASE AttemptRestart(k, c, o, h)
  BY <1>1, AttemptRestartStep
<1>2. CASE /\ health' = [health EXCEPT ![o] = h]
           /\ check' = [check EXCEPT ![k] = Await(c, "reassign", o, t)]
  <2> DEFINE d == Await(c, "reassign", o, t)
  <2>1. /\ d \in CheckRecord /\ d.stale = check[k].stale /\ d.pc = "reassign"
        /\ d.pc \in Awaits /\ d.obj = o /\ o \in d.visited
    BY AwaitType DEF Awaits
  <2>2. Prompt => \A j \in Checks : check[j].pc = "restart" /\ check[j].obj = o =>
          health[o].status = "restarting"
    BY DEF IInv, BusyRestarting
  <2> HIDE DEF d
  <2> QED
    BY <1>2, <2>1, <2>2, OneCheckStep DEF d
<1> QED
  BY <1>1, <1>2 DEF ReassignOrRestart

LEMMA CheckWorkerHealthStep ==
  ASSUME IInv, NEW k \in Checks, NEW o \in Objects, CheckWorkerHealth(k, o)
  PROVE  IInv'
<1> DEFINE c == [check[k] EXCEPT !.visited = @ \cup {o}]
           h == [health[o] EXCEPT !.missed = MissedSince(health[o], check[k].stale)]
           z == [h EXCEPT !.status = "zombie"]
<1>1. /\ c \in CheckRecord /\ c.pc = "loop" /\ c.obj = NoObject /\ c.stale = check[k].stale
      /\ o \in c.visited
  <2>1. check[k] \in CheckRecord /\ check[k].pc = "loop"
    BY Holding DEF CheckWorkerHealth
  <2>2. check[k].obj = NoObject
    BY <2>1, Holding DEF Awaits
  <2> QED
    BY <2>1, <2>2 DEF CheckRecord
<1>2. /\ h \in Health /\ h.rested = health[o].rested /\ h.status = health[o].status
      /\ h.heard = health[o].heard /\ h.age = health[o].age /\ h.task = health[o].task
      /\ h.missed = MissedSince(health[o], check[k].stale)
  <2>1. health[o] \in Health /\ CountedFrom(health[o]) /\ check[k].stale \in 0..MaxStall
    BY Holding DEF CheckRecord
  <2>2. MissedSince(health[o], check[k].stale) \in 0..Threshold
    BY <2>1, MissedCounted
  <2> QED
    BY <2>1, <2>2 DEF Health
<1>3. CountedFrom(h)
  <2>1. health[o].heard => MissedSince(health[o], check[k].stale) <= health[o].age
    BY Holding, MissedCounted DEF CheckRecord
  <2> QED
    BY <1>2, <2>1 DEF CountedFrom
<1>4. UNCHANGED <<config, running, timer, live>>
  BY DEF CheckWorkerHealth
<1>5. Prompt => \A j \in Checks : check[j].pc = "restart" /\ check[j].obj = o =>
          health[o].status = "restarting"
  BY DEF IInv, BusyRestarting
<1>6. \/ check' = [check EXCEPT ![k] = c] /\ UNCHANGED health
      \/ health[o].status # "restarting" /\ HandleZombie(k, c, o, h)
      \/ /\ health[o].status # "restarting"
         /\ health' = [health EXCEPT ![o] =
              IF h.missed > 0 /\ h.status = "healthy" THEN [h EXCEPT !.status = "degraded"] ELSE h]
         /\ check' = [check EXCEPT ![k] = c]
  BY DEF CheckWorkerHealth
<1> HIDE DEF c, h
<1>7. /\ z \in Health /\ CountedFrom(z) /\ z.rested = health[o].rested /\ z.status = "zombie"
  BY <1>2, <1>3 DEF Health, Statuses, CountedFrom
<1> HIDE DEF z
<1>8. CASE check' = [check EXCEPT ![k] = c] /\ UNCHANGED health
  <2>1. health' = [health EXCEPT ![o] = health[o]]
    BY <1>8 DEF IInv, TypeOK
  <2> DEFINE g == health[o]
  <2>2. g \in Health /\ CountedFrom(g)
    BY Holding
  <2> HIDE DEF g
  <2> QED
    BY <1>1, <1>4, <1>5, <1>8, <2>1, <2>2, OneCheckStep DEF g, Awaits
<1>9. CASE health[o].status # "restarting" /\ HandleZombie(k, c, o, h)
  <2>1. CASE /\ health' = [health EXCEPT ![o] = z]
             /\ check' = [check EXCEPT ![k] = Await(c, "zombie", o, h.task)]
    <3> DEFINE d == Await(c, "zombie", o, h.task)
    <3>1. h.task \in Tasks \cup {NoTask}
      BY <1>2 DEF Health
    <3>2. /\ d \in CheckRecord /\ d.stale = check[k].stale /\ d.pc = "zombie"
          /\ d.pc \in Awaits /\ d.obj = o /\ o \in d.visited
      BY <1>1, <3>1, AwaitType DEF Awaits
    <3> HIDE DEF d
    <3> QED
      BY <1>4, <1>5, <1>7, <1>9, <2>1, <3>2, OneCheckStep DEF d
  <2>2. CASE ReassignOrRestart(k, c, o, z, h.task)
    <3>1. h.task \in Tasks \cup {NoTask}
      BY <1>2 DEF Health
    <3> QED
      BY <1>1, <1>4, <1>7, <1>9, <2>2, <3>1, ReassignOrRestartStep
  <2> QED
    BY <1>9, <2>1, <2>2 DEF HandleZombie, z
<1>10. CASE /\ health[o].status # "restarting"
            /\ health' = [health EXCEPT ![o] =
                 IF h.missed > 0 /\ h.status = "healthy" THEN [h EXCEPT !.status = "degraded"] ELSE h]
            /\ check' = [check EXCEPT ![k] = c]
  <2> DEFINE g == IF h.missed > 0 /\ h.status = "healthy" THEN [h EXCEPT !.status = "degraded"] ELSE h
  <2>1. /\ g \in Health /\ CountedFrom(g) /\ g.rested = health[o].rested
        /\ g.status # health[o].status => health[o].status = "healthy"
    <3>1. CASE h.missed > 0 /\ h.status = "healthy"
      BY <3>1, <1>2, <1>3 DEF Health, Statuses, CountedFrom
    <3>2. CASE ~(h.missed > 0 /\ h.status = "healthy")
      BY <3>2, <1>2, <1>3
    <3> QED
      BY <3>1, <3>2
  <2>2. health' = [health EXCEPT ![o] = g] /\ check' = [check EXCEPT ![k] = c]
    BY <1>10
  <2> HIDE DEF g
  <2>3. Prompt => \A j \in Checks \ {k} : check[j].obj = o =>
                     IF check[j].pc = "restart" THEN g.status = "restarting"
                     ELSE \/ g.status \in {"zombie", health[o].status}
                          \/ g.rested <= check[j].stale
    <3> SUFFICES ASSUME Prompt, NEW j \in Checks \ {k}, check[j].obj = o
                 PROVE  /\ check[j].pc # "restart"
                        /\ \/ g.status \in {"zombie", health[o].status}
                           \/ g.rested <= check[j].stale
      OBVIOUS
    <3>1. check[j].pc # "restart"
      BY <1>5, <1>10
    <3>2. check[j].pc \in Awaits
      BY Holding, ObjectsArePairs
    <3>3. health[o].status = "zombie" \/ health[o].rested <= check[j].stale
      BY <3>1, <3>2 DEF IInv, ZombieOrRestarted, Awaits
    <3> QED
      BY <3>1, <3>3, <2>1
  <2> QED
    BY <1>1, <1>4, <2>1, <2>2, <2>3, OneCheckStep DEF Awaits
<1> QED
  BY <1>6, <1>8, <1>9, <1>10

LEMMA ZombieHandledStep ==
  ASSUME IInv, NEW k \in Checks, ZombieHandled(k)
  PROVE  IInv'
<1> DEFINE o == check[k].obj
<1>1. /\ check[k] \in CheckRecord /\ check[k].task \in Tasks \cup {NoTask}
      /\ o \in Objects /\ o \in check[k].visited
      /\ health[o] \in Health /\ CountedFrom(health[o])
  BY Holding DEF ZombieHandled, Awaits, CheckRecord
<1>2. Prompt => health[o].status = "zombie" \/ health[o].rested <= check[k].stale
  BY DEF ZombieHandled, IInv, ZombieOrRestarted
<1>3. ReassignOrRestart(k, check[k], o, health[o], check[k].task)
  BY DEF ZombieHandled
<1>4. UNCHANGED <<config, running, timer, live>>
  BY DEF ZombieHandled
<1> HIDE DEF o
<1> QED
  BY <1>1, <1>2, <1>3, <1>4, ReassignOrRestartStep

LEMMA ReassignedStep ==
  ASSUME IInv, NEW k \in Checks, Reassigned(k)
  PROVE  IInv'
<1> DEFINE o == check[k].obj
<1>1. /\ check[k] \in CheckRecord
      /\ o \in Objects /\ o \in check[k].visited
      /\ health[o] \in Health /\ CountedFrom(health[o])
  BY Holding DEF Reassigned, Awaits
<1>2. AttemptRestart(k, check[k], o, health[o]) /\ UNCHANGED <<config, running, timer, live>>
  BY DEF Reassigned
<1> HIDE DEF o
<1> QED
  BY <1>1, <1>2, AttemptRestartStep

LEMMA RestartedStep ==
  ASSUME IInv, NEW k \in Checks, NEW success \in BOOLEAN, Restarted(k, success)
  PROVE  IInv'
<1> DEFINE o == check[k].obj
           c == Loop(check[k])
           h == IF success THEN Recovered(health[o]) ELSE [health[o] EXCEPT !.status = "zombie"]
<1>1. check[k].pc = "restart" /\ o \in Objects
  BY Holding DEF Restarted, Awaits
<1>2. health[o] \in Health /\ CountedFrom(health[o])
  BY <1>1, Holding
<1>3. h \in Health /\ CountedFrom(h) /\ h.rested = health[o].rested
  <2>1. CASE success
    BY <2>1, <1>2, RecoveredType
  <2>2. CASE ~success
    BY <2>2, <1>2 DEF Health, Statuses, CountedFrom
  <2> QED
    BY <2>1, <2>2
<1>4. c \in CheckRecord /\ c.pc = "loop" /\ c.obj = NoObject /\ c.stale = check[k].stale
  BY LoopType, Holding
<1>5. health' = [health EXCEPT ![o] = h] /\ check' = [check EXCEPT ![k] = c]
  BY DEF Restarted
<1>6. Prompt => \A j \in Checks \ {k} : check[j].obj = o =>
                  check[j].pc # "restart" /\ health[o].rested <= check[j].stale
  <2> SUFFICES ASSUME Prompt, NEW j \in Checks \ {k}, check[j].obj = o
               PROVE  check[j].pc # "restart" /\ health[o].rested <= check[j].stale
    OBVIOUS
  <2>1. check[j].pc \in Awaits
    BY <1>1, Holding, ObjectsArePairs
  <2>2. check[j].pc # "restart"
    BY <1>1 DEF IInv, OneRestartAtATime, BeingRestarted, Prompt, NoOverlap
  <2>3. health[o].status = "restarting"
    BY <1>1 DEF IInv, BusyRestarting
  <2> QED
    BY <2>1, <2>2, <2>3 DEF IInv, ZombieOrRestarted, Awaits
<1>7. UNCHANGED <<config, running, timer, live>>
  BY DEF Restarted
<1> HIDE DEF h, c, o
<1> QED
  BY <1>1, <1>3, <1>4, <1>5, <1>6, <1>7, OneCheckStep DEF Awaits

\* Time passes for every object and every check alike.
LEMMA AdvanceStep ==
  ASSUME IInv, Advance
  PROVE  IInv'
<1>1. \A k \in Checks : check[k] \in CheckRecord /\ (check[k].pc # "idle" => check[k].stale < MaxStall)
  BY Holding DEF Advance
<1>2. /\ check' \in [Checks -> CheckRecord]
      /\ \A k \in Checks : /\ check'[k].pc = check[k].pc /\ check'[k].obj = check[k].obj
                           /\ check'[k].visited = check[k].visited
                           /\ check[k].pc # "idle" => check'[k].stale = check[k].stale + 1
  <2> DEFINE d(k) == IF check[k].pc = "idle" THEN check[k] ELSE [check[k] EXCEPT !.stale = @ + 1]
  <2>1. ASSUME NEW k \in Checks
        PROVE  /\ d(k) \in CheckRecord
               /\ d(k).pc = check[k].pc /\ d(k).obj = check[k].obj
               /\ d(k).visited = check[k].visited
               /\ check[k].pc # "idle" => d(k).stale = check[k].stale + 1
    <3>1. CASE check[k].pc = "idle"
      BY <3>1, <1>1
    <3>2. CASE check[k].pc # "idle"
      <4>1. check[k].stale + 1 \in 0..MaxStall
        BY <3>2, <1>1, MonitorAssumption DEF CheckRecord
      <4> QED
        BY <3>2, <4>1, <1>1 DEF CheckRecord
    <3> QED
      BY <3>1, <3>2
  <2>2. check' = [k \in Checks |-> d(k)]
    BY DEF Advance
  <2> HIDE DEF d
  <2> QED
    BY <2>1, <2>2
<1>3. /\ health' \in [Objects -> Health]
      /\ \A o \in Objects : /\ CountedFrom(health'[o])
                            /\ health'[o].status = health[o].status
                            /\ health'[o].rested <= health[o].rested + 1
  <2> DEFINE a(o) == IF health[o].heard THEN AtMost(health[o].age + 1, MaxAge) ELSE 0
             b(o) == AtMost(health[o].rested + 1, Cooldown)
  <2>1. ASSUME NEW o \in Objects
        PROVE  /\ a(o) \in 0..MaxAge /\ (health[o].heard => health[o].missed <= a(o))
               /\ b(o) \in 0..Cooldown /\ b(o) <= health[o].rested + 1
    <3>1. health[o] \in Health /\ CountedFrom(health[o])
      BY Holding
    <3>2. health[o].age \in 0..MaxAge /\ health[o].rested \in 0..Cooldown /\ health[o].missed \in 0..Threshold
      BY <3>1 DEF Health
    <3>3. MaxAge \in Nat /\ Threshold <= MaxAge
      BY MonitorAssumption DEF MaxAge
    <3>4. health[o].heard => health[o].missed <= health[o].age
      BY <3>1 DEF CountedFrom
    <3>5. b(o) \in 0..Cooldown /\ b(o) <= health[o].rested + 1
      BY <3>2, MonitorAssumption DEF AtMost
    <3>6. CASE health[o].heard
      BY <3>2, <3>3, <3>4, <3>5, <3>6, MonitorAssumption DEF AtMost
    <3>7. CASE ~health[o].heard
      BY <3>3, <3>5, <3>7
    <3> QED
      BY <3>6, <3>7
  <2>2. health' = [o \in Objects |-> [health[o] EXCEPT !.age = a(o), !.rested = b(o)]]
    BY DEF Advance
  <2> HIDE DEF a, b
  <2>3. ASSUME NEW o \in Objects
        PROVE  /\ health'[o] \in Health /\ health'[o].heard = health[o].heard
               /\ health'[o].missed = health[o].missed /\ health'[o].age = a(o)
               /\ health'[o].rested = b(o) /\ health'[o].status = health[o].status
    BY <2>1, <2>2, Holding DEF Health
  <2>4. health' \in [Objects -> Health]
    BY <2>2, <2>3
  <2> QED
    BY <2>1, <2>3, <2>4 DEF CountedFrom
<1>4. TypeOK'
  <2>1. timer' \in 0..CheckEvery
    <3>3. timer \in 0..CheckEvery
      BY DEF IInv, TypeOK
    <3>1. CASE running
      <4>1. timer > 0 /\ timer' = timer - 1
        BY <3>1 DEF Advance
      <4> QED
        BY <4>1, <3>3, MonitorAssumption
    <3>2. CASE ~running
      <4>1. timer' = 0
        BY <3>2 DEF Advance
      <4> QED
        BY <4>1, MonitorAssumption
    <3> QED
      BY <3>1, <3>2
  <2>2. /\ config' \in Configs /\ running' \in BOOLEAN
        /\ live' \in [Workers -> 0..MaxRegistrations]
    BY DEF IInv, TypeOK, Advance
  <2>3. \A k \in Checks : (check'[k].obj = NoObject) <=> check'[k].pc \in {"idle", "loop"}
    BY <1>2 DEF IInv, TypeOK
  <2> QED
    BY <2>1, <2>2, <2>3, <1>2, <1>3 DEF TypeOK, CheckRecord
<1>5. HeldVisited'
  BY <1>2 DEF IInv, HeldVisited
<1>6. \A k \in Checks : check[k].pc \in Awaits =>
        /\ check[k].obj \in Objects /\ check'[k].stale = check[k].stale + 1
        /\ health[check[k].obj].rested <= check[k].stale =>
             health'[check[k].obj].rested <= check'[k].stale
  <2> SUFFICES ASSUME NEW k \in Checks, check[k].pc \in Awaits
               PROVE  /\ check[k].obj \in Objects /\ check'[k].stale = check[k].stale + 1
                      /\ health[check[k].obj].rested <= check[k].stale =>
                           health'[check[k].obj].rested <= check'[k].stale
    OBVIOUS
  <2>1. check[k].obj \in Objects /\ check'[k].stale = check[k].stale + 1
    BY <1>2, Holding DEF Awaits
  <2>2. health'[check[k].obj].rested <= health[check[k].obj].rested + 1
    BY <2>1, <1>3
  <2>3. /\ health'[check[k].obj].rested \in Nat /\ health[check[k].obj].rested \in Nat
        /\ check[k].stale \in Nat
    BY <2>1, <1>1, <1>3, Holding DEF Health, CheckRecord
  <2> QED
    BY <2>1, <2>2, <2>3
<1>7. RestartRecent'
  BY <1>2, <1>6 DEF IInv, RestartRecent, Awaits
<1>11. config' = config
  BY DEF Advance
<1>8. BusyRestarting'
  BY <1>2, <1>3, <1>6, <1>11 DEF IInv, BusyRestarting, Prompt, Awaits
<1>9. ZombieOrRestarted'
  <2> SUFFICES ASSUME Prompt, NEW k \in Checks, check[k].pc \in {"zombie", "reassign"}
               PROVE  \/ health'[check[k].obj].status = "zombie"
                      \/ health'[check[k].obj].rested <= check'[k].stale
    BY <1>2, <1>11 DEF ZombieOrRestarted, Prompt
  <2>1. \/ health[check[k].obj].status = "zombie"
        \/ health[check[k].obj].rested <= check[k].stale
    BY DEF IInv, ZombieOrRestarted
  <2> QED
    BY <2>1, <1>3, <1>6 DEF Awaits
<1>10. OneRestartAtATime'
  BY <1>2 DEF IInv, OneRestartAtATime, BeingRestarted
<1> QED
  BY <1>3, <1>4, <1>5, <1>7, <1>8, <1>9, <1>10 DEF IInv

-----------------------------------------------------------------------------
(* The steps that let no check reach a handler *)

LEMMA RegisterType ==
  ASSUME IInv, NEW W \in SUBSET Workers, Register(W)
  PROVE  /\ live' \in [Workers -> 0..MaxRegistrations]
         /\ \A w \in W : live'[w] \in 1..MaxRegistrations
<1>1. PICK new \in [{w \in W : live[w] = 0} -> 1..MaxRegistrations] :
        live' = [w \in Workers |-> IF w \in DOMAIN new THEN new[w] ELSE live[w]]
  BY DEF Register
<1>2. \A w \in Workers : live[w] \in 0..MaxRegistrations
  BY DEF IInv, TypeOK
<1>3. ASSUME NEW w \in Workers
      PROVE  live'[w] \in 0..MaxRegistrations /\ (w \in W => live'[w] \in 1..MaxRegistrations)
  <2>1. CASE w \in DOMAIN new
    BY <2>1, <1>1
  <2>2. CASE w \notin DOMAIN new
    BY <2>2, <1>1, <1>2
  <2> QED
    BY <2>1, <2>2
<1> QED
  BY <1>1, <1>3

LEMMA IdleType == IdleCheck \in CheckRecord /\ IdleCheck.pc = "idle" /\ IdleCheck.obj = NoObject
BY MonitorAssumption DEF IdleCheck, CheckRecord, CheckPCs

\* Beginning a check
LEMMA BeginCheckStep ==
  ASSUME IInv, NEW k \in Checks, BeginCheck(k), running' \in BOOLEAN, timer' \in 0..CheckEvery
  PROVE  IInv'
<1> DEFINE c == [IdleCheck EXCEPT !.pc = "loop"]
<1>1. c \in CheckRecord /\ c.pc = "loop" /\ c.obj = NoObject
  BY IdleType DEF CheckRecord, CheckPCs
<1>2. check' = [check EXCEPT ![k] = c] /\ config' = config /\ health' = health
  BY DEF BeginCheck
<1> HIDE DEF c
<1>3. /\ check' \in [Checks -> CheckRecord]
      /\ \A j \in Checks : \/ check'[j] = check[j]
                           \/ check'[j].pc \notin Awaits /\ check'[j].obj = NoObject
  BY <1>1, <1>2, Holding DEF Awaits
<1>4. live' \in [Workers -> 0..MaxRegistrations]
  BY RegisterType DEF BeginCheck
<1>5. health' \in [Objects -> Health] /\ \A o \in Objects : CountedFrom(health'[o])
  BY <1>2 DEF IInv, TypeOK
<1> QED
  BY <1>2, <1>3, <1>4, <1>5, NoHandlerStep

\* Objects that are forgotten are held by no check.
LEMMA ForgetStep ==
  ASSUME IInv, Forget, config' = config, running' \in BOOLEAN, timer' \in 0..CheckEvery,
         live' \in [Workers -> 0..MaxRegistrations],
         check' \in [Checks -> CheckRecord],
         \A j \in Checks : \/ check'[j] = check[j]
                           \/ check'[j].pc \notin Awaits /\ check'[j].obj = NoObject
  PROVE  IInv'
<1>1. \A o \in Objects : health'[o] \in {health[o], NewHealth}
  BY DEF Forget
<1>2. health' \in [Objects -> Health] /\ \A o \in Objects : CountedFrom(health'[o])
  <2>1. \A o \in Objects : health'[o] \in Health /\ CountedFrom(health'[o])
    BY <1>1, Holding, NewType
  <2>2. DOMAIN health' = Objects /\ health' = [o \in Objects |-> health'[o]]
    BY DEF Forget
  <2> QED
    BY <2>1, <2>2
<1>3. \A j \in Checks : check'[j].pc \in Awaits => health'[check[j].obj] = health[check[j].obj]
  <2> SUFFICES ASSUME NEW j \in Checks, check'[j].pc \in Awaits
               PROVE  health'[check[j].obj] = health[check[j].obj]
    OBVIOUS
  <2>1. check'[j] = check[j] /\ check[j].obj \in Objects /\ check[j].obj \in check[j].visited
    BY Holding
  <2>2. Referenced(check[j].obj)'
    BY <2>1 DEF Referenced
  <2> QED
    BY <2>1, <2>2 DEF Forget
<1> QED
  BY <1>2, <1>3, NoHandlerStep

\* A step on one object that no check takes
LEMMA ObjectStep ==
  ASSUME IInv, UNCHANGED <<config, running, timer, check>>,
         live' \in [Workers -> 0..MaxRegistrations],
         NEW o \in Objects, NEW h \in Health, CountedFrom(h), h.rested = health[o].rested,
         Prompt /\ health[o].status \in {"zombie", "restarting"} => h.status = health[o].status,
         health' = [health EXCEPT ![o] = h]
  PROVE  IInv'
<1>1. /\ health' \in [Objects -> Health]
      /\ \A p \in Objects : health'[p] = IF p = o THEN h ELSE health[p]
  BY DEF IInv, TypeOK
<1>2. \A p \in Objects : CountedFrom(health'[p])
  BY <1>1 DEF IInv
<1>3. check' \in [Checks -> CheckRecord] /\ check' = check
  BY Holding
<1>4. \A j \in Checks : check'[j].pc \in Awaits =>
           /\ health'[check[j].obj].rested = health[check[j].obj].rested
           /\ Prompt /\ health[check[j].obj].status \in {"zombie", "restarting"} =>
                health'[check[j].obj].status = health[check[j].obj].status
  BY <1>1, <1>3, Holding
<1>5. running' \in BOOLEAN /\ timer' \in 0..CheckEvery
  BY DEF IInv, TypeOK
<1> QED
  BY <1>1, <1>2, <1>3, <1>4, <1>5, NoHandlerStep

LEMMA WorkerSteps ==
  ASSUME IInv, NEW w \in Workers, WorkerStep(w)
  PROVE  IInv'
<1>1. CASE RegisterWorker(w)
  <2>1. live' \in [Workers -> 0..MaxRegistrations]
    BY <1>1, RegisterType DEF RegisterWorker
  <2>2. UNCHANGED <<config, running, timer, health, check>>
    BY <1>1 DEF RegisterWorker
  <2>3. /\ health' \in [Objects -> Health] /\ \A o \in Objects : CountedFrom(health'[o])
        /\ running' \in BOOLEAN /\ timer' \in 0..CheckEvery
    BY <2>2 DEF IInv, TypeOK
  <2> QED
    BY <2>1, <2>2, <2>3, Holding, NoHandlerStep
<1>2. CASE UnregisterWorker(w)
  <2>1. live' \in [Workers -> 0..MaxRegistrations] /\ Forget
        /\ UNCHANGED <<config, running, timer, check>>
    BY <1>2, MonitorAssumption DEF UnregisterWorker, IInv, TypeOK
  <2>2. running' \in BOOLEAN /\ timer' \in 0..CheckEvery
    BY <2>1 DEF IInv, TypeOK
  <2> QED
    BY <2>1, <2>2, Holding, ForgetStep
<1>3. CASE ResetWorkerHealth(w)
  <2> DEFINE o == <<w, live[w]>>
             h == Recovered(health[o])
  <2>1. o \in Objects
    BY <1>3 DEF ResetWorkerHealth, IInv, TypeOK, Objects
  <2>2. h \in Health /\ CountedFrom(h) /\ h.rested = health[o].rested
    BY <2>1, Holding, RecoveredType
  <2>3. ~Prompt
    BY <1>3 DEF ResetWorkerHealth, Prompt
  <2>4. /\ health' = [health EXCEPT ![o] = h]
        /\ UNCHANGED <<config, running, timer, live, check>>
    BY <1>3 DEF ResetWorkerHealth
  <2>5. live' \in [Workers -> 0..MaxRegistrations]
    BY <2>4 DEF IInv, TypeOK
  <2> HIDE DEF o, h
  <2> QED
    BY <2>1, <2>2, <2>3, <2>4, <2>5, ObjectStep
<1>4. ASSUME NEW t \in Tasks \cup {NoTask}, NEW d \in 0..MaxDelay, RecordHeartbeat(w, t, d)
      PROVE  IInv'
  <2> DEFINE o == <<w, live'[w]>>
             h == Heard(health[o], t, d)
  <2>1. live' \in [Workers -> 0..MaxRegistrations] /\ live'[w] \in 1..MaxRegistrations
    BY <1>4, RegisterType DEF RecordHeartbeat
  <2>2. o \in Objects
    BY <2>1 DEF Objects
  <2>3. /\ h \in Health /\ CountedFrom(h) /\ h.rested = health[o].rested
        /\ health[o].status \in {"zombie", "restarting"} => h.status = health[o].status
    <3>1. health[o] \in Health
      BY <2>2, Holding
    <3>2. h.status = IF health[o].status = "degraded" THEN "healthy" ELSE health[o].status
      BY <3>1 DEF Heard, Health
    <3> QED
      BY <3>1, <3>2, HeardType
  <2>4. health' = [health EXCEPT ![o] = h] /\ UNCHANGED <<config, running, timer, check>>
    BY <1>4 DEF RecordHeartbeat
  <2> HIDE DEF o, h
  <2> QED
    BY <2>1, <2>2, <2>3, <2>4, ObjectStep
<1> QED
  BY <1>1, <1>2, <1>3, <1>4 DEF WorkerStep

-----------------------------------------------------------------------------
(* The invariant *)

LEMMA InitIInv == Init => IInv
<1> SUFFICES ASSUME Init PROVE IInv
  OBVIOUS
<1>1. health \in [Objects -> Health] /\ \A o \in Objects : CountedFrom(health[o])
  BY NewType DEF Init
<1>2. check \in [Checks -> CheckRecord]
      /\ \A k \in Checks : check[k].pc = "idle" /\ check[k].obj = NoObject
  BY IdleType DEF Init
<1>3. TypeOK
  <2>1. config \in Configs /\ running = FALSE /\ timer = 0 /\ live = [w \in Workers |-> 0]
    BY DEF Init
  <2>2. 0 \in 0..CheckEvery /\ 0 \in 0..MaxRegistrations
    BY MonitorAssumption
  <2>3. live \in [Workers -> 0..MaxRegistrations] /\ running \in BOOLEAN
    BY <2>1, <2>2
  <2> QED
    BY <1>1, <1>2, <2>1, <2>2, <2>3 DEF TypeOK, CheckRecord
<1> QED
  BY <1>1, <1>2, <1>3 DEF IInv, HeldVisited, RestartRecent, BusyRestarting, ZombieOrRestarted,
                          OneRestartAtATime, BeingRestarted, Awaits

LEMMA StepIInv == IInv /\ [Next]_vars => IInv'
<1> SUFFICES ASSUME IInv, [Next]_vars PROVE IInv'
  OBVIOUS
<1>1. ASSUME NEW w \in Workers, WorkerStep(w) PROVE IInv'
  BY <1>1, WorkerSteps
<1>2. ASSUME NEW k \in Checks, Start(k) PROVE IInv'
  <2>1. BeginCheck(k) /\ running' \in BOOLEAN /\ timer' \in 0..CheckEvery
    BY <1>2, MonitorAssumption DEF Start
  <2> QED
    BY <2>1, BeginCheckStep
<1>3. ASSUME NEW k \in Checks, TimerFires(k) PROVE IInv'
  <2>1. BeginCheck(k) /\ running' \in BOOLEAN /\ timer' \in 0..CheckEvery
    BY <1>3, MonitorAssumption DEF TimerFires, IInv, TypeOK
  <2> QED
    BY <2>1, BeginCheckStep
<1>4. ASSUME NEW k \in Checks, CheckStep(k) PROVE IInv'
  <2>1. ASSUME EndCheck(k) PROVE IInv'
    <3>1. check' = [check EXCEPT ![k] = IdleCheck] /\ Forget /\ UNCHANGED <<config, running, timer, live>>
      BY <2>1 DEF EndCheck
    <3>2. running' \in BOOLEAN /\ timer' \in 0..CheckEvery /\ live' \in [Workers -> 0..MaxRegistrations]
      BY <3>1 DEF IInv, TypeOK
    <3>3. /\ check' \in [Checks -> CheckRecord]
          /\ \A j \in Checks : \/ check'[j] = check[j]
                               \/ check'[j].pc \notin Awaits /\ check'[j].obj = NoObject
      BY <3>1, IdleType, Holding DEF Awaits
    <3> QED
      BY <3>1, <3>2, <3>3, ForgetStep
  <2> QED
    BY <1>4, <2>1, CheckWorkerHealthStep, ZombieHandledStep, ReassignedStep, RestartedStep DEF CheckStep
<1>5. CASE Stop
  <2>1. /\ UNCHANGED <<config, live, health, check>> /\ running' \in BOOLEAN /\ timer' \in 0..CheckEvery
    <3>1. UNCHANGED <<config, live, health, check>> /\ running' = FALSE /\ timer' = 0
      BY <1>5 DEF Stop
    <3>2. 0 \in 0..CheckEvery
      BY MonitorAssumption
    <3> QED
      BY <3>1, <3>2
  <2>2. /\ health' \in [Objects -> Health] /\ \A o \in Objects : CountedFrom(health'[o])
        /\ live' \in [Workers -> 0..MaxRegistrations]
    BY <2>1 DEF IInv, TypeOK
  <2> QED
    BY <2>1, <2>2, Holding, NoHandlerStep
<1>6. CASE Reset
  <2>1. /\ UNCHANGED <<config, check>> /\ Forget /\ running' \in BOOLEAN /\ timer' \in 0..CheckEvery
        /\ live' \in [Workers -> 0..MaxRegistrations]
    <3>1. /\ UNCHANGED <<config, check>> /\ Forget /\ running' = FALSE /\ timer' = 0
          /\ live' = [w \in Workers |-> 0]
      BY <1>6 DEF Reset
    <3>2. 0 \in 0..CheckEvery /\ 0 \in 0..MaxRegistrations
      BY MonitorAssumption
    <3> QED
      BY <3>1, <3>2
  <2> QED
    BY <2>1, Holding, ForgetStep
<1>7. CASE Advance
  BY <1>7, AdvanceStep
<1>8. CASE UNCHANGED vars
  BY <1>8 DEF vars, IInv, TypeOK, HeldVisited, RestartRecent, BusyRestarting, ZombieOrRestarted,
              Prompt, OneRestartAtATime, BeingRestarted
<1> QED
  BY <1>1, <1>2, <1>3, <1>4, <1>5, <1>6, <1>7, <1>8 DEF Next

\* The inductive invariant holds in every reachable state.
THEOREM Invariance == Spec => []IInv
<1>1. Spec => SafeSpec
  BY DEF Spec
<1> QED
  BY <1>1, InitIInv, StepIInv, PTL DEF SafeSpec

\* Types hold, the restart budget among them: no registration of a worker is restarted
\* more than maxRestarts times, however many checks overlap.
THEOREM TypeCorrect == Spec => []TypeOK
<1>1. IInv => TypeOK
  BY DEF IInv
<1> QED
  BY <1>1, Invariance, PTL

\* A worker is restarted once at a time, for any number of overlapping checks, if
\* handlers settle within the cooldown.
THEOREM SingleRestart == Spec => []OneRestartAtATime
<1>1. IInv => OneRestartAtATime
  BY DEF IInv
<1> QED
  BY <1>1, Invariance, PTL

\* The step of a check that finds a zombie has counted Threshold intervals from the
\* last heartbeat.
LEMMA ExaminedStep ==
  ASSUME IInv, Next, NEW o \in Objects, Examines(o)
  PROVE  \E k \in Checks : CheckWorkerHealth(k, o)
<1>1. PICK k \in Checks : check[k].pc = "loop" /\ o \in check'[k].visited /\ o \notin check[k].visited
  BY DEF Examines
<1>2. check \in [Checks -> CheckRecord]
  BY Holding
<1>3. ASSUME NEW w \in Workers, WorkerStep(w) PROVE FALSE
  BY <1>1, <1>3 DEF WorkerStep, RegisterWorker, UnregisterWorker, ResetWorkerHealth, RecordHeartbeat
<1>4. ASSUME NEW j \in Checks, Start(j) \/ TimerFires(j) PROVE FALSE
  BY <1>1, <1>2, <1>4 DEF Start, TimerFires, BeginCheck, IdleCheck
<1>5. ASSUME NEW j \in Checks, CheckStep(j) PROVE CheckWorkerHealth(j, o)
  <2>1. ASSUME EndCheck(j) PROVE FALSE
    BY <1>1, <1>2, <2>1 DEF EndCheck, IdleCheck
  <2>2. ASSUME NEW success \in BOOLEAN, Restarted(j, success) PROVE FALSE
    BY <1>1, <1>2, <2>2 DEF Restarted
  <2>3. ASSUME ZombieHandled(j) \/ Reassigned(j) PROVE FALSE
    <3>1. check[j].pc # "loop"
      BY <2>3 DEF ZombieHandled, Reassigned
    <3>2. check'[k] = check[k]
      BY <1>1, <1>2, <2>3, <3>1 DEF ZombieHandled, Reassigned, ReassignOrRestart, AttemptRestart
    <3> QED
      BY <1>1, <3>2
  <2>4. ASSUME NEW p \in Objects, CheckWorkerHealth(j, p) PROVE p = o
    <3> DEFINE c == [check[j] EXCEPT !.visited = @ \cup {p}]
    <3>1. /\ c.visited = check[j].visited \cup {p} /\ c \in CheckRecord
      BY <1>2 DEF CheckRecord
    <3>2. \E d : /\ check' = [check EXCEPT ![j] = d]
                 /\ d.visited = c.visited
      <4>1. \A t : Await(c, "zombie", p, t).visited = c.visited /\ Await(c, "reassign", p, t).visited = c.visited
                   /\ Await(c, "restart", p, t).visited = c.visited /\ Loop(c).visited = c.visited
        BY DEF Await, Loop
      <4> HIDE DEF c
      <4> QED
        BY <2>4, <4>1 DEF CheckWorkerHealth, HandleZombie, ReassignOrRestart, AttemptRestart, c
    <3> HIDE DEF c
    <3> QED
      BY <1>1, <1>2, <3>1, <3>2
  <2> QED
    BY <1>5, <2>1, <2>2, <2>3, <2>4 DEF CheckStep
<1>6. ASSUME Stop \/ Reset PROVE FALSE
  BY <1>1, <1>6 DEF Stop, Reset
<1>7. ASSUME Advance PROVE FALSE
  BY <1>1, <1>2, <1>7 DEF Advance, CheckRecord
<1> QED
  BY <1>3, <1>4, <1>5, <1>6, <1>7 DEF Next

\* No worker is found a zombie less than Threshold intervals after its last heartbeat.
THEOREM ZombiesAreSilent == Spec => NoFalseZombie
<1>1. ASSUME IInv, [Next]_vars, NEW o \in Objects, Examines(o),
             health'[o].status \in {"zombie", "restarting"},
             health[o].status \in {"healthy", "degraded"}, health[o].heard
      PROVE  health[o].age >= Threshold
  <2>1. Next
    BY <1>1 DEF vars, Examines
  <2>2. PICK k \in Checks : CheckWorkerHealth(k, o)
    BY <1>1, <2>1, ExaminedStep
  <2> DEFINE m == MissedSince(health[o], check[k].stale)
             h == [health[o] EXCEPT !.missed = m]
  <2>3. health[o] \in Health /\ CountedFrom(health[o]) /\ check[k].stale \in 0..MaxStall
    BY <1>1, Holding DEF CheckRecord
  <2>4. m \in 0..Threshold /\ m <= health[o].age
    BY <1>1, <2>3, MissedCounted
  <2>5. h.missed = m /\ h.status = health[o].status
    BY <2>3 DEF Health
  <2>6. ~(m < Threshold)
    <3> SUFFICES ASSUME m < Threshold PROVE FALSE
      OBVIOUS
    <3>1. health' = [health EXCEPT ![o] =
              IF h.missed > 0 /\ h.status = "healthy" THEN [h EXCEPT !.status = "degraded"] ELSE h]
      BY <1>1, <2>2, <2>4, <2>5, MonitorAssumption DEF CheckWorkerHealth
    <3>2. health'[o] = h \/ health'[o] = [h EXCEPT !.status = "degraded"]
      BY <1>1, <3>1 DEF IInv, TypeOK
    <3>3. [h EXCEPT !.status = "degraded"].status = "degraded"
      BY <2>3 DEF Health
    <3> HIDE DEF h
    <3> QED
      BY <1>1, <2>5, <3>2, <3>3
  <2> HIDE DEF m, h
  <2>7. health[o].age \in Nat
    BY <2>3 DEF Health
  <2> QED
    BY <2>4, <2>6, <2>7, MonitorAssumption
<1>2. IInv /\ [Next]_vars =>
        [\A o \in Objects :
           /\ Examines(o)
           /\ health'[o].status \in {"zombie", "restarting"}
           /\ health[o].status \in {"healthy", "degraded"}
           => ~health[o].heard \/ health[o].age >= Threshold]_vars
  BY <1>1
<1>3. Spec => SafeSpec
  BY DEF Spec
<1> QED
  BY <1>2, <1>3, Invariance, PTL DEF SafeSpec, NoFalseZombie

\* Only a check that examines an object, or that has awaited its handlers and finds no
\* restart since, restarts it.
LEMMA RestartBegins ==
  ASSUME IInv, Next, MaxStall < Cooldown, ~config.manual, NEW o \in Objects,
         health'[o].restarts > health[o].restarts
  PROVE  health[o].status = "zombie" \/ Examines(o)
<1>1. \A p \in Objects : health[p] \in Health /\ health[p].restarts \in Nat
  BY Holding, MonitorAssumption DEF Health
<1>2. health \in [Objects -> Health] /\ check \in [Checks -> CheckRecord]
  BY Holding DEF IInv, TypeOK
<1>3. ~UNCHANGED health
  BY <1>1
<1>4. ASSUME Forget PROVE FALSE
  <2>1. health'[o] = health[o] \/ health'[o].restarts = 0
    BY <1>4 DEF Forget, NewHealth
  <2> QED
    BY <1>1, <2>1
<1>5. ASSUME NEW p \in Objects, NEW h, h.restarts = health[p].restarts,
             health' = [health EXCEPT ![p] = h]
      PROVE  FALSE
  BY <1>1, <1>2, <1>5
<1>6. ASSUME NEW w \in Workers, WorkerStep(w) PROVE FALSE
  <2>1. ASSUME ResetWorkerHealth(w) PROVE FALSE
    BY <2>1 DEF ResetWorkerHealth
  <2>2. ASSUME NEW t \in Tasks \cup {NoTask}, NEW d \in 0..MaxDelay, RecordHeartbeat(w, t, d)
        PROVE  FALSE
    <3> DEFINE p == <<w, live'[w]>>
    <3>1. p \in Objects
      BY <2>2, RegisterType DEF RecordHeartbeat, Objects
    <3>2. Heard(health[p], t, d).restarts = health[p].restarts
      BY <3>1, <1>1 DEF Heard, Health
    <3>3. health' = [health EXCEPT ![p] = Heard(health[p], t, d)]
      BY <2>2 DEF RecordHeartbeat
    <3> HIDE DEF p
    <3> QED
      BY <3>1, <3>2, <3>3, <1>5
  <2> QED
    BY <1>3, <1>4, <1>6, <2>1, <2>2 DEF WorkerStep, RegisterWorker, UnregisterWorker
<1>7. ASSUME NEW k \in Checks, Start(k) \/ TimerFires(k) PROVE FALSE
  BY <1>3, <1>7 DEF Start, TimerFires, BeginCheck
<1>8. ASSUME NEW k \in Checks, CheckStep(k) PROVE health[o].status = "zombie" \/ Examines(o)
  <2>1. ASSUME NEW p \in Objects, CheckWorkerHealth(k, p) PROVE Examines(o)
    <3> DEFINE c == [check[k] EXCEPT !.visited = @ \cup {p}]
    <3>1. /\ c.visited = check[k].visited \cup {p} /\ p \notin check[k].visited /\ check[k].pc = "loop"
      BY <1>2, <2>1 DEF CheckRecord, CheckWorkerHealth
    <3>5. \E g : health' = [health EXCEPT ![p] = g] \/ UNCHANGED health
      BY <2>1 DEF CheckWorkerHealth, HandleZombie, ReassignOrRestart, AttemptRestart
    <3>2. \E d : check' = [check EXCEPT ![k] = d] /\ d.visited = c.visited
      <4>1. \A t : Await(c, "zombie", p, t).visited = c.visited /\ Await(c, "reassign", p, t).visited = c.visited
                   /\ Await(c, "restart", p, t).visited = c.visited /\ Loop(c).visited = c.visited
        BY DEF Await, Loop
      <4> HIDE DEF c
      <4> QED
        BY <2>1, <4>1 DEF CheckWorkerHealth, HandleZombie, ReassignOrRestart, AttemptRestart, c
    <3> HIDE DEF c
    <3>3. p = o
      BY <1>1, <1>2, <3>5
    <3>4. o \in check'[k].visited \ check[k].visited
      BY <1>2, <3>1, <3>2, <3>3
    <3> QED
      BY <3>1, <3>4 DEF Examines
  <2>2. ASSUME ZombieHandled(k) \/ Reassigned(k) PROVE health[o].status = "zombie"
    <3> DEFINE p == check[k].obj
    <3>1. p \in Objects /\ check[k].pc \in {"zombie", "reassign"}
      BY <2>2, Holding DEF ZombieHandled, Reassigned, Awaits
    <3>2. \/ health' = [health EXCEPT ![p] = health[p]]
          \/ MayRestart(health[p]) /\ \E g : health' = [health EXCEPT ![p] = g]
      BY <2>2 DEF ZombieHandled, Reassigned, ReassignOrRestart, AttemptRestart
    <3>3. health[p].status = "zombie" \/ health[p].rested <= check[k].stale
      BY <3>1 DEF IInv, ZombieOrRestarted, Prompt
    <3>4. check[k].stale \in 0..MaxStall /\ health[p].rested \in Nat
      BY <3>1, <1>1, <1>2 DEF CheckRecord, Health
    <3> HIDE DEF p
    <3>5. MayRestart(health[p]) /\ p = o
      BY <1>1, <1>2, <3>1, <3>2
    <3> QED
      BY <3>3, <3>4, <3>5, MonitorAssumption DEF MayRestart
  <2>3. ASSUME NEW success \in BOOLEAN, Restarted(k, success) PROVE FALSE
    <3> DEFINE p == check[k].obj
               h == IF success THEN Recovered(health[p]) ELSE [health[p] EXCEPT !.status = "zombie"]
    <3>1. p \in Objects
      BY <2>3, Holding DEF Restarted, Awaits
    <3>2. h.restarts = health[p].restarts
      BY <3>1, <1>1 DEF Recovered, Health
    <3>3. health' = [health EXCEPT ![p] = h]
      BY <2>3 DEF Restarted
    <3> HIDE DEF p, h
    <3> QED
      BY <3>1, <3>2, <3>3, <1>5
  <2>4. ASSUME EndCheck(k) PROVE FALSE
    BY <1>4, <2>4 DEF EndCheck
  <2> QED
    BY <1>8, <2>1, <2>2, <2>3, <2>4 DEF CheckStep
<1>9. ASSUME Stop \/ Reset PROVE FALSE
  BY <1>3, <1>4, <1>9 DEF Stop, Reset
<1>10. ASSUME Advance PROVE FALSE
  <2>1. health'[o].restarts = health[o].restarts
    BY <1>1, <1>10 DEF Advance, Health
  <2> QED
    BY <1>1, <2>1
<1> QED
  BY <1>6, <1>7, <1>8, <1>9, <1>10 DEF Next

\* No worker is restarted that was restarted while its check awaited a handler.
THEOREM RestartsAreOfZombies == Spec => OnlyZombiesRestarted
<1>1. ASSUME IInv, [Next]_vars, MaxStall < Cooldown, ~config.manual, NEW o \in Objects,
             health'[o].restarts > health[o].restarts
      PROVE  health[o].status = "zombie" \/ Examines(o)
  <2>1. health[o].restarts \in Nat
    <3>1. health[o] \in Health
      BY <1>1, Holding
    <3> QED
      BY <3>1, MonitorAssumption DEF Health
  <2>2. Next
    BY <1>1, <2>1 DEF vars
  <2> QED
    BY <1>1, <2>2, RestartBegins
<1>2. IInv /\ [Next]_vars =>
        [MaxStall < Cooldown /\ ~config.manual =>
           \A o \in Objects : health'[o].restarts > health[o].restarts =>
             health[o].status = "zombie" \/ Examines(o)]_vars
  BY <1>1
<1>3. Spec => SafeSpec
  BY DEF Spec
<1> QED
  BY <1>2, <1>3, Invariance, PTL DEF SafeSpec, OnlyZombiesRestarted

-----------------------------------------------------------------------------
(* The operators on the memory of the pool *)

Sound(s) == s \in P!Pool /\ \A w \in Workers : P!Consistent(s.workers[w])

\* t knows the orders of s, and its results
Grown(s, t) ==
  t.orders = s.orders /\ s.completed \subseteq t.completed /\ s.failed \subseteq t.failed

\* t is s but for worker w, which is r in t, the queue and new results
Moved(s, t, w, r) ==
  /\ Sound(t) /\ Grown(s, t)
  /\ t.workers[w] = r /\ \A v \in Workers : v # w => t.workers[v] = s.workers[v]

LEMMA SlotsAreWorkers == P!Slots = Workers
BY RecoveryAssumption DEF P!Slots

\* What a sound pool is made of
LEMMA SoundParts ==
  ASSUME NEW s, Sound(s)
  PROVE  /\ s.workers \in [Workers -> P!WorkerInfo]
         /\ s.queue \subseteq Tasks
         /\ s.completed \subseteq P!Orders /\ s.failed \subseteq P!Orders
         /\ \A w \in Workers : /\ s.workers[w].issue \in Tasks \cup {NoTask}
                               /\ s.workers[w].status = "idle" => s.workers[w].issue = NoTask
<1>1. s \in P!Pool
  BY DEF Sound
<1>2. s.workers \in [Workers -> P!WorkerInfo] /\ s.queue \subseteq Tasks
      /\ s.completed \subseteq P!Orders /\ s.failed \subseteq P!Orders
  BY <1>1, SlotsAreWorkers DEF P!Pool
<1>3. \A w \in Workers : /\ s.workers[w].issue \in Tasks \cup {NoTask}
                         /\ s.workers[w].status = "idle" => s.workers[w].issue = NoTask
  BY <1>2 DEF Sound, P!WorkerInfo, P!Consistent
<1> QED
  BY <1>2, <1>3

\* A set of worker ids that is not empty has a least element.
LEMMA LeastWorker ==
  ASSUME NEW S \in SUBSET Workers, S # {}
  PROVE  \E x \in S : \A y \in S : x <= y
<1> DEFINE Upto(x) == 1..x
           T == {Upto(x) : x \in S}
<1>1. Workers = 1..MaxWorkers /\ MaxWorkers \in Nat
  BY RecoveryAssumption
<1>2. T \subseteq FiniteSubsetsOf(1..MaxWorkers)
  <2>1. \A x \in S : Upto(x) \subseteq 1..MaxWorkers /\ IsFiniteSet(Upto(x))
    BY <1>1, FS_Interval
  <2> QED
    BY <2>1 DEF FiniteSubsetsOf
<1>3. PICK m \in T : \A u \in T : <<u, m>> \notin StrictSubsetOrdering(1..MaxWorkers)
  <2> HIDE DEF Upto
  <2>1. T # {}
    OBVIOUS
  <2>2. IsWellFoundedOn(StrictSubsetOrdering(1..MaxWorkers), FiniteSubsetsOf(1..MaxWorkers))
    BY FS_StrictSubsetOrderingWellFounded
  <2> HIDE DEF T
  <2> QED
    BY <1>2, <2>1, <2>2, WFMin
<1>4. PICK x \in S : m = Upto(x)
  BY <1>3
<1>5. ASSUME NEW y \in S, y < x PROVE FALSE
  <2>1. /\ Upto(y) \subseteq Upto(x) /\ Upto(x) # Upto(y)
        /\ Upto(y) \subseteq 1..MaxWorkers /\ Upto(x) \subseteq 1..MaxWorkers
    BY <1>1, <1>5
  <2>2. Upto(y) \in T
    BY <1>5
  <2> HIDE DEF Upto
  <2> QED
    BY <1>3, <1>4, <2>1, <2>2 DEF StrictSubsetOrdering
<1> QED
  BY <1>1, <1>5

\* The operations on one worker
LEMMA AssignMoves ==
  ASSUME NEW s, Sound(s), NEW w \in Workers, NEW i \in Tasks
  PROVE  /\ Moved(s, P!Assign(s, w, i), w, [status |-> "working", issue |-> i])
         /\ P!Assign(s, w, i).queue = s.queue \ {i}
<1> DEFINE r == [status |-> "working", issue |-> i]
           u == [s.workers EXCEPT ![w] = r]
           t == P!Assign(s, w, i)
<1>1. r \in P!WorkerInfo /\ P!Consistent(r)
  BY MonitorAssumption DEF P!WorkerInfo, P!Consistent
<1>2. s \in P!Pool /\ s.workers \in [Workers -> P!WorkerInfo]
  BY SoundParts DEF Sound
<1>3. t = [s EXCEPT !.workers = u, !.queue = @ \ {i}]
  BY <1>2, SlotsAreWorkers DEF P!Assign, P!Pool
<1> HIDE DEF r
<1>4. /\ u \in [Workers -> P!WorkerInfo] /\ u[w] = r
      /\ \A v \in Workers : v # w => u[v] = s.workers[v]
      /\ \A v \in Workers : P!Consistent(u[v])
  BY <1>1, <1>2 DEF Sound
<1> HIDE DEF u
<1>5. /\ t \in P!Pool /\ t.workers = u /\ t.queue = s.queue \ {i}
      /\ t.orders = s.orders /\ t.completed = s.completed /\ t.failed = s.failed
  BY <1>2, <1>3, <1>4, SlotsAreWorkers DEF P!Pool
<1> HIDE DEF t
<1> QED
  BY <1>4, <1>5 DEF Moved, Grown, Sound, r, t

LEMMA ReleaseMoves ==
  ASSUME NEW s, Sound(s), NEW w \in Workers
  PROVE  Moved(s, P!Release(s, w), w, P!Idle) /\ P!Release(s, w).queue = s.queue
<1> DEFINE u == [s.workers EXCEPT ![w] = P!Idle]
           t == P!Release(s, w)
<1>1. P!Idle \in P!WorkerInfo /\ P!Consistent(P!Idle)
  BY DEF P!Idle, P!WorkerInfo, P!Consistent
<1>2. s \in P!Pool /\ s.workers \in [Workers -> P!WorkerInfo]
  BY SoundParts DEF Sound
<1>3. t = [s EXCEPT !.workers = u]
  BY <1>2, SlotsAreWorkers DEF P!Release, P!Pool
<1>4. /\ u \in [Workers -> P!WorkerInfo] /\ u[w] = P!Idle
      /\ \A v \in Workers : v # w => u[v] = s.workers[v]
      /\ \A v \in Workers : P!Consistent(u[v])
  BY <1>1, <1>2 DEF Sound
<1> HIDE DEF u
<1>5. /\ t \in P!Pool /\ t.workers = u /\ t.queue = s.queue
      /\ t.orders = s.orders /\ t.completed = s.completed /\ t.failed = s.failed
  BY <1>2, <1>3, <1>4, SlotsAreWorkers DEF P!Pool
<1> HIDE DEF t
<1> QED
  BY <1>4, <1>5 DEF Moved, Grown, Sound, t

LEMMA MarkMoves ==
  ASSUME NEW s, Sound(s), NEW w \in Workers
  PROVE  /\ Moved(s, P!MarkZombie(s, w), w, [s.workers[w] EXCEPT !.status = "error"])
         /\ P!MarkZombie(s, w).queue = s.queue
<1> DEFINE r == [s.workers[w] EXCEPT !.status = "error"]
           u == [s.workers EXCEPT ![w] = r]
           t == P!MarkZombie(s, w)
<1>2. s \in P!Pool /\ s.workers \in [Workers -> P!WorkerInfo] /\ s.workers[w] \in P!WorkerInfo
  BY SoundParts DEF Sound
<1>1. r \in P!WorkerInfo /\ P!Consistent(r)
  BY <1>2 DEF P!WorkerInfo, P!Consistent
<1>3. t = [s EXCEPT !.workers = u]
  BY <1>2, SlotsAreWorkers DEF P!MarkZombie, P!Pool
<1> HIDE DEF r
<1>4. /\ u \in [Workers -> P!WorkerInfo] /\ u[w] = r
      /\ \A v \in Workers : v # w => u[v] = s.workers[v]
      /\ \A v \in Workers : P!Consistent(u[v])
  BY <1>1, <1>2 DEF Sound
<1> HIDE DEF u
<1>5. /\ t \in P!Pool /\ t.workers = u /\ t.queue = s.queue
      /\ t.orders = s.orders /\ t.completed = s.completed /\ t.failed = s.failed
  BY <1>2, <1>3, <1>4, SlotsAreWorkers DEF P!Pool
<1> HIDE DEF t
<1> QED
  BY <1>4, <1>5 DEF Moved, Grown, Sound, r, t

LEMMA CompleteMoves ==
  ASSUME NEW s, Sound(s), NEW w \in Workers, NEW id \in P!Orders, NEW success \in BOOLEAN
  PROVE  LET t == P!Complete(s, w, id, success)
         IN  Moved(s, t, w, P!Idle) /\ t.queue = s.queue /\ id \in t.completed \cup t.failed
<1> DEFINE u == [s.workers EXCEPT ![w] = P!Idle]
           t == P!Complete(s, w, id, success)
           c == IF success THEN s.completed \cup {id} ELSE s.completed
           f == IF success THEN s.failed ELSE s.failed \cup {id}
<1>1. P!Idle \in P!WorkerInfo /\ P!Consistent(P!Idle)
  BY DEF P!Idle, P!WorkerInfo, P!Consistent
<1>2. s \in P!Pool /\ s.workers \in [Workers -> P!WorkerInfo]
  BY SoundParts DEF Sound
<1>3. /\ c \subseteq P!Orders /\ f \subseteq P!Orders /\ id \in c \cup f
      /\ s.completed \subseteq c /\ s.failed \subseteq f
  BY SoundParts
<1>4. \/ c = s.completed /\ t = [s EXCEPT !.workers = u, !.failed = f]
      \/ f = s.failed /\ t = [s EXCEPT !.workers = u, !.completed = c]
  BY <1>2, SlotsAreWorkers DEF P!Complete, P!Pool
<1>5. /\ u \in [Workers -> P!WorkerInfo] /\ u[w] = P!Idle
      /\ \A v \in Workers : v # w => u[v] = s.workers[v]
      /\ \A v \in Workers : P!Consistent(u[v])
  BY <1>1, <1>2 DEF Sound
<1> HIDE DEF u, c, f
<1>6. /\ t \in P!Pool /\ t.workers = u /\ t.queue = s.queue
      /\ t.orders = s.orders /\ t.completed = c /\ t.failed = f
  BY <1>2, <1>3, <1>4, <1>5, SlotsAreWorkers DEF P!Pool
<1> HIDE DEF t
<1> QED
  BY <1>3, <1>5, <1>6 DEF Moved, Grown, Sound, t

LEMMA FailMoves ==
  ASSUME NEW s, Sound(s), NEW w \in Workers, NEW id \in P!Orders
  PROVE  LET t == P!Fail(s, w, id)
         IN  /\ Moved(s, t, w, [s.workers[w] EXCEPT !.status = "error"])
             /\ t.queue = s.queue /\ id \in t.failed
<1> DEFINE r == [s.workers[w] EXCEPT !.status = "error"]
           u == [s.workers EXCEPT ![w] = r]
           t == P!Fail(s, w, id)
           f == s.failed \cup {id}
<1>1. s \in P!Pool /\ s.workers \in [Workers -> P!WorkerInfo] /\ s.workers[w] \in P!WorkerInfo
  BY SoundParts DEF Sound
<1>2. r \in P!WorkerInfo /\ P!Consistent(r)
  BY <1>1 DEF P!WorkerInfo, P!Consistent
<1>3. t = [s EXCEPT !.workers = u, !.failed = f]
  BY <1>1, SlotsAreWorkers DEF P!Fail, P!Pool
<1>4. f \subseteq P!Orders /\ s.failed \subseteq f /\ id \in f
  BY SoundParts
<1> HIDE DEF r, f
<1>5. /\ u \in [Workers -> P!WorkerInfo] /\ u[w] = r
      /\ \A v \in Workers : v # w => u[v] = s.workers[v]
      /\ \A v \in Workers : P!Consistent(u[v])
  BY <1>1, <1>2 DEF Sound
<1> HIDE DEF u
<1>6. /\ t \in P!Pool /\ t.workers = u /\ t.queue = s.queue
      /\ t.orders = s.orders /\ t.completed = s.completed /\ t.failed = f
  BY <1>1, <1>3, <1>4, <1>5, SlotsAreWorkers DEF P!Pool
<1> HIDE DEF t
<1> QED
  BY <1>4, <1>5, <1>6 DEF Moved, Grown, Sound, r, t

LEMMA EnqueueKeeps ==
  ASSUME NEW s, Sound(s), NEW i \in Tasks
  PROVE  LET t == P!Enqueue(s, i)
         IN  /\ Sound(t) /\ Grown(s, t) /\ t.workers = s.workers
             /\ t.queue = s.queue \cup {i}
BY DEF Sound, Grown, P!Enqueue, P!Pool

\* A task that is reassigned is queued, or goes to a worker that was idle.
LEMMA ReassignPlaces ==
  ASSUME NEW s, Sound(s), NEW i \in Tasks, P!HasOrder(s, i)
  PROVE  \/ P!Reassign(s, i) = P!Enqueue(s, i)
         \/ \E w \in Workers : s.workers[w].status = "idle" /\ P!Reassign(s, i) = P!Assign(s, w, i)
<1>1. CASE P!IdleWorkers(s) = {}
  BY <1>1 DEF P!Reassign
<1>2. CASE P!IdleWorkers(s) # {}
  <2> DEFINE w == CHOOSE x \in P!AvailableSlots(s) : TRUE
  <2>1. P!IdleWorkers(s) \in SUBSET Workers
    BY SlotsAreWorkers DEF P!IdleWorkers
  <2>2. \E x \in P!IdleWorkers(s) : \A y \in P!IdleWorkers(s) : x <= y
    BY <1>2, <2>1, LeastWorker
  <2>3. P!AvailableSlots(s) # {}
    BY <2>2 DEF P!AvailableSlots
  <2>4. w \in P!IdleWorkers(s)
    BY <2>3 DEF P!AvailableSlots
  <2>5. P!Reassign(s, i) = P!Assign(s, w, i)
    BY <1>2 DEF P!Reassign
  <2> HIDE DEF w
  <2> QED
    BY <2>1, <2>4, <2>5 DEF P!IdleWorkers
<1> QED
  BY <1>1, <1>2

-----------------------------------------------------------------------------
(* The invariant of the pool with its monitor *)

\* Nobody unregisters a worker, so what a check has met is in use
VisitedAreLive == \A k \in Checks : \A o \in check[k].visited : IsLive(o)

SilentUnlessLive == \A o \in Objects : ~IsLive(o) => health[o].task = NoTask

Known(t) == t = NoTask \/ P!HasOrder(pool, t)

TasksKnown ==
  /\ \A w \in Workers : Known(Issue(w))
  /\ \A o \in Objects : Known(health[o].task)
  /\ \A k \in Checks : Known(check[k].task)

\* A task reported for object o is the one its worker has, or done
Current(o, t) == t \in {NoTask, Issue(o[1])} \/ Finished(pool, t)

Recovers(k) == check[k].pc \in {"zombie", "reassign"}

\* ... as long as its worker was not restarted
TasksCurrent ==
  /\ \A o \in Objects : health[o].restarts = 0 => Current(o, health[o].task)
  /\ \A k \in Checks : Recovers(k) /\ health[check[k].obj].restarts = 0 =>
       Current(check[k].obj, check[k].task)

\* Where task i of the worker of object o may be after reassignTask, and in a pool s
Placed(s, o, i) ==
  \/ i \in s.queue
  \/ \E v \in Workers \ {o[1]} : s.workers[v].issue = i
  \/ Finished(s, i)
  \/ health[o].restarts > 0 /\ s.workers[o[1]] = [status |-> "working", issue |-> i]

PassedOn ==
  NoOverlap => \A k \in Checks : check[k].pc = "reassign" =>
                 check[k].task # NoTask /\ Placed(pool, check[k].obj, check[k].task)

\* A worker that is out of the pool, though its task did not fail
Marked(w) == pool.workers[w].status = "error" /\ ~Failed(Issue(w))

RestartedUnmarked ==
  Prompt =>
    \A k \in Checks, w \in Workers :
      check[k].pc = "restart" /\ check[k].obj[1] = w => ~Marked(w)

MarkedRecover ==
  Prompt => \A w \in Workers : Marked(w) =>
    live[w] # 0 /\ health[<<w, live[w]>>].status \in {"zombie", "restarting"}

RInv ==
  /\ IInv
  /\ config = Wired
  /\ Sound(pool)
  /\ VisitedAreLive
  /\ SilentUnlessLive
  /\ TasksKnown
  /\ TasksCurrent
  /\ PassedOn
  /\ RestartedUnmarked
  /\ MarkedRecover

-----------------------------------------------------------------------------
(* The pool and its monitor: the kinds of steps *)

LiveKept == \A w \in Workers : live[w] # 0 => live'[w] = live[w]

\* Worker w keeps what it has, or had no task that is not done
Calm(w) ==
  \/ pool'.workers[w] = pool.workers[w]
  \/ /\ Issue(w) = NoTask \/ Finished(pool', Issue(w))
     /\ pool'.workers[w].status # "error" \/ Failed(Issue(w))'

QueueServed ==
  \A i \in pool.queue :
    \/ i \in pool'.queue
    \/ \E w \in Workers : /\ Issue(w) = NoTask
                          /\ pool'.workers[w] = [status |-> "working", issue |-> i]

\* The pool goes on without marking or releasing a worker
PoolCalm ==
  /\ Sound(pool') /\ Grown(pool, pool')
  /\ \A w \in Workers : Calm(w) /\ Known(Issue(w))'
  /\ QueueServed

SameCheck(k) ==
  /\ check'[k].pc = check[k].pc /\ check'[k].obj = check[k].obj
  /\ check'[k].task = check[k].task /\ check'[k].visited = check[k].visited

NoHandler(k) ==
  /\ check'[k].pc \notin Awaits
  /\ check'[k].task \in {check[k].task, NoTask}
  /\ \A o \in check'[k].visited : o \in check[k].visited \/ IsLive(o)

\* A check may have restarted object o
MayRecover(o) == \E k \in Checks : check[k].pc = "restart" /\ check[k].obj = o

\* No handler is invoked
Quiet ==
  /\ pool' = pool /\ LiveKept
  /\ \A k \in Checks : SameCheck(k) \/ NoHandler(k)
  /\ \A o \in Objects :
       /\ \/ health'[o].task \in {health[o].task, NoTask}
          \/ health'[o].task = Issue(o[1]) /\ IsLive(o)'
       /\ IsLive(o) =>
            /\ health'[o].restarts = health[o].restarts
            /\ health[o].status \in {"zombie", "restarting"} =>
                 health'[o].status \in {"zombie", "restarting"} \/ MayRecover(o)

\* Check k goes on to a handler for object o, and nothing else happens to the monitor
Invoking(k, o, handler) ==
  /\ live' = live
  /\ IsLive(o)
  /\ check'[k].pc = handler /\ check'[k].obj = o
  /\ \A p \in check'[k].visited : p \in check[k].visited \cup {o}
  /\ \A j \in Checks : j # k => check'[j] = check[j]
  /\ \A p \in Objects : p # o => health'[p] = health[p]
  /\ health'[o].task = health[o].task

Marks(k, o) ==
  /\ Invoking(k, o, "zombie")
  /\ check'[k].task = health[o].task
  /\ health[o].status # "restarting" /\ health'[o].status = "zombie"
  /\ health'[o].restarts = health[o].restarts
  /\ pool' = P!MarkZombie(pool, o[1])

PassesOn(k, o) ==
  /\ Invoking(k, o, "reassign")
  /\ check[k].pc = "zombie" /\ check[k].obj = o
  /\ check[k].task # NoTask /\ check'[k].task = check[k].task
  /\ health' = health
  /\ pool' = P!Reassign(pool, check[k].task)

Restarts(k, o) ==
  /\ Invoking(k, o, "restart")
  /\ Recovers(k) /\ check[k].obj = o
  /\ check'[k].task = NoTask
  /\ health'[o].status = "restarting" /\ health'[o].restarts > 0
  /\ pool' = P!Release(pool, o[1])

\* A step that registers workers keeps the objects of the others.
LEMMA RegisterKeepsLive ==
  ASSUME RInv, NEW W \in SUBSET Workers, Register(W)
  PROVE  LiveKept
<1>1. PICK new \in [{w \in W : live[w] = 0} -> 1..MaxRegistrations] :
        live' = [w \in Workers |-> IF w \in DOMAIN new THEN new[w] ELSE live[w]]
  BY DEF Register
<1> QED
  BY <1>1 DEF LiveKept

\* A live object stays live.
LEMMA StaysLive ==
  ASSUME LiveKept, NEW o \in Objects, IsLive(o)
  PROVE  IsLive(o)'
<1>1. o[1] \in Workers /\ o[2] \in 1..MaxRegistrations
  BY DEF Objects
<1>2. live[o[1]] # 0
  BY <1>1, MonitorAssumption DEF IsLive
<1> QED
  BY <1>1, <1>2 DEF LiveKept, IsLive

LEMMA WiredHandlers == RInv => config.handlers = Handlers /\ ~config.manual
BY DEF RInv, Wired

\* The owner of the pool neither marks nor releases a worker.
LEMMA OwnerSteps ==
  ASSUME RInv,
         \/ \E i \in Tasks : Submit(i) \/ StartNext(i)
         \/ \E w \in Workers, id \in P!Orders :
              FailWork(w, id) \/ \E success \in BOOLEAN : CompleteWork(w, id, success)
  PROVE  UNCHANGED vars /\ PoolCalm
<1>1. /\ Sound(pool) /\ \A v \in Workers : Known(Issue(v))
  BY DEF RInv, TasksKnown
<1>2. \A v \in Workers : Issue(v) \in Tasks \cup {NoTask}
      /\ (pool.workers[v].status = "idle" => Issue(v) = NoTask)
  BY <1>1, SoundParts DEF Issue
<1>3. ASSUME NEW i \in Tasks, Submit(i) PROVE UNCHANGED vars /\ PoolCalm
  <2>1. pool' = P!Enqueue(pool, i) /\ UNCHANGED vars
    BY <1>3 DEF Submit
  <2>2. /\ Sound(pool') /\ Grown(pool, pool') /\ pool'.workers = pool.workers
        /\ pool'.queue = pool.queue \cup {i}
    BY <1>1, <2>1, EnqueueKeeps
  <2>3. \A v \in Workers : Known(Issue(v))'
    BY <1>1, <2>2 DEF Known, Issue, P!HasOrder, Grown
  <2> QED
    BY <2>1, <2>2, <2>3 DEF PoolCalm, Calm, QueueServed
<1>4. ASSUME NEW i \in Tasks, StartNext(i) PROVE UNCHANGED vars /\ PoolCalm
  <2>1. PICK v \in P!AvailableSlots(pool) : pool' = P!Assign(pool, v, i)
    BY <1>4 DEF StartNext
  <2>2. v \in Workers /\ pool.workers[v].status = "idle"
    BY <2>1, SlotsAreWorkers DEF P!AvailableSlots, P!IdleWorkers
  <2>3. P!HasOrder(pool, i) /\ UNCHANGED vars
    BY <1>4 DEF StartNext
  <2>4. /\ Moved(pool, pool', v, [status |-> "working", issue |-> i])
        /\ pool'.queue = pool.queue \ {i}
    BY <1>1, <2>1, <2>2, AssignMoves
  <2>5. Issue(v) = NoTask
    BY <1>2, <2>2
  <2>6. \A u \in Workers : Known(Issue(u))'
    <3> SUFFICES ASSUME NEW u \in Workers PROVE Known(Issue(u))'
      OBVIOUS
    <3>1. pool'.workers[u].issue = i \/ pool'.workers[u].issue = pool.workers[u].issue
      BY <2>4 DEF Moved
    <3> QED
      BY <1>1, <2>3, <2>4, <3>1 DEF Known, Issue, P!HasOrder, Moved, Grown
  <2>7. \A u \in Workers : Calm(u)
    BY <2>4, <2>5 DEF Calm, Moved
  <2> QED
    BY <2>2, <2>3, <2>4, <2>5, <2>6, <2>7 DEF PoolCalm, QueueServed, Moved
<1>5. ASSUME NEW w \in Workers, NEW r, Moved(pool, pool', w, r), pool'.queue = pool.queue,
             UNCHANGED vars,
             r.issue \in {NoTask, Issue(w)}, Finished(pool', Issue(w)),
             r.status # "error" \/ Failed(Issue(w))'
      PROVE  UNCHANGED vars /\ PoolCalm
  <2>1. \A u \in Workers : Known(Issue(u))'
    <3> SUFFICES ASSUME NEW u \in Workers PROVE Known(Issue(u))'
      OBVIOUS
    <3>1. pool'.workers[u].issue \in {NoTask, pool.workers[u].issue}
      BY <1>5 DEF Moved, Issue
    <3> QED
      BY <1>1, <1>5, <3>1 DEF Known, Issue, P!HasOrder, Moved, Grown
  <2>2. \A u \in Workers : Calm(u)
    BY <1>5 DEF Calm, Moved
  <2> QED
    BY <1>5, <2>1, <2>2 DEF PoolCalm, QueueServed, Moved
<1>6. ASSUME NEW w \in Workers, NEW id \in P!Orders, FailWork(w, id)
      PROVE  UNCHANGED vars /\ PoolCalm
  <2> DEFINE r == [pool.workers[w] EXCEPT !.status = "error"]
  <2>1. /\ pool' = P!Fail(pool, w, id) /\ UNCHANGED vars
        /\ pool.orders[id] = Issue(w)
    BY <1>6 DEF FailWork, OrderOf
  <2>2. Moved(pool, pool', w, r) /\ pool'.queue = pool.queue /\ id \in pool'.failed
    BY <1>1, <2>1, FailMoves
  <2>3. r.issue = Issue(w)
    BY <1>1, SoundParts DEF Issue, P!WorkerInfo
  <2> HIDE DEF r
  <2>4. pool'.workers[w] = r /\ pool'.orders[id] = Issue(w)
    BY <2>1, <2>2 DEF Moved, Grown
  <2>5. Finished(pool', Issue(w)) /\ Failed(Issue(w))'
    BY <2>2, <2>3, <2>4 DEF Finished, Failed, OrderOf, Issue
  <2> QED
    BY <1>5, <2>1, <2>2, <2>3, <2>5
<1>7. ASSUME NEW w \in Workers, NEW id \in P!Orders, NEW success \in BOOLEAN,
             CompleteWork(w, id, success)
      PROVE  UNCHANGED vars /\ PoolCalm
  <2>1. /\ pool' = P!Complete(pool, w, id, success) /\ UNCHANGED vars
        /\ pool.orders[id] = Issue(w)
    BY <1>7 DEF CompleteWork, OrderOf
  <2>2. /\ Moved(pool, pool', w, P!Idle) /\ pool'.queue = pool.queue
        /\ id \in pool'.completed \cup pool'.failed
    BY <1>1, <2>1, CompleteMoves
  <2>3. Finished(pool', Issue(w))
    BY <2>1, <2>2 DEF Finished, Moved, Grown
  <2>4. P!Idle.issue = NoTask /\ P!Idle.status = "idle"
    BY DEF P!Idle
  <2> QED
    BY <1>5, <2>1, <2>2, <2>3, <2>4
<1> QED
  BY <1>3, <1>4, <1>6, <1>7

\* A heartbeat reports the task of the worker.
LEMMA HeartbeatQuiet ==
  ASSUME RInv, NEW w \in Workers, NEW d \in 0..MaxDelay, Heartbeat(w, d)
  PROVE  RecordHeartbeat(w, Issue(w), d) /\ Issue(w) \in Tasks \cup {NoTask} /\ Quiet
<1>1. Issue(w) \in Tasks \cup {NoTask}
  BY SoundParts DEF RInv, Issue
<1>2. RecordHeartbeat(w, Issue(w), d) /\ pool' = pool
  BY DEF Heartbeat
<1>3. Register({w}) /\ check' = check
  BY <1>2 DEF RecordHeartbeat
<1>4. IInv
  BY DEF RInv
<1>5. LiveKept /\ live'[w] \in 1..MaxRegistrations
  BY <1>3, <1>4, RegisterType, RegisterKeepsLive
<1>6. PICK o \in Objects : o = <<w, live'[w]>>
  BY <1>5 DEF Objects
<1>7. o[1] = w /\ live'[o[1]] = o[2]
  BY <1>6
<1> DEFINE h == Heard(health[o], Issue(w), d)
<1>8. health' = [health EXCEPT ![o] = h] /\ health[o] \in Health
  BY <1>2, <1>4, <1>6, Holding DEF RecordHeartbeat
<1>9. /\ h.task = Issue(w) /\ h.restarts = health[o].restarts
      /\ health[o].status \in {"zombie", "restarting"} => h.status = health[o].status
  BY <1>8 DEF Heard, Health
<1> HIDE DEF h
<1>10. \A p \in Objects : health'[p] = IF p = o THEN h ELSE health[p]
  BY <1>4, <1>6, <1>8 DEF IInv, TypeOK
<1>11. ASSUME NEW p \in Objects
       PROVE  /\ \/ health'[p].task = health[p].task
                 \/ health'[p].task = Issue(p[1]) /\ live'[p[1]] = p[2]
              /\ health'[p].restarts = health[p].restarts
              /\ health[p].status \in {"zombie", "restarting"} =>
                   health'[p].status = health[p].status
  <2>1. CASE p = o
    BY <2>1, <1>7, <1>9, <1>10
  <2>2. CASE p # o
    BY <2>2, <1>10
  <2> QED
    BY <2>1, <2>2
<1>12. \A k \in Checks : SameCheck(k)
  BY <1>3 DEF SameCheck
<1>13. Quiet
  BY <1>2, <1>5, <1>11, <1>12 DEF Quiet, IsLive
<1> QED
  BY <1>1, <1>2, <1>13

\* The timer, start, stop and time invoke no handler.
LEMMA MonitorQuiet ==
  ASSUME RInv, MonitorStep
  PROVE  Quiet /\ Next
<1>1. IInv /\ pool' = pool
  BY DEF RInv, MonitorStep
<1>2. check \in [Checks -> CheckRecord] /\ \A o \in Objects : health[o] \in Health
  BY <1>1, Holding
<1>3. ASSUME NEW k \in Checks, Start(k) \/ TimerFires(k) PROVE Quiet
  <2>1. BeginCheck(k)
    BY <1>3 DEF Start, TimerFires
  <2> DEFINE c == [IdleCheck EXCEPT !.pc = "loop"]
  <2>2. c.pc = "loop" /\ c.task = NoTask /\ c.visited = {}
    BY DEF IdleCheck
  <2>3. check' = [check EXCEPT ![k] = c] /\ health' = health /\ Register(Workers)
    BY <2>1 DEF BeginCheck
  <2> HIDE DEF c
  <2>4. \A j \in Checks : SameCheck(j) \/ NoHandler(j)
    BY <1>2, <2>2, <2>3 DEF SameCheck, NoHandler, Awaits
  <2> QED
    BY <1>1, <2>3, <2>4, RegisterKeepsLive DEF Quiet
<1>6. ASSUME LiveKept, \A k \in Checks : SameCheck(k),
             \A o \in Objects : /\ health'[o].task = health[o].task
                               /\ health'[o].restarts = health[o].restarts
                               /\ health'[o].status = health[o].status
      PROVE  Quiet
  BY <1>1, <1>6 DEF Quiet
<1>4. ASSUME Stop PROVE Quiet
  <2>1. live' = live /\ health' = health /\ check' = check
    BY <1>4 DEF Stop
  <2>2. LiveKept /\ \A k \in Checks : SameCheck(k)
    BY <2>1 DEF LiveKept, SameCheck
  <2> QED
    BY <1>1, <1>6, <2>1, <2>2
<1>5. ASSUME Advance PROVE Quiet
  <2>1. \A k \in Checks : SameCheck(k)
    BY <1>2, <1>5 DEF Advance, SameCheck, CheckRecord
  <2>2. \A o \in Objects : /\ health'[o].task = health[o].task
                           /\ health'[o].restarts = health[o].restarts
                           /\ health'[o].status = health[o].status
    BY <1>2, <1>5 DEF Advance, Health
  <2>3. LiveKept
    BY <1>5 DEF Advance, LiveKept
  <2> QED
    BY <1>1, <1>6, <2>1, <2>2, <2>3
<1> QED
  BY <1>3, <1>4, <1>5 DEF MonitorStep, Next

\* The step of a check invokes no handler, or one that changes the pool accordingly.
LEMMA RecoverQuiet ==
  ASSUME RInv, NEW k \in Checks, Recover(k), check'[k].pc \notin Awaits,
         NEW c, check' = [check EXCEPT ![k] = c], c.task \in {check[k].task, NoTask},
         \A o \in c.visited : o \in check[k].visited \/ IsLive(o),
         live' = live,
         \A o \in Objects :
           /\ health'[o].task \in {health[o].task, NoTask}
           /\ IsLive(o) =>
                /\ health'[o].restarts = health[o].restarts
                /\ health[o].status \in {"zombie", "restarting"} =>
                     health'[o].status \in {"zombie", "restarting"} \/ MayRecover(o)
  PROVE  Quiet
<1>1. pool' = pool
  BY DEF Recover, Invokes, Handlers, Awaits
<1>2. check \in [Checks -> CheckRecord]
  BY Holding DEF RInv
<1>3. check'[k] = c /\ \A j \in Checks : j # k => check'[j] = check[j]
  BY <1>2
<1>4. \A j \in Checks : SameCheck(j) \/ NoHandler(j)
  BY <1>3 DEF SameCheck, NoHandler
<1>5. LiveKept
  BY DEF LiveKept
<1> QED
  BY <1>1, <1>4, <1>5 DEF Quiet

LEMMA RestartKind ==
  ASSUME RInv, NEW k \in Checks, Recover(k), live' = live,
         check[k].pc \in {"zombie", "reassign"},
         AttemptRestart(k, check[k], check[k].obj, health[check[k].obj])
  PROVE  Quiet \/ \E o \in Objects : Restarts(k, o)
<1> DEFINE o == check[k].obj
<1>1. /\ IInv /\ config.handlers = Handlers
      /\ \A j \in Checks : \A p \in check[j].visited : IsLive(p)
  BY WiredHandlers DEF RInv, VisitedAreLive
<1>2. /\ check \in [Checks -> CheckRecord] /\ check[k] \in CheckRecord
      /\ o \in Objects /\ o \in check[k].visited /\ health[o] \in Health
  BY <1>1, Holding DEF Awaits
<1>3. IsLive(o)
  BY <1>1, <1>2
<1>4. CASE MayRestart(health[o])
  <2> DEFINE d == Await(check[k], "restart", o, NoTask)
             g == Restarting(health[o])
  <2>1. /\ d.pc = "restart" /\ d.obj = o /\ d.visited = check[k].visited /\ d.task = NoTask
    BY <1>2 DEF Await, CheckRecord
  <2>2. g.status = "restarting" /\ g.restarts > 0 /\ g.task = health[o].task
    BY <1>2, MonitorAssumption DEF Restarting, Health
  <2>3. /\ health' = [health EXCEPT ![o] = g] /\ check' = [check EXCEPT ![k] = d]
    BY <1>1, <1>4 DEF AttemptRestart, Handlers
  <2> HIDE DEF d, g
  <2>4. /\ check'[k] = d /\ \A j \in Checks : j # k => check'[j] = check[j]
        /\ health'[o] = g /\ \A p \in Objects : p # o => health'[p] = health[p]
    BY <1>1, <1>2, <2>3 DEF IInv, TypeOK
  <2>5. pool' = P!Release(pool, o[1])
    BY <2>1, <2>4 DEF Recover, Invokes, Handlers, Worker
  <2>6. Invoking(k, o, "restart")
    BY <1>2, <1>3, <2>1, <2>2, <2>4 DEF Invoking
  <2>7. Restarts(k, o)
    BY <2>1, <2>2, <2>4, <2>5, <2>6 DEF Restarts, Recovers
  <2> QED
    BY <1>2, <2>7
<1>5. CASE ~MayRestart(health[o])
  <2> DEFINE d == Loop(check[k])
  <2>1. d.pc = "loop" /\ d.task = NoTask /\ d.visited = check[k].visited
    BY <1>2 DEF Loop, CheckRecord
  <2>2. health' = [health EXCEPT ![o] = health[o]] /\ check' = [check EXCEPT ![k] = d]
    BY <1>5 DEF AttemptRestart
  <2> HIDE DEF d
  <2>3. \A p \in Objects : health'[p] = health[p]
    BY <1>1, <2>2 DEF IInv, TypeOK
  <2>4. check'[k].pc \notin Awaits
    BY <1>2, <2>1, <2>2 DEF Awaits
  <2> QED
    BY <2>1, <2>2, <2>3, <2>4, RecoverQuiet
<1> QED
  BY <1>4, <1>5

LEMMA RecoverKinds ==
  ASSUME RInv, NEW k \in Checks, Recover(k)
  PROVE  Quiet \/ \E o \in Objects : Marks(k, o) \/ PassesOn(k, o) \/ Restarts(k, o)
<1>1. /\ IInv /\ config.handlers = Handlers
      /\ \A j \in Checks : \A p \in check[j].visited : IsLive(p)
  BY WiredHandlers DEF RInv, VisitedAreLive
<1>2. /\ check \in [Checks -> CheckRecord] /\ check[k] \in CheckRecord
      /\ \A o \in Objects : health[o] \in Health
      /\ health \in [Objects -> Health]
  BY <1>1, Holding DEF IInv, TypeOK
<1>3. ASSUME NEW o \in Objects, CheckWorkerHealth(k, o)
      PROVE  Quiet \/ Marks(k, o)
  <2> DEFINE c == [check[k] EXCEPT !.visited = @ \cup {o}]
             h == [health[o] EXCEPT !.missed = MissedSince(health[o], check[k].stale)]
             z == [h EXCEPT !.status = "zombie"]
             g == IF h.missed > 0 /\ h.status = "healthy" THEN [h EXCEPT !.status = "degraded"] ELSE h
             d == Await(c, "zombie", o, h.task)
  <2>1. live' = live /\ IsLive(o) /\ check[k].pc = "loop"
    BY <1>3 DEF CheckWorkerHealth
  <2>2. c.pc = "loop" /\ c.task = check[k].task /\ c.visited = check[k].visited \cup {o}
    BY <1>2, <2>1 DEF CheckRecord
  <2>3. /\ h.task = health[o].task /\ h.restarts = health[o].restarts /\ h.status = health[o].status
    BY <1>2 DEF Health
  <2>4. z.task = health[o].task /\ z.restarts = health[o].restarts /\ z.status = "zombie"
    BY <1>2 DEF Health
  <2>5. /\ g.task = health[o].task /\ g.restarts = health[o].restarts
        /\ health[o].status \in {"zombie", "restarting"} => g.status = health[o].status
    BY <1>2, <2>3 DEF Health
  <2>6. /\ d.pc = "zombie" /\ d.obj = o /\ d.task = h.task /\ d.visited = c.visited
    BY <1>2 DEF Await, CheckRecord
  <2>7. \/ check' = [check EXCEPT ![k] = c] /\ (health' = health \/ health' = [health EXCEPT ![o] = g])
        \/ /\ health[o].status # "restarting"
           /\ health' = [health EXCEPT ![o] = z] /\ check' = [check EXCEPT ![k] = d]
    BY <1>1, <1>3 DEF CheckWorkerHealth, HandleZombie, Handlers
  <2> HIDE DEF c, h, z, g, d
  <2>8. CASE check' = [check EXCEPT ![k] = c] /\ (health' = health \/ health' = [health EXCEPT ![o] = g])
    <3>1. \A p \in Objects : /\ health'[p].task = health[p].task
                             /\ health'[p].restarts = health[p].restarts
                             /\ health[p].status \in {"zombie", "restarting"} =>
                                  health'[p].status = health[p].status
      BY <1>2, <2>5, <2>8
    <3>2. check'[k].pc \notin Awaits
      BY <1>2, <2>2, <2>8 DEF Awaits
    <3>3. check' = [check EXCEPT ![k] = c] /\ c.task \in {check[k].task, NoTask}
          /\ \A p \in c.visited : p \in check[k].visited \/ IsLive(p)
      BY <2>1, <2>2, <2>8
    <3> QED
      BY <2>1, <3>1, <3>2, <3>3, RecoverQuiet
  <2>9. CASE /\ health[o].status # "restarting"
             /\ health' = [health EXCEPT ![o] = z] /\ check' = [check EXCEPT ![k] = d]
    <3>1. /\ check'[k] = d /\ \A j \in Checks : j # k => check'[j] = check[j]
          /\ health'[o] = z /\ \A p \in Objects : p # o => health'[p] = health[p]
      BY <1>2, <2>9
    <3>2. pool' = P!MarkZombie(pool, o[1])
      BY <2>1, <2>6, <3>1 DEF Recover, Invokes, Handlers, Worker
    <3>3. Invoking(k, o, "zombie")
      BY <2>1, <2>2, <2>4, <2>6, <3>1 DEF Invoking
    <3> QED
      BY <2>3, <2>4, <2>6, <2>9, <3>1, <3>2, <3>3 DEF Marks
  <2> QED
    BY <2>7, <2>8, <2>9
<1>4. CASE ZombieHandled(k)
  <2> DEFINE o == check[k].obj
             d == Await(check[k], "reassign", o, check[k].task)
  <2>1. /\ live' = live /\ check[k].pc = "zombie"
        /\ ReassignOrRestart(k, check[k], o, health[o], check[k].task)
    BY <1>4 DEF ZombieHandled
  <2>2. o \in Objects /\ o \in check[k].visited
    BY <1>1, <2>1, Holding DEF Awaits
  <2>3. CASE check[k].task # NoTask
    <3>1. health' = [health EXCEPT ![o] = health[o]] /\ check' = [check EXCEPT ![k] = d]
      BY <1>1, <2>1, <2>3 DEF ReassignOrRestart, Reassigns, Handlers
    <3>2. d.pc = "reassign" /\ d.obj = o /\ d.task = check[k].task /\ d.visited = check[k].visited
      BY <1>2 DEF Await, CheckRecord
    <3> HIDE DEF d
    <3>3. /\ check'[k] = d /\ \A j \in Checks : j # k => check'[j] = check[j]
          /\ health' = health
      BY <1>2, <3>1
    <3>4. pool' = P!Reassign(pool, check[k].task)
      BY <2>1, <3>2, <3>3 DEF Recover, Invokes, Handlers
    <3>5. Invoking(k, o, "reassign")
      BY <1>1, <2>1, <2>2, <3>2, <3>3 DEF Invoking
    <3>6. PassesOn(k, o)
      BY <2>1, <2>3, <3>2, <3>3, <3>4, <3>5 DEF PassesOn
    <3> QED
      BY <2>2, <3>6
  <2>4. CASE check[k].task = NoTask
    <3>1. AttemptRestart(k, check[k], o, health[o])
      BY <2>1, <2>4 DEF ReassignOrRestart, Reassigns
    <3> QED
      BY <2>1, <3>1, RestartKind
  <2> QED
    BY <2>3, <2>4
<1>5. CASE Reassigned(k)
  BY <1>5, RestartKind DEF Reassigned
<1>6. ASSUME NEW success \in BOOLEAN, Restarted(k, success) PROVE Quiet
  <2> DEFINE o == check[k].obj
             d == Loop(check[k])
             h == IF success THEN Recovered(health[o]) ELSE [health[o] EXCEPT !.status = "zombie"]
  <2>1. /\ live' = live /\ check[k].pc = "restart"
        /\ health' = [health EXCEPT ![o] = h] /\ check' = [check EXCEPT ![k] = d]
    BY <1>6 DEF Restarted
  <2>2. o \in Objects
    BY <1>1, <2>1, Holding DEF Awaits
  <2>3. h.task \in {health[o].task, NoTask} /\ h.restarts = health[o].restarts
    BY <1>2, <2>2 DEF Recovered, Health
  <2>4. d.pc = "loop" /\ d.task = NoTask /\ d.visited = check[k].visited
    BY <1>2 DEF Loop, CheckRecord
  <2> HIDE DEF d, h
  <2>5. health'[o] = h /\ \A p \in Objects : p # o => health'[p] = health[p]
    BY <1>2, <2>1, <2>2
  <2>6. MayRecover(o)
    BY <2>1 DEF MayRecover
  <2>7. check'[k].pc \notin Awaits
    BY <1>2, <2>1, <2>4 DEF Awaits
  <2>8. \A p \in Objects :
           /\ health'[p].task \in {health[p].task, NoTask}
           /\ health'[p].restarts = health[p].restarts
           /\ health'[p].status = health[p].status \/ MayRecover(p)
    BY <2>2, <2>3, <2>5, <2>6
  <2> HIDE DEF o
  <2> QED
    BY <2>1, <2>4, <2>7, <2>8, RecoverQuiet
<1>7. ASSUME EndCheck(k) PROVE Quiet
  <2>1. live' = live /\ check' = [check EXCEPT ![k] = IdleCheck] /\ Forget
    BY <1>7 DEF EndCheck
  <2>2. \A o \in Objects : health'[o] \in {health[o], NewHealth}
    BY <2>1 DEF Forget
  <2>3. \A o \in Objects : IsLive(o) => health'[o] = health[o]
    <3> SUFFICES ASSUME NEW o \in Objects, IsLive(o) PROVE health'[o] = health[o]
      OBVIOUS
    <3>1. Referenced(o)'
      BY <2>1 DEF Referenced, IsLive
    <3> QED
      BY <2>1, <3>1 DEF Forget
  <2>4. \A o \in Objects : health'[o].task \in {health[o].task, NoTask}
    BY <2>2 DEF NewHealth
  <2>5. check'[k].pc \notin Awaits
    BY <1>2, <2>1 DEF IdleCheck, Awaits
  <2>6. IdleCheck.task = NoTask /\ IdleCheck.visited = {}
    BY DEF IdleCheck
  <2> QED
    BY <2>1, <2>3, <2>4, <2>5, <2>6, RecoverQuiet
<1>8. CheckStep(k)
  BY DEF Recover
<1> QED
  BY <1>3, <1>4, <1>5, <1>6, <1>7, <1>8 DEF CheckStep

-----------------------------------------------------------------------------
(* The pool and its monitor: what every step keeps *)

OwnerStep == UNCHANGED vars /\ PoolCalm

KindOfStep ==
  \/ OwnerStep
  \/ Quiet
  \/ \E k \in Checks, o \in Objects : Marks(k, o) \/ PassesOn(k, o) \/ Restarts(k, o)

\* Results and orders are never forgotten.
LEMMA ResultsStay ==
  ASSUME Grown(pool, pool')
  PROVE  /\ \A t : Finished(pool, t) => Finished(pool', t)
         /\ \A t : P!HasOrder(pool, t) => P!HasOrder(pool', t)
         /\ \A t : Failed(t) => Failed(t)'
<1>1. \A t : Finished(pool, t) => Finished(pool', t)
  BY DEF Grown, Finished
<1>2. \A t : P!HasOrder(pool, t) => P!HasOrder(pool', t)
  BY DEF Grown, P!HasOrder
<1>3. \A t : Failed(t) => Failed(t)'
  BY DEF Grown, Failed, OrderOf
<1> QED
  BY <1>1, <1>2, <1>3

\* Passing a task on disturbs nobody.
LEMMA ReassignCalm ==
  ASSUME RInv, NEW i \in Tasks, P!HasOrder(pool, i), pool' = P!Reassign(pool, i)
  PROVE  /\ PoolCalm
         /\ \/ i \in pool'.queue
            \/ \E w \in Workers : /\ Issue(w) = NoTask
                                  /\ pool'.workers[w] = [status |-> "working", issue |-> i]
<1>1. /\ Sound(pool) /\ \A v \in Workers : Known(Issue(v))
  BY DEF RInv, TasksKnown
<1>2. CASE pool' = P!Enqueue(pool, i)
  <2>1. /\ Sound(pool') /\ Grown(pool, pool') /\ pool'.workers = pool.workers
        /\ pool'.queue = pool.queue \cup {i}
    BY <1>1, <1>2, EnqueueKeeps
  <2>2. \A v \in Workers : Known(Issue(v))'
    BY <1>1, <2>1 DEF Known, Issue, P!HasOrder, Grown
  <2> QED
    BY <2>1, <2>2 DEF PoolCalm, Calm, QueueServed
<1>3. ASSUME NEW v \in Workers, pool.workers[v].status = "idle", pool' = P!Assign(pool, v, i)
      PROVE  /\ PoolCalm /\ Issue(v) = NoTask
             /\ pool'.workers[v] = [status |-> "working", issue |-> i]
  <2>1. Issue(v) = NoTask
    BY <1>1, <1>3, SoundParts DEF Issue
  <2>2. /\ Moved(pool, pool', v, [status |-> "working", issue |-> i])
        /\ pool'.queue = pool.queue \ {i}
    BY <1>1, <1>3, AssignMoves
  <2>3. \A u \in Workers : Known(Issue(u))'
    <3> SUFFICES ASSUME NEW u \in Workers PROVE Known(Issue(u))'
      OBVIOUS
    <3>1. pool'.workers[u].issue = i \/ pool'.workers[u].issue = pool.workers[u].issue
      BY <2>2 DEF Moved
    <3> QED
      BY <1>1, <2>2, <3>1 DEF Known, Issue, P!HasOrder, Moved, Grown
  <2>4. \A u \in Workers : Calm(u)
    BY <2>1, <2>2 DEF Calm, Moved
  <2> QED
    BY <2>1, <2>2, <2>3, <2>4 DEF PoolCalm, QueueServed, Moved
<1> QED
  BY <1>1, <1>2, <1>3, ReassignPlaces

\* Marking a worker changes its status alone, releasing it makes it idle.
LEMMA MarkedPool ==
  ASSUME RInv, NEW w \in Workers, pool' = P!MarkZombie(pool, w)
  PROVE  /\ Sound(pool') /\ Grown(pool, pool') /\ pool'.queue = pool.queue
         /\ \A v \in Workers : pool'.workers[v].issue = pool.workers[v].issue
         /\ \A v \in Workers : v # w => pool'.workers[v] = pool.workers[v]
<1> DEFINE r == [pool.workers[w] EXCEPT !.status = "error"]
<1>1. Sound(pool) /\ pool.workers[w] \in P!WorkerInfo
  BY SoundParts DEF RInv
<1>2. r.issue = pool.workers[w].issue
  BY <1>1 DEF P!WorkerInfo
<1>3. Moved(pool, pool', w, r) /\ pool'.queue = pool.queue
  BY <1>1, MarkMoves
<1> HIDE DEF r
<1> QED
  BY <1>2, <1>3 DEF Moved

LEMMA ReleasedPool ==
  ASSUME RInv, NEW w \in Workers, pool' = P!Release(pool, w)
  PROVE  /\ Sound(pool') /\ Grown(pool, pool') /\ pool'.queue = pool.queue
         /\ pool'.workers[w] = P!Idle
         /\ \A v \in Workers : v # w => pool'.workers[v] = pool.workers[v]
<1>1. Moved(pool, pool', w, P!Idle) /\ pool'.queue = pool.queue
  BY ReleaseMoves DEF RInv
<1> QED
  BY <1>1 DEF Moved

\* Two objects of one worker that are in use are one.
LEMMA OneLiveObject ==
  ASSUME NEW o \in Objects, NEW p \in Objects, IsLive(o), IsLive(p), o[1] = p[1]
  PROVE  o = p
BY DEF IsLive, Objects

\* Worker w keeps its task, or had none that is not done
Keeps(w) ==
  pool'.workers[w].issue = Issue(w) \/ Issue(w) = NoTask \/ Finished(pool', Issue(w))

\* What becomes of the monitor's tasks in a step
TasksFollow ==
  /\ \A k \in Checks : \A o \in check'[k].visited : o \in check[k].visited \/ IsLive(o)
  /\ \A o \in Objects :
       \/ health'[o].task \in {health[o].task, NoTask}
       \/ pool' = pool /\ health'[o].task = Issue(o[1]) /\ live'[o[1]] = o[2]
  /\ \A k \in Checks : \/ check'[k].task \in {check[k].task, NoTask}
                       \/ \E o \in Objects : check'[k].task = health[o].task
  /\ \A k \in Checks : check'[k].pc \in {"zombie", "reassign"} =>
       /\ check'[k].obj \in Objects /\ IsLive(check'[k].obj)
       /\ \/ Recovers(k) /\ check'[k].obj = check[k].obj /\ check'[k].task = check[k].task
          \/ check'[k].task = health[check'[k].obj].task

PoolGrows ==
  /\ Sound(pool') /\ Grown(pool, pool')
  /\ \A w \in Workers : Known(Issue(w))'

\* A worker loses a task that is not done only by a restart that is counted
LossCounted ==
  \A o \in Objects : IsLive(o) /\ health'[o].restarts = 0 => health[o].restarts = 0 /\ Keeps(o[1])

\* A calm pool keeps what its workers have.
LEMMA CalmKeeps ==
  ASSUME PoolCalm
  PROVE  PoolGrows /\ \A w \in Workers : Keeps(w)
BY DEF PoolCalm, PoolGrows, Calm, Keeps, Issue

\* The object a check holds is in use, and so is the one it goes on to.
LEMMA HeldLive ==
  ASSUME RInv, NEW k \in Checks, check[k].pc \in Awaits
  PROVE  check[k].obj \in Objects /\ IsLive(check[k].obj) /\ check[k].obj # NoObject
<1>1. check[k].obj \in Objects /\ check[k].obj \in check[k].visited
  BY Holding DEF RInv
<1> QED
  BY <1>1, ObjectsArePairs DEF RInv, VisitedAreLive

LEMMA FollowOwner ==
  ASSUME RInv, OwnerStep
  PROVE  LiveKept /\ TasksFollow /\ PoolGrows /\ LossCounted
<1>1. live' = live /\ health' = health /\ check' = check
  BY DEF OwnerStep, vars
<1>2. PoolGrows /\ \A w \in Workers : Keeps(w)
  BY CalmKeeps DEF OwnerStep
<1>3. TasksFollow
  BY <1>1, HeldLive DEF TasksFollow, Recovers, Awaits
<1>4. LossCounted
  <2>1. \A o \in Objects : o[1] \in Workers
    BY DEF Objects
  <2> QED
    BY <1>1, <1>2, <2>1 DEF LossCounted
<1> QED
  BY <1>1, <1>2, <1>3, <1>4 DEF LiveKept

LEMMA FollowQuiet ==
  ASSUME RInv, Quiet
  PROVE  LiveKept /\ TasksFollow /\ PoolGrows /\ LossCounted
<1>1. LiveKept /\ pool' = pool /\ \A k \in Checks : SameCheck(k) \/ NoHandler(k)
  BY DEF Quiet
<1>2. \A o \in Objects : \/ health'[o].task \in {health[o].task, NoTask}
                         \/ health'[o].task = Issue(o[1]) /\ live'[o[1]] = o[2]
  BY DEF Quiet, IsLive
<1>3. TasksFollow
  <2>1. \A k \in Checks : \A o \in check'[k].visited : o \in check[k].visited \/ IsLive(o)
    BY <1>1 DEF SameCheck, NoHandler
  <2>2. \A k \in Checks : check'[k].task \in {check[k].task, NoTask}
    BY <1>1 DEF SameCheck, NoHandler
  <2>3. ASSUME NEW k \in Checks, check'[k].pc \in {"zombie", "reassign"}
        PROVE  /\ check'[k].obj \in Objects /\ IsLive(check'[k].obj)
               /\ Recovers(k) /\ check'[k].obj = check[k].obj /\ check'[k].task = check[k].task
    <3>1. SameCheck(k)
      BY <1>1, <2>3 DEF NoHandler, Awaits
    <3>2. check[k].pc \in Awaits /\ Recovers(k) /\ check'[k].obj = check[k].obj
          /\ check'[k].task = check[k].task
      BY <2>3, <3>1 DEF SameCheck, Awaits, Recovers
    <3> QED
      BY <3>2, HeldLive
  <2> QED
    BY <1>1, <1>2, <2>1, <2>2, <2>3 DEF TasksFollow
<1>4. PoolGrows
  <2>1. Sound(pool) /\ \A w \in Workers : Known(Issue(w))
    BY DEF RInv, TasksKnown
  <2> QED
    BY <1>1, <2>1 DEF PoolGrows, Grown, Known, Issue
<1>5. LossCounted
  BY <1>1 DEF LossCounted, Quiet, Keeps, Issue
<1> QED
  BY <1>1, <1>3, <1>4, <1>5

\* A step in which a check invokes a handler
LEMMA FollowInvoking ==
  ASSUME RInv, NEW k \in Checks, NEW o \in Objects, NEW handler \in Awaits, Invoking(k, o, handler),
         \/ check'[k].task = health[o].task
         \/ check'[k].task \in {check[k].task, NoTask}
            /\ (handler # "restart" => Recovers(k) /\ check[k].obj = o /\ check'[k].task = check[k].task)
  PROVE  LiveKept /\ TasksFollow
<1>1. LiveKept
  BY DEF Invoking, LiveKept
<1>2. \A j \in Checks : \A p \in check'[j].visited : p \in check[j].visited \/ IsLive(p)
  BY DEF Invoking
<1>3. \A p \in Objects : health'[p].task = health[p].task
  BY DEF Invoking
<1>4. \A j \in Checks : \/ check'[j].task \in {check[j].task, NoTask}
                        \/ \E p \in Objects : check'[j].task = health[p].task
  BY DEF Invoking
<1>5. ASSUME NEW j \in Checks, check'[j].pc \in {"zombie", "reassign"}
      PROVE  /\ check'[j].obj \in Objects /\ IsLive(check'[j].obj)
             /\ \/ Recovers(j) /\ check'[j].obj = check[j].obj /\ check'[j].task = check[j].task
                \/ check'[j].task = health[check'[j].obj].task
  <2>1. CASE j = k
    BY <1>5, <2>1 DEF Invoking
  <2>2. CASE j # k
    <3>1. check'[j] = check[j]
      BY <2>2 DEF Invoking
    <3>2. check[j].pc \in Awaits /\ Recovers(j)
      BY <1>5, <3>1 DEF Awaits, Recovers
    <3> QED
      BY <3>1, <3>2, HeldLive
  <2> QED
    BY <2>1, <2>2
<1> QED
  BY <1>1, <1>2, <1>3, <1>4, <1>5 DEF TasksFollow

\* Every step
LEMMA StepFollows ==
  ASSUME RInv, KindOfStep
  PROVE  LiveKept /\ TasksFollow /\ PoolGrows /\ LossCounted
<1>1. \A o \in Objects : o[1] \in Workers
  BY DEF Objects
<1>2. Sound(pool) /\ \A w \in Workers : Known(Issue(w))
  BY DEF RInv, TasksKnown
<1>3. ASSUME NEW k \in Checks, NEW o \in Objects, Marks(k, o)
      PROVE  LiveKept /\ TasksFollow /\ PoolGrows /\ LossCounted
  <2>1. LiveKept /\ TasksFollow
    BY <1>3, FollowInvoking DEF Marks, Awaits
  <2>2. /\ Sound(pool') /\ Grown(pool, pool')
        /\ \A v \in Workers : pool'.workers[v].issue = pool.workers[v].issue
    BY <1>1, <1>3, MarkedPool DEF Marks
  <2>3. PoolGrows
    BY <1>2, <2>2 DEF PoolGrows, Known, Issue, Grown, P!HasOrder
  <2>4. LossCounted
    BY <1>1, <1>3, <2>2 DEF LossCounted, Marks, Invoking, Keeps, Issue
  <2> QED
    BY <2>1, <2>3, <2>4
<1>4. ASSUME NEW k \in Checks, NEW o \in Objects, PassesOn(k, o)
      PROVE  LiveKept /\ TasksFollow /\ PoolGrows /\ LossCounted
  <2>1. LiveKept /\ TasksFollow
    BY <1>4, FollowInvoking DEF PassesOn, Awaits, Recovers
  <2>2. check[k].task \in Tasks /\ P!HasOrder(pool, check[k].task)
    <3>1. check[k] \in CheckRecord /\ Known(check[k].task) /\ check[k].task # NoTask
      BY <1>4, Holding DEF RInv, TasksKnown, PassesOn
    <3> QED
      BY <3>1 DEF CheckRecord, Known
  <2>3. PoolCalm
    BY <1>4, <2>2, ReassignCalm DEF PassesOn
  <2>4. PoolGrows /\ \A w \in Workers : Keeps(w)
    BY <2>3, CalmKeeps
  <2>5. LossCounted
    BY <1>1, <1>4, <2>4 DEF LossCounted, PassesOn
  <2> QED
    BY <2>1, <2>4, <2>5
<1>5. ASSUME NEW k \in Checks, NEW o \in Objects, Restarts(k, o)
      PROVE  LiveKept /\ TasksFollow /\ PoolGrows /\ LossCounted
  <2>1. LiveKept /\ TasksFollow
    BY <1>5, FollowInvoking DEF Restarts, Awaits
  <2>2. /\ Sound(pool') /\ Grown(pool, pool') /\ pool'.workers[o[1]] = P!Idle
        /\ \A v \in Workers : v # o[1] => pool'.workers[v] = pool.workers[v]
    BY <1>1, <1>5, ReleasedPool DEF Restarts
  <2>3. \A v \in Workers : pool'.workers[v].issue \in {NoTask, Issue(v)}
    BY <2>2 DEF P!Idle, Issue
  <2>4. PoolGrows
    BY <1>2, <2>2, <2>3 DEF PoolGrows, Known, Issue, Grown, P!HasOrder
  <2>5. LossCounted
    <3> SUFFICES ASSUME NEW p \in Objects, IsLive(p), health'[p].restarts = 0
                 PROVE  health[p].restarts = 0 /\ Keeps(p[1])
      BY DEF LossCounted
    <3>1. p # o /\ health'[p] = health[p]
      BY <1>5, MonitorAssumption DEF Restarts, Invoking
    <3>2. p[1] # o[1]
      BY <1>5, <3>1, OneLiveObject DEF Restarts, Invoking
    <3> QED
      BY <1>1, <2>2, <3>1, <3>2 DEF Keeps, Issue
  <2> QED
    BY <2>1, <2>4, <2>5
<1> QED
  BY <1>3, <1>4, <1>5, FollowOwner, FollowQuiet DEF KindOfStep

\* The first four parts of the invariant
LEMMA FollowKeeps ==
  ASSUME RInv, IInv', LiveKept, TasksFollow, PoolGrows, LossCounted
  PROVE  VisitedAreLive' /\ SilentUnlessLive' /\ TasksKnown' /\ TasksCurrent'
<1>1. \A o \in Objects : IsLive(o) => IsLive(o)'
  BY StaysLive
<1>2. check \in [Checks -> CheckRecord] /\ IInv /\ check' \in [Checks -> CheckRecord]
  <2>1. check \in [Checks -> CheckRecord] /\ IInv
    BY Holding DEF RInv
  <2> QED
    BY <2>1 DEF IInv, TypeOK, CheckRecord
<1>3. VisitedAreLive'
  <2> SUFFICES ASSUME NEW k \in Checks, NEW o \in check'[k].visited PROVE IsLive(o)'
    BY DEF VisitedAreLive
  <2>1. IsLive(o)
    BY DEF TasksFollow, RInv, VisitedAreLive
  <2>2. o \in Objects
    BY <1>2 DEF CheckRecord
  <2> QED
    BY <1>1, <2>1, <2>2
<1>4. SilentUnlessLive'
  <2> SUFFICES ASSUME NEW o \in Objects, ~(IsLive(o)') PROVE health'[o].task = NoTask
    BY DEF SilentUnlessLive
  <2>1. health[o].task = NoTask /\ live'[o[1]] # o[2]
    BY <1>1 DEF RInv, SilentUnlessLive, IsLive
  <2> QED
    BY <2>1 DEF TasksFollow
<1>5. Grown(pool, pool')
  BY DEF PoolGrows
<1>6. \A t : Known(t) => Known(t)'
  <2> SUFFICES ASSUME NEW t, Known(t) PROVE Known(t)'
    OBVIOUS
  <2>1. t = NoTask \/ P!HasOrder(pool', t)
    BY <1>5, ResultsStay DEF Known
  <2> QED
    BY <2>1, <1>5 DEF Known, P!HasOrder
<1>7. TasksKnown'
  <2>1. \A w \in Workers : Known(Issue(w))'
    BY DEF PoolGrows
  <2>2. ASSUME NEW o \in Objects PROVE Known(health[o].task)'
    <3>1. \/ health'[o].task \in {health[o].task, NoTask}
          \/ health'[o].task = Issue(o[1]) /\ o[1] \in Workers
      BY DEF TasksFollow, Objects
    <3>2. Known(health[o].task) /\ (o[1] \in Workers => Known(Issue(o[1]))) /\ Known(NoTask)
      BY DEF RInv, TasksKnown, Known
    <3>3. health'[o].task = NoTask \/ P!HasOrder(pool', health'[o].task)
      BY <1>5, <3>1, <3>2, ResultsStay DEF Known
    <3> QED
      BY <3>3, <1>5 DEF Known, P!HasOrder
  <2>3. ASSUME NEW k \in Checks PROVE Known(check[k].task)'
    <3>1. \/ check'[k].task \in {check[k].task, NoTask}
          \/ \E o \in Objects : check'[k].task = health[o].task
      BY DEF TasksFollow
    <3>2. Known(check[k].task) /\ \A o \in Objects : Known(health[o].task)
      BY DEF RInv, TasksKnown
    <3>3. check'[k].task = NoTask \/ P!HasOrder(pool', check'[k].task)
      BY <1>5, <3>1, <3>2, ResultsStay DEF Known
    <3> QED
      BY <3>3, <1>5 DEF Known, P!HasOrder
  <2> QED
    BY <2>1, <2>2, <2>3 DEF TasksKnown
<1>8. ASSUME NEW o \in Objects, IsLive(o), health'[o].restarts = 0, NEW t, Current(o, t)
      PROVE  t \in {NoTask, pool'.workers[o[1]].issue} \/ Finished(pool', t)
  <2>1. Keeps(o[1])
    BY <1>8 DEF LossCounted
  <2> QED
    BY <1>5, <1>8, <2>1, ResultsStay DEF Current, Keeps
<1>9. TasksCurrent'
  <2>1. ASSUME NEW o \in Objects, health'[o].restarts = 0
        PROVE  health'[o].task \in {NoTask, pool'.workers[o[1]].issue} \/ Finished(pool', health'[o].task)
    <3>1. CASE health'[o].task = NoTask
      BY <3>1
    <3>2. CASE health'[o].task = health[o].task /\ IsLive(o)
      <4>1. health[o].restarts = 0
        BY <2>1, <3>2 DEF LossCounted
      <4>2. Current(o, health[o].task)
        BY <4>1 DEF RInv, TasksCurrent
      <4> QED
        BY <1>8, <2>1, <3>2, <4>2
    <3>3. CASE health'[o].task = health[o].task /\ ~IsLive(o)
      BY <3>3 DEF RInv, SilentUnlessLive
    <3>4. CASE pool' = pool /\ health'[o].task = Issue(o[1])
      BY <3>4 DEF Issue
    <3> QED
      BY <3>1, <3>2, <3>3, <3>4 DEF TasksFollow
  <2>2. ASSUME NEW k \in Checks, check'[k].pc \in {"zombie", "reassign"},
               health'[check'[k].obj].restarts = 0
        PROVE  \/ check'[k].task \in {NoTask, pool'.workers[check'[k].obj[1]].issue}
               \/ Finished(pool', check'[k].task)
    <3> DEFINE o == check'[k].obj
    <3>1. /\ o \in Objects /\ IsLive(check'[k].obj)
          /\ \/ Recovers(k) /\ o = check[k].obj /\ check'[k].task = check[k].task
             \/ check'[k].task = health[o].task
      BY <2>2 DEF TasksFollow
    <3>2. PICK p \in Objects : p = o
      BY <3>1
    <3>3. health[p].restarts = 0 /\ IsLive(p)
      BY <2>2, <3>1, <3>2 DEF LossCounted, IsLive
    <3>4. Current(p, check'[k].task)
      <4>1. CASE Recovers(k) /\ o = check[k].obj /\ check'[k].task = check[k].task
        BY <3>2, <3>3, <4>1 DEF RInv, TasksCurrent
      <4>2. CASE check'[k].task = health[o].task
        BY <3>2, <3>3, <4>2 DEF RInv, TasksCurrent
      <4> QED
        BY <3>1, <4>1, <4>2
    <3> QED
      BY <1>8, <2>2, <3>2, <3>3, <3>4
  <2> QED
    BY <2>1, <2>2 DEF TasksCurrent, Current, Issue, Recovers
<1> QED
  BY <1>3, <1>4, <1>7, <1>9

\* A task that has its place keeps one while the pool is calm and its worker is not restarted.
LEMMA PlaceKept ==
  ASSUME RInv, PoolCalm, NEW o \in Objects, health'[o].restarts = health[o].restarts,
         NEW i, i # NoTask,
         health[o].restarts = 0 => Current(o, i),
         Placed(pool, o, i)
  PROVE  \/ i \in pool'.queue
         \/ \E v \in Workers \ {o[1]} : pool'.workers[v].issue = i
         \/ Finished(pool', i)
         \/ health'[o].restarts > 0 /\ pool'.workers[o[1]] = [status |-> "working", issue |-> i]
<1>1. Grown(pool, pool') /\ o[1] \in Workers /\ health[o].restarts \in Nat
  <2>1. health[o] \in Health
    BY Holding DEF RInv
  <2> QED
    BY <2>1, MonitorAssumption DEF PoolCalm, Objects, Health
<1>2. Finished(pool, i) => Finished(pool', i)
  BY <1>1, ResultsStay
<1>3. ASSUME NEW v \in Workers, Issue(v) = NoTask,
             pool'.workers[v] = [status |-> "working", issue |-> i]
      PROVE  \/ \E u \in Workers \ {o[1]} : pool'.workers[u].issue = i
             \/ Finished(pool', i)
             \/ health'[o].restarts > 0 /\ pool'.workers[o[1]] = [status |-> "working", issue |-> i]
  <2>1. CASE v # o[1]
    BY <1>3, <2>1
  <2>2. CASE v = o[1] /\ health[o].restarts = 0
    BY <1>2, <1>3, <2>2 DEF Current
  <2>3. CASE v = o[1] /\ health[o].restarts # 0
    BY <1>1, <1>3, <2>3
  <2> QED
    BY <2>1, <2>2, <2>3
<1>4. CASE i \in pool.queue
  BY <1>3, <1>4 DEF PoolCalm, QueueServed
<1>5. ASSUME NEW v \in Workers \ {o[1]}, pool.workers[v].issue = i
      PROVE  pool'.workers[v].issue = i \/ Finished(pool', i)
  BY <1>5 DEF PoolCalm, Calm, Issue
<1>6. CASE health[o].restarts > 0 /\ pool.workers[o[1]] = [status |-> "working", issue |-> i]
  <2>1. Issue(o[1]) = i
    BY <1>6 DEF Issue
  <2> QED
    BY <1>1, <1>6, <2>1 DEF PoolCalm, Calm
<1> QED
  BY <1>2, <1>4, <1>5, <1>6 DEF Placed

LEMMA PassedOnKept ==
  ASSUME RInv, KindOfStep
  PROVE  PassedOn'
<1> SUFFICES ASSUME NoOverlap, NEW k \in Checks, check'[k].pc = "reassign"
             PROVE  /\ check'[k].task # NoTask
                    /\ Placed(pool, check[k].obj, check[k].task)'
  BY DEF PassedOn, NoOverlap
<1>1. \A j \in Checks : j = k
  BY DEF NoOverlap
<1>2. ASSUME SameCheck(k), PoolCalm,
             IsLive(check[k].obj) => health'[check[k].obj].restarts = health[check[k].obj].restarts
      PROVE  /\ check'[k].task # NoTask
             /\ Placed(pool, check[k].obj, check[k].task)'
  <2>1. /\ check[k].pc = "reassign" /\ check'[k].obj = check[k].obj /\ check'[k].task = check[k].task
    BY <1>2 DEF SameCheck
  <2>2. PICK o \in Objects : o = check[k].obj
    BY <2>1, HeldLive DEF Awaits
  <2>3. PICK i : i = check[k].task
    OBVIOUS
  <2>4. /\ i # NoTask /\ Placed(pool, o, i) /\ health'[o].restarts = health[o].restarts
        /\ health[o].restarts = 0 => Current(o, i)
    BY <1>2, <2>1, <2>2, <2>3, HeldLive DEF RInv, PassedOn, TasksCurrent, Recovers, Awaits
  <2>5. \/ i \in pool'.queue
        \/ \E v \in Workers \ {o[1]} : pool'.workers[v].issue = i
        \/ Finished(pool', i)
        \/ health'[o].restarts > 0 /\ pool'.workers[o[1]] = [status |-> "working", issue |-> i]
    BY <1>2, <2>4, PlaceKept
  <2>6. check'[k].obj = o /\ check'[k].task = i
    BY <2>1, <2>2, <2>3
  <2> QED
    BY <2>4, <2>5, <2>6 DEF Placed
<1>3. CASE OwnerStep
  <2>1. PoolCalm /\ check' = check /\ health' = health
    BY <1>3 DEF OwnerStep, vars
  <2> QED
    BY <1>2, <2>1 DEF SameCheck
<1>4. CASE Quiet
  <2>1. SameCheck(k)
    BY <1>4 DEF Quiet, NoHandler, Awaits
  <2>2. check[k].pc \in Awaits
    BY <2>1 DEF SameCheck, Awaits
  <2>3. IsLive(check[k].obj) => health'[check[k].obj].restarts = health[check[k].obj].restarts
    BY <1>4, <2>2, HeldLive DEF Quiet
  <2>4. PoolCalm
    <3>1. Sound(pool) /\ \A w \in Workers : Known(Issue(w))
      BY DEF RInv, TasksKnown
    <3>2. pool' = pool
      BY <1>4 DEF Quiet
    <3> QED
      BY <3>1, <3>2 DEF PoolCalm, Grown, Calm, QueueServed, Known, Issue
  <2> QED
    BY <1>2, <2>1, <2>3, <2>4
<1>5. ASSUME NEW j \in Checks, NEW o \in Objects, Marks(j, o) \/ Restarts(j, o)
      PROVE  FALSE
  BY <1>1, <1>5 DEF Marks, Restarts, Invoking
<1>6. ASSUME NEW j \in Checks, NEW o \in Objects, PassesOn(j, o)
      PROVE  /\ check'[k].task # NoTask
             /\ Placed(pool, check[k].obj, check[k].task)'
  <2>1. /\ check[k].pc = "zombie" /\ check[k].obj = o /\ check[k].task # NoTask
        /\ check'[k].task = check[k].task /\ check'[k].obj = o
        /\ health' = health /\ pool' = P!Reassign(pool, check[k].task)
    BY <1>1, <1>6 DEF PassesOn, Invoking
  <2>2. PICK i : i = check[k].task
    OBVIOUS
  <2>3. i \in Tasks /\ P!HasOrder(pool, i)
    <3>1. check[k] \in CheckRecord /\ Known(check[k].task)
      BY Holding DEF RInv, TasksKnown
    <3> QED
      BY <2>1, <2>2, <3>1 DEF CheckRecord, Known
  <2>4. /\ PoolCalm
        /\ \/ i \in pool'.queue
           \/ \E w \in Workers : /\ Issue(w) = NoTask
                                 /\ pool'.workers[w] = [status |-> "working", issue |-> i]
    BY <2>1, <2>2, <2>3, ReassignCalm
  <2>5. Current(o, i) \/ health[o].restarts # 0
    BY <2>1, <2>2 DEF RInv, TasksCurrent, Recovers
  <2>6. health[o].restarts \in Nat
    <3>1. health[o] \in Health
      BY Holding DEF RInv
    <3> QED
      BY <3>1, MonitorAssumption DEF Health
  <2>7. Finished(pool, i) => Finished(pool', i)
    BY <2>4, ResultsStay DEF PoolCalm
  <2>8. \/ i \in pool'.queue
        \/ \E v \in Workers \ {o[1]} : pool'.workers[v].issue = i
        \/ Finished(pool', i)
        \/ health'[o].restarts > 0 /\ pool'.workers[o[1]] = [status |-> "working", issue |-> i]
    <3>1. CASE i \in pool'.queue
      BY <3>1
    <3>2. ASSUME NEW w \in Workers, Issue(w) = NoTask,
                 pool'.workers[w] = [status |-> "working", issue |-> i]
          PROVE  \/ \E v \in Workers \ {o[1]} : pool'.workers[v].issue = i
                 \/ Finished(pool', i)
                 \/ health'[o].restarts > 0 /\ pool'.workers[o[1]] = [status |-> "working", issue |-> i]
      <4>1. CASE w # o[1]
        BY <3>2, <4>1
      <4>2. CASE w = o[1] /\ health[o].restarts = 0
        BY <2>1, <2>2, <2>5, <2>7, <3>2, <4>2 DEF Current
      <4>3. CASE w = o[1] /\ health[o].restarts # 0
        BY <2>1, <2>6, <3>2, <4>3
      <4> QED
        BY <4>1, <4>2, <4>3
    <3> QED
      BY <2>4, <3>1, <3>2
  <2>9. check'[k].obj = o /\ check'[k].task = i /\ i # NoTask
    BY <2>1, <2>2
  <2> QED
    BY <2>8, <2>9 DEF Placed
<1> QED
  BY <1>3, <1>4, <1>5, <1>6 DEF KindOfStep

\* What is marked after a step that leaves worker w alone was marked before.
LEMMA MarkedBefore ==
  ASSUME Grown(pool, pool'), NEW w \in Workers, pool'.workers[w] = pool.workers[w], Marked(w)'
  PROVE  Marked(w)
<1>1. Failed(Issue(w)) => Failed(Issue(w))'
  BY DEF Issue, Grown, Failed, OrderOf
<1> QED
  BY <1>1 DEF Marked

LEMMA CalmMarks ==
  ASSUME PoolCalm, NEW w \in Workers, Marked(w)'
  PROVE  Marked(w)
<1>1. pool'.workers[w] = pool.workers[w]
  BY DEF PoolCalm, Calm, Marked
<1> QED
  BY <1>1, MarkedBefore DEF PoolCalm

\* A task passed on is known, so it disturbs nobody.
LEMMA PassesOnCalm ==
  ASSUME RInv, NEW k \in Checks, NEW o \in Objects, PassesOn(k, o)
  PROVE  PoolCalm /\ live' = live /\ health' = health
<1>1. check[k].task # NoTask /\ pool' = P!Reassign(pool, check[k].task)
  BY DEF PassesOn
<1>2. check[k].task \in Tasks /\ P!HasOrder(pool, check[k].task)
  <2>1. check[k] \in CheckRecord /\ Known(check[k].task)
    BY Holding DEF RInv, TasksKnown
  <2> QED
    BY <1>1, <2>1 DEF CheckRecord, Known
<1>3. PoolCalm
  BY <1>1, <1>2, ReassignCalm
<1> QED
  BY <1>3 DEF PassesOn, Invoking

\* The worker a check restarts is not marked: another check that would mark it finds it
\* restarting.
LEMMA RestartedUnmarkedKept ==
  ASSUME RInv, KindOfStep, config' = config
  PROVE  RestartedUnmarked'
<1> SUFFICES ASSUME Prompt, NEW k \in Checks, NEW w \in Workers,
                    check'[k].pc = "restart", check'[k].obj[1] = w, Marked(w)'
             PROVE  FALSE
  BY DEF RestartedUnmarked, Prompt, NoOverlap
<1> DEFINE Before == check[k].pc = "restart" /\ check'[k].obj = check[k].obj
<1>1. ASSUME Before
      PROVE  /\ check[k].obj \in Objects /\ IsLive(check[k].obj) /\ check[k].obj[1] = w
             /\ health[check[k].obj].status = "restarting"
             /\ ~Marked(w)
  <2>1. check[k].obj \in Objects /\ IsLive(check[k].obj)
    BY <1>1, HeldLive DEF Awaits
  <2>2. check[k].obj[1] = w
    BY <1>1
  <2>3. health[check[k].obj].status = "restarting" /\ ~Marked(w)
    BY <1>1, <2>2 DEF RInv, IInv, BusyRestarting, RestartedUnmarked
  <2> QED
    BY <2>1, <2>2, <2>3
<1>2. ASSUME Before, PoolCalm PROVE FALSE
  BY <1>1, <1>2, CalmMarks
<1>3. CASE OwnerStep
  BY <1>2, <1>3 DEF OwnerStep, vars
<1>4. CASE Quiet
  <2>1. SameCheck(k) /\ pool' = pool
    BY <1>4 DEF Quiet, NoHandler, Awaits
  <2>2. Before
    BY <2>1 DEF SameCheck
  <2>3. Grown(pool, pool') /\ pool'.workers[w] = pool.workers[w]
    BY <2>1 DEF Grown
  <2> QED
    BY <1>1, <2>2, <2>3, MarkedBefore
<1>5. ASSUME NEW j \in Checks, NEW o \in Objects, PassesOn(j, o) PROVE FALSE
  <2>1. PoolCalm
    BY <1>5, PassesOnCalm
  <2>2. Before
    BY <1>5 DEF PassesOn, Invoking
  <2> QED
    BY <1>2, <2>1, <2>2
<1>6. ASSUME NEW j \in Checks, NEW o \in Objects, Marks(j, o) PROVE FALSE
  <2>1. Before /\ IsLive(o) /\ health[o].status # "restarting" /\ o[1] \in Workers
        /\ pool' = P!MarkZombie(pool, o[1])
    BY <1>6 DEF Marks, Invoking, Objects
  <2>2. w # o[1]
    BY <1>1, <2>1, OneLiveObject
  <2>3. Grown(pool, pool') /\ pool'.workers[w] = pool.workers[w]
    BY <2>1, <2>2, MarkedPool
  <2> QED
    BY <1>1, <2>1, <2>3, MarkedBefore
<1>7. ASSUME NEW j \in Checks, NEW o \in Objects, Restarts(j, o) PROVE FALSE
  <2>1. /\ check'[j].obj = o /\ o[1] \in Workers /\ pool' = P!Release(pool, o[1])
        /\ k # j => Before
    BY <1>7 DEF Restarts, Invoking, Objects
  <2>2. /\ Grown(pool, pool') /\ pool'.workers[o[1]] = P!Idle
        /\ \A v \in Workers : v # o[1] => pool'.workers[v] = pool.workers[v]
    BY <2>1, ReleasedPool
  <2>3. w # o[1]
    BY <2>2 DEF Marked, P!Idle
  <2>4. Before
    BY <2>1, <2>3
  <2> QED
    BY <1>1, <2>2, <2>3, <2>4, MarkedBefore
<1> QED
  BY <1>3, <1>4, <1>5, <1>6, <1>7 DEF KindOfStep

\* A worker marked in the pool is one the monitor is recovering.
LEMMA MarkedRecoverKept ==
  ASSUME RInv, KindOfStep, config' = config
  PROVE  MarkedRecover'
<1> SUFFICES ASSUME Prompt, NEW w \in Workers, Marked(w)'
             PROVE  /\ live'[w] # 0
                    /\ health'[<<w, live'[w]>>].status \in {"zombie", "restarting"}
  BY DEF MarkedRecover, Prompt, NoOverlap
<1>1. ASSUME Marked(w)
      PROVE  /\ live[w] # 0 /\ <<w, live[w]>> \in Objects
             /\ health[<<w, live[w]>>].status \in {"zombie", "restarting"}
  <2>1. live[w] # 0 /\ health[<<w, live[w]>>].status \in {"zombie", "restarting"}
    BY <1>1 DEF RInv, MarkedRecover
  <2>2. live[w] \in 1..MaxRegistrations
    BY <2>1, MonitorAssumption DEF RInv, IInv, TypeOK
  <2> QED
    BY <2>1, <2>2 DEF Objects
<1>2. ASSUME Marked(w), live' = live, health'[<<w, live[w]>>] = health[<<w, live[w]>>]
      PROVE  /\ live'[w] # 0
             /\ health'[<<w, live'[w]>>].status \in {"zombie", "restarting"}
  BY <1>1, <1>2
<1>3. CASE OwnerStep
  <2>1. Marked(w) /\ live' = live /\ health' = health
    BY <1>3, CalmMarks DEF OwnerStep, vars
  <2> QED
    BY <1>2, <2>1
<1>4. CASE Quiet
  <2>1. pool' = pool /\ LiveKept
    BY <1>4 DEF Quiet
  <2>2. Marked(w)
    <3>1. Grown(pool, pool') /\ pool'.workers[w] = pool.workers[w]
      BY <2>1 DEF Grown
    <3> QED
      BY <3>1, MarkedBefore
  <2>3. PICK o \in Objects : o = <<w, live[w]>>
    BY <1>1, <2>2
  <2>4. IsLive(o) /\ live'[w] = live[w] /\ health[o].status \in {"zombie", "restarting"}
    BY <1>1, <2>1, <2>2, <2>3 DEF IsLive, LiveKept
  <2>5. ~MayRecover(o)
    BY <2>2, <2>3 DEF MayRecover, RInv, RestartedUnmarked
  <2>6. health'[o].status \in {"zombie", "restarting"}
    BY <1>4, <2>4, <2>5 DEF Quiet
  <2> QED
    BY <1>1, <2>2, <2>3, <2>4, <2>6
<1>5. ASSUME NEW j \in Checks, NEW o \in Objects, PassesOn(j, o)
      PROVE  /\ live'[w] # 0
             /\ health'[<<w, live'[w]>>].status \in {"zombie", "restarting"}
  <2>1. PoolCalm /\ live' = live /\ health' = health
    BY <1>5, PassesOnCalm
  <2> QED
    BY <1>2, <2>1, CalmMarks
<1>6. ASSUME NEW j \in Checks, NEW o \in Objects, o[1] # w, Invoking(j, o, check'[j].pc),
             Grown(pool, pool'), pool'.workers[w] = pool.workers[w]
      PROVE  /\ live'[w] # 0
             /\ health'[<<w, live'[w]>>].status \in {"zombie", "restarting"}
  <2>1. Marked(w)
    BY <1>6, MarkedBefore
  <2>2. <<w, live[w]>> \in Objects /\ <<w, live[w]>> # o
    BY <1>1, <1>6, <2>1
  <2>3. live' = live /\ health'[<<w, live[w]>>] = health[<<w, live[w]>>]
    BY <1>6, <2>2 DEF Invoking
  <2> QED
    BY <1>2, <2>1, <2>3
<1>7. ASSUME NEW j \in Checks, NEW o \in Objects, Marks(j, o)
      PROVE  /\ live'[w] # 0
             /\ health'[<<w, live'[w]>>].status \in {"zombie", "restarting"}
  <2>1. /\ Invoking(j, o, "zombie") /\ check'[j].pc = "zombie"
        /\ IsLive(o) /\ live' = live /\ health'[o].status = "zombie"
        /\ o[1] \in Workers /\ o[2] # 0 /\ o = <<o[1], o[2]>>
        /\ pool' = P!MarkZombie(pool, o[1])
    BY <1>7, MonitorAssumption DEF Marks, Invoking, Objects
  <2>2. CASE o[1] = w
    BY <2>1, <2>2 DEF IsLive
  <2>3. CASE o[1] # w
    <3>1. Grown(pool, pool') /\ pool'.workers[w] = pool.workers[w]
      BY <2>1, <2>3, MarkedPool
    <3> QED
      BY <1>6, <2>1, <2>3, <3>1
  <2> QED
    BY <2>2, <2>3
<1>8. ASSUME NEW j \in Checks, NEW o \in Objects, Restarts(j, o)
      PROVE  /\ live'[w] # 0
             /\ health'[<<w, live'[w]>>].status \in {"zombie", "restarting"}
  <2>1. /\ Invoking(j, o, "restart") /\ check'[j].pc = "restart"
        /\ o[1] \in Workers /\ pool' = P!Release(pool, o[1])
    BY <1>8 DEF Restarts, Invoking, Objects
  <2>2. /\ Grown(pool, pool') /\ pool'.workers[o[1]] = P!Idle
        /\ \A v \in Workers : v # o[1] => pool'.workers[v] = pool.workers[v]
    BY <2>1, ReleasedPool
  <2>3. o[1] # w
    BY <2>2 DEF Marked, P!Idle
  <2>4. pool'.workers[w] = pool.workers[w]
    BY <2>2, <2>3
  <2> QED
    BY <1>6, <2>1, <2>2, <2>3, <2>4
<1> QED
  BY <1>3, <1>4, <1>5, <1>7, <1>8 DEF KindOfStep

-----------------------------------------------------------------------------
(* The pool and its monitor: the invariant *)

\* The kinds of steps are all there are, and to the monitor they are steps of its own.
LEMMA RecoveryStepKind ==
  ASSUME RInv, [RecoveryNext]_allVars
  PROVE  KindOfStep /\ [Next]_vars /\ config' = config
<1>1. CASE UNCHANGED allVars
  <2>1. UNCHANGED vars /\ pool' = pool
    BY <1>1 DEF allVars
  <2>2. Sound(pool) /\ \A w \in Workers : Known(Issue(w))
    BY DEF RInv, TasksKnown
  <2>3. PoolCalm
    BY <2>1, <2>2 DEF PoolCalm, Grown, Calm, QueueServed, Known, Issue
  <2> QED
    BY <2>1, <2>3 DEF KindOfStep, OwnerStep, vars
<1>2. ASSUME \/ \E i \in Tasks : Submit(i) \/ StartNext(i)
             \/ \E w \in Workers, id \in P!Orders :
                  FailWork(w, id) \/ \E success \in BOOLEAN : CompleteWork(w, id, success)
      PROVE  KindOfStep /\ [Next]_vars /\ config' = config
  <2>1. OwnerStep
    BY <1>2, OwnerSteps DEF OwnerStep
  <2> QED
    BY <2>1 DEF KindOfStep, OwnerStep, vars
<1>3. ASSUME NEW w \in Workers, NEW d \in 0..MaxDelay, Heartbeat(w, d)
      PROVE  KindOfStep /\ [Next]_vars /\ config' = config
  <2>1. RecordHeartbeat(w, Issue(w), d) /\ Issue(w) \in Tasks \cup {NoTask} /\ Quiet
    BY <1>3, HeartbeatQuiet
  <2>2. WorkerStep(w)
    BY <2>1 DEF WorkerStep
  <2> QED
    BY <2>1, <2>2 DEF KindOfStep, Next, RecordHeartbeat
<1>4. ASSUME NEW k \in Checks, Recover(k)
      PROVE  KindOfStep /\ [Next]_vars /\ config' = config
  <2>1. KindOfStep
    BY <1>4, RecoverKinds DEF KindOfStep
  <2>2. CheckStep(k)
    BY <1>4 DEF Recover
  <2>3. config' = config
    BY <2>2 DEF CheckStep, CheckWorkerHealth, ZombieHandled, Reassigned, Restarted, EndCheck
  <2> QED
    BY <2>1, <2>2, <2>3 DEF Next
<1>5. CASE MonitorStep
  <2>1. Quiet /\ Next
    BY <1>5, MonitorQuiet
  <2>2. config' = config
    BY <1>5 DEF MonitorStep, Start, TimerFires, BeginCheck, Stop, Advance
  <2> QED
    BY <2>1, <2>2 DEF KindOfStep
<1> QED
  BY <1>1, <1>2, <1>3, <1>4, <1>5 DEF RecoveryNext

LEMMA StepRInv == RInv /\ [RecoveryNext]_allVars => RInv'
<1> SUFFICES ASSUME RInv, [RecoveryNext]_allVars PROVE RInv'
  OBVIOUS
<1>1. KindOfStep /\ [Next]_vars /\ config' = config
  BY RecoveryStepKind
<1>2. IInv'
  BY <1>1, StepIInv DEF RInv
<1>3. LiveKept /\ TasksFollow /\ PoolGrows /\ LossCounted
  BY <1>1, StepFollows
<1>4. VisitedAreLive' /\ SilentUnlessLive' /\ TasksKnown' /\ TasksCurrent'
  BY <1>2, <1>3, FollowKeeps
<1>5. PassedOn' /\ RestartedUnmarked' /\ MarkedRecover'
  BY <1>1, PassedOnKept, RestartedUnmarkedKept, MarkedRecoverKept
<1>6. config' = Wired /\ Sound(pool)'
  BY <1>1, <1>3 DEF RInv, PoolGrows, Wired, Sound
<1> QED
  BY <1>2, <1>4, <1>5, <1>6 DEF RInv

LEMMA InitRInv == RecoveryInit => RInv
<1> SUFFICES ASSUME RecoveryInit PROVE RInv
  OBVIOUS
<1>1. IInv /\ config = Wired
  BY InitIInv DEF RecoveryInit
<1>2. PICK f \in [P!Orders -> Tasks] : pool = [P!NewPool EXCEPT !.orders = f]
  BY DEF RecoveryInit
<1>3. P!Idle \in P!WorkerInfo /\ P!Consistent(P!Idle)
      /\ P!Idle.status = "idle" /\ P!Idle.issue = NoTask
  BY DEF P!Idle, P!WorkerInfo, P!Consistent
<1>4. pool.workers = [w \in Workers |-> P!Idle]
  BY <1>2, SlotsAreWorkers DEF P!NewPool
<1>5. Sound(pool)
  <2>1. 0 \in 0..MaxOrders
    BY RecoveryAssumption
  <2>2. pool \in P!Pool
    BY <1>2, <1>3, <2>1 DEF P!NewPool, P!Pool
  <2> QED
    BY <1>3, <1>4, <2>2 DEF Sound
<1>6. \A w \in Workers : pool.workers[w].status = "idle" /\ Issue(w) = NoTask
  BY <1>3, <1>4 DEF Issue
<1>7. /\ \A o \in Objects : health[o].task = NoTask
      /\ \A k \in Checks : check[k].pc = "idle" /\ check[k].visited = {} /\ check[k].task = NoTask
  BY DEF RecoveryInit, Init, NewHealth, IdleCheck
<1>8. VisitedAreLive /\ SilentUnlessLive /\ TasksKnown
  BY <1>6, <1>7 DEF VisitedAreLive, SilentUnlessLive, TasksKnown, Known
<1>9. TasksCurrent /\ PassedOn /\ RestartedUnmarked /\ MarkedRecover
  BY <1>6, <1>7 DEF TasksCurrent, Current, Recovers, PassedOn, RestartedUnmarked, MarkedRecover,
                    Marked
<1> QED
  BY <1>1, <1>5, <1>8, <1>9 DEF RInv

\* The inductive invariant of the pool with its monitor holds in every reachable state.
THEOREM RecoveryInvariance == RecoverySpec => []RInv
BY InitRInv, StepRInv, PTL DEF RecoverySpec

\* The pool with its monitor implements the monitor: what handlers and the owner of the
\* pool do leaves the monitor's state alone or is one of its steps, and a worker reports
\* only tasks the monitor allows for.
THEOREM RecoveryImplementsMonitor == RecoverySpec => SafeSpec
<1>1. RecoveryInit => Init
  BY DEF RecoveryInit
<1>2. RInv /\ [RecoveryNext]_allVars => [Next]_vars
  BY RecoveryStepKind
<1> QED
  BY <1>1, <1>2, RecoveryInvariance, PTL DEF RecoverySpec, SafeSpec

\* A worker is out of the pool only while the monitor works on its recovery, or because
\* its task failed: for any number of workers, tasks, orders and overlapping checks.
THEOREM RecoveredAvailable == RecoverySpec => []RecoveredIsAvailable
<1>1. ASSUME RInv PROVE RecoveredIsAvailable
  <2> SUFFICES ASSUME MaxStall < Cooldown \/ NoOverlap, NEW w \in Workers,
                      pool.workers[w].status = "error", ~Failed(Issue(w))
               PROVE  live[w] # 0 /\ health[<<w, live[w]>>].status \in {"zombie", "restarting"}
    BY DEF RecoveredIsAvailable
  <2>1. Prompt /\ Marked(w)
    BY <1>1, WiredHandlers DEF Prompt, Marked
  <2> QED
    BY <1>1, <2>1 DEF RInv, MarkedRecover
<1>2. RInv => RecoveredIsAvailable
  BY <1>1
<1> QED
  BY <1>2, RecoveryInvariance, PTL

\* A check that restarts a worker whose task it has passed on does not lose the task.
THEOREM TaskKept == RecoverySpec => ReassignedTaskKept
<1> DEFINE Kept(k, i, w) ==
      \/ Holds(pool', i) \/ Finished(pool', i)
      \/ /\ health[check[k].obj].restarts > 0
         /\ pool.workers[w] = [status |-> "working", issue |-> i]
<1>1. ASSUME RInv, [RecoveryNext]_allVars, NoOverlap, NEW k \in Checks,
             check[k].pc = "reassign", Invokes(k, "restart")
      PROVE  Kept(k, check[k].task, Worker(k))
  <2>1. KindOfStep
    BY <1>1, RecoveryStepKind
  <2>2. check'[k].pc = "restart" /\ \A j \in Checks : j = k
    BY <1>1 DEF Invokes, NoOverlap
  <2>3. PICK o \in Objects : Restarts(k, o)
    <3>1. ~OwnerStep
      BY <1>1, <2>2 DEF OwnerStep, vars
    <3>2. ~Quiet
      BY <1>1, <2>2 DEF Quiet, SameCheck, NoHandler, Awaits
    <3>3. PICK j \in Checks, o \in Objects : Marks(j, o) \/ PassesOn(j, o) \/ Restarts(j, o)
      BY <2>1, <3>1, <3>2 DEF KindOfStep
    <3> QED
      BY <2>2, <3>3 DEF Marks, PassesOn, Invoking
  <2>4. /\ check[k].obj = o /\ o[1] \in Workers /\ check'[k].obj = o
        /\ pool' = P!Release(pool, o[1])
    BY <2>3 DEF Restarts, Invoking, Objects
  <2>5. PICK i : i = check[k].task
    OBVIOUS
  <2>6. Placed(pool, o, i)
    BY <1>1, <2>4, <2>5 DEF RInv, PassedOn
  <2>7. /\ Grown(pool, pool') /\ pool'.queue = pool.queue
        /\ \A v \in Workers : v # o[1] => pool'.workers[v] = pool.workers[v]
    BY <1>1, <2>4, ReleasedPool
  <2>8. Finished(pool, i) => Finished(pool', i)
    BY <2>7, ResultsStay
  <2>9. \/ Holds(pool', i) \/ Finished(pool', i)
        \/ health[o].restarts > 0 /\ pool.workers[o[1]] = [status |-> "working", issue |-> i]
    BY <2>6, <2>7, <2>8 DEF Placed, Holds
  <2> QED
    BY <2>4, <2>5, <2>9 DEF Worker
<1>2. RInv /\ [RecoveryNext]_allVars =>
        [NoOverlap =>
           \A k \in Checks : check[k].pc = "reassign" /\ Invokes(k, "restart") =>
             Kept(k, check[k].task, Worker(k))]_allVars
  BY <1>1
<1> QED
  BY <1>2, RecoveryInvariance, PTL DEF RecoverySpec, ReassignedTaskKept

=============================================================================
