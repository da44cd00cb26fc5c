------------------------ MODULE WorkerHealthMonitor ------------------------
(***************************************************************************)
(* Heartbeat tracking and zombie recovery, controller/WorkerHealthMonitor. *)
(*                                                                         *)
(* The interval timer starts a health check without waiting for the        *)
(* previous one, and a check awaits the handlers its owner installed, so   *)
(* several checks run interleaved over the same worker states.  A worker's *)
(* state is an object: a check that holds it keeps using it after the      *)
(* worker was unregistered.  An object is named by its worker and a number *)
(* that is free again once nothing refers to the object.                   *)
(*                                                                         *)
(* Time is counted in heartbeat intervals and kept as ages, each capped    *)
(* where no comparison of the code can tell larger values apart.           *)
(***************************************************************************)
EXTENDS Naturals

CONSTANTS Workers,           \* worker ids
          MaxRegistrations,  \* bound: state objects of one worker in use at once
          Checks,            \* bound: health checks that can overlap
          Tasks,             \* task ids a heartbeat may carry
          NoTask,
          Threshold,         \* missedHeartbeatThreshold
          CheckEvery,        \* healthCheckIntervalMs, in heartbeat intervals
          MaxRestarts,       \* maxRestarts
          Cooldown,          \* restartCooldownMs, in heartbeat intervals
          MaxStall,          \* bound: how long a check with its handlers lasts
          MaxDelay,          \* bound: age of a heartbeat when it is recorded
          Configs            \* the configurations considered, see config

Handlers == {"zombie", "reassign", "restart"}

ASSUME MonitorAssumption ==
  /\ NoTask \notin Tasks
  /\ MaxRegistrations \in Nat
  /\ Threshold \in Nat \ {0} /\ CheckEvery \in Nat \ {0}
  /\ MaxRestarts \in Nat /\ Cooldown \in Nat
  /\ MaxStall \in Nat /\ MaxDelay \in Nat /\ MaxDelay <= Threshold
  /\ Configs \subseteq [handlers : SUBSET Handlers, manual : BOOLEAN]

VARIABLES config,   \* the installed handlers; manual: resetWorkerHealth is used
          running,  \* isRunning
          timer,    \* heartbeat intervals until the interval timer fires
          live,     \* workerStates: the object each worker has, 0 if none
          health,   \* the worker state objects
          check     \* the performHealthCheck call in each slot

vars == <<config, running, timer, live, health, check>>

-----------------------------------------------------------------------------
(* Worker state objects *)

Objects == Workers \X (1..MaxRegistrations)
NoObject == <<>>

Statuses == {"healthy", "degraded", "zombie", "restarting"}

MaxAge == Threshold + MaxStall

\* "heard" is lastHeartbeat # null, "age" and "task" belong to lastHeartbeat, and
\* "rested" is the time since lastRestartAt, Cooldown when that is null or long ago
Health == [status : Statuses, heard : BOOLEAN, age : 0..MaxAge, task : Tasks \cup {NoTask},
           missed : 0..Threshold, restarts : 0..MaxRestarts, rested : 0..Cooldown]

NewHealth == [status |-> "healthy", heard |-> FALSE, age |-> 0, task |-> NoTask,
              missed |-> 0, restarts |-> 0, rested |-> Cooldown]

IsLive(o) == live[o[1]] = o[2]

Referenced(o) == IsLive(o) \/ \E k \in Checks : o \in check[k].visited

\* Objects nothing refers to any more are gone
Forget == health' = [o \in Objects |-> IF Referenced(o)' THEN health[o] ELSE NewHealth]

\* resetWorkerHealth, and a restart that succeeded: the restart count is kept
Recovered(h) ==
  [h EXCEPT !.status = "healthy", !.heard = FALSE, !.age = 0, !.task = NoTask, !.missed = 0]

AtMost(n, cap) == IF n <= cap THEN n ELSE cap

\* A heartbeat recorded in h when it is d old; a zombie stays one
Heard(h, task, d) ==
  [h EXCEPT !.heard = TRUE, !.age = d, !.task = task, !.missed = 0,
            !.status = IF @ = "degraded" THEN "healthy" ELSE @]

MissedIfHeard(h, s) ==
  IF h.heard /\ h.age > s THEN AtMost(h.age - s, Threshold) ELSE h.missed

MissedRoundedUp(h, s) ==
  IF ~h.heard THEN AtMost(h.missed + 1, Threshold)
  ELSE IF h.age >= s THEN AtMost(h.age - s + 1, Threshold)
  ELSE h.missed

\* The missed heartbeats of h as a check that read the clock s ago counts them
MissedSince(h, s) ==
  IF ~h.heard THEN AtMost(h.missed + 1, Threshold)
  ELSE IF h.age > s THEN AtMost(h.age - s, Threshold)
  ELSE h.missed

MayRestartHot(h) == h.restarts < MaxRestarts

MayRestartOnceMore(h) == h.rested >= Cooldown /\ h.restarts <= MaxRestarts

MayRestart(h) == h.rested >= Cooldown /\ h.restarts < MaxRestarts

Restarting(h) == [h EXCEPT !.status = "restarting", !.restarts = @ + 1, !.rested = 0]

-----------------------------------------------------------------------------
(* Registration, heartbeats, start and stop *)

\* The least number no object of worker w in use has, if there is one
Unused(w) ==
  {r \in 1..MaxRegistrations : /\ ~Referenced(<<w, r>>)
                               /\ \A q \in 1..(r - 1) : Referenced(<<w, q>>)}

\* registerWorker: a new state object for each worker of W that has none
Register(W) ==
  \E new \in [{w \in W : live[w] = 0} -> 1..MaxRegistrations] :
    /\ \A w \in DOMAIN new : new[w] \in Unused(w)
    /\ live' = [w \in Workers |-> IF w \in DOMAIN new THEN new[w] ELSE live[w]]

RegisterWorker(w) ==
  /\ live[w] = 0
  /\ Register({w})
  /\ UNCHANGED <<config, running, timer, health, check>>

UnregisterWorker(w) ==
  /\ live[w] # 0
  /\ live' = [live EXCEPT ![w] = 0]
  /\ UNCHANGED <<config, running, timer, check>>
  /\ Forget

\* An unknown worker is registered first
RecordHeartbeat(w, task, d) ==
  /\ Register({w})
  /\ health' = [health EXCEPT ![<<w, live'[w]>>] = Heard(@, task, d)]
  /\ UNCHANGED <<config, running, timer, check>>

ResetWorkerHealth(w) ==
  /\ config.manual
  /\ live[w] # 0
  /\ health' = [health EXCEPT ![<<w, live[w]>>] = Recovered(@)]
  /\ UNCHANGED <<config, running, timer, live, check>>

CheckPCs == {"idle", "loop", "zombie", "reassign", "restart"}

IdleCheck == [pc |-> "idle", stale |-> 0, visited |-> {}, obj |-> NoObject, task |-> NoTask]

\* performHealthCheck up to its loop: read the clock, register the pool's workers
BeginCheck(k) ==
  /\ check[k].pc = "idle"
  /\ check' = [check EXCEPT ![k] = [IdleCheck EXCEPT !.pc = "loop"]]
  /\ Register(Workers)
  /\ UNCHANGED <<config, health>>

\* start registers the workers and runs the first check at once
Start(k) ==
  /\ ~running
  /\ running' = TRUE
  /\ timer' = CheckEvery
  /\ BeginCheck(k)

TimerFires(k) ==
  /\ running /\ timer = 0
  /\ timer' = CheckEvery
  /\ BeginCheck(k)
  /\ UNCHANGED running

\* Checks in flight go on
Stop ==
  /\ running
  /\ running' = FALSE
  /\ timer' = 0
  /\ UNCHANGED <<config, live, health, check>>

Reset ==
  /\ running' = FALSE
  /\ timer' = 0
  /\ live' = [w \in Workers |-> 0]
  /\ UNCHANGED <<config, check>>
  /\ Forget

-----------------------------------------------------------------------------
(* A health check, from one await to the next *)

Loop(c) == [c EXCEPT !.pc = "loop", !.obj = NoObject, !.task = NoTask]

Await(c, handler, o, task) == [c EXCEPT !.pc = handler, !.obj = o, !.task = task]

\* The rest of the check of object o, whose state is now h, in the check c of slot k

\* The restart is decided and counted before the handler is awaited; without a
\* handler the worker stays "restarting"
AttemptRestart(k, c, o, h) ==
  /\ health' = [health EXCEPT ![o] = IF MayRestart(h) THEN Restarting(h) ELSE h]
  /\ check' = [check EXCEPT ![k] = IF MayRestart(h) /\ "restart" \in config.handlers
                                   THEN Await(c, "restart", o, NoTask) ELSE Loop(c)]

Reassigns(task) == task # NoTask /\ "reassign" \in config.handlers

ReassignOrRestart(k, c, o, h, task) ==
  \/ /\ Reassigns(task)
     /\ health' = [health EXCEPT ![o] = h]
     /\ check' = [check EXCEPT ![k] = Await(c, "reassign", o, task)]
  \/ /\ ~Reassigns(task)
     /\ AttemptRestart(k, c, o, h)

\* The task is the one of the last heartbeat, read before any handler runs
HandleZombie(k, c, o, h) ==
  LET zombie == [h EXCEPT !.status = "zombie"]
  IN  \/ /\ "zombie" \in config.handlers
         /\ health' = [health EXCEPT ![o] = zombie]
         /\ check' = [check EXCEPT ![k] = Await(c, "zombie", o, h.task)]
      \/ /\ "zombie" \notin config.handlers
         /\ ReassignOrRestart(k, c, o, zombie, h.task)

\* checkWorkerHealth of an object the live Map still holds and the loop has not met
CheckWorkerHealth(k, o) ==
  LET c == [check[k] EXCEPT !.visited = @ \cup {o}]
      h == [health[o] EXCEPT !.missed = MissedSince(health[o], check[k].stale)]
  IN  /\ check[k].pc = "loop"
      /\ IsLive(o) /\ o \notin check[k].visited
      /\ \/ /\ health[o].status = "restarting"
            /\ check' = [check EXCEPT ![k] = c]
            /\ UNCHANGED health
         \/ /\ health[o].status # "restarting"
            /\ h.missed >= Threshold
            /\ HandleZombie(k, c, o, h)
         \/ /\ health[o].status # "restarting"
            /\ h.missed < Threshold
            /\ health' = [health EXCEPT ![o] =
                 IF h.missed > 0 /\ h.status = "healthy" THEN [h EXCEPT !.status = "degraded"] ELSE h]
            /\ check' = [check EXCEPT ![k] = c]
      /\ UNCHANGED <<config, running, timer, live>>

\* The zombie handler settled; a handler that throws is logged and passed over
ZombieHandled(k) ==
  /\ check[k].pc = "zombie"
  /\ ReassignOrRestart(k, check[k], check[k].obj, health[check[k].obj], check[k].task)
  /\ UNCHANGED <<config, running, timer, live>>

Reassigned(k) ==
  /\ check[k].pc = "reassign"
  /\ AttemptRestart(k, check[k], check[k].obj, health[check[k].obj])
  /\ UNCHANGED <<config, running, timer, live>>

\* The restart handler resolved or threw
Restarted(k, success) ==
  /\ check[k].pc = "restart"
  /\ health' = [health EXCEPT ![check[k].obj] =
                  IF success THEN Recovered(@) ELSE [@ EXCEPT !.status = "zombie"]]
  /\ check' = [check EXCEPT ![k] = Loop(@)]
  /\ UNCHANGED <<config, running, timer, live>>

EndCheck(k) ==
  /\ check[k].pc = "loop"
  /\ \A o \in Objects : IsLive(o) => o \in check[k].visited
  /\ check' = [check EXCEPT ![k] = IdleCheck]
  /\ UNCHANGED <<config, running, timer, live>>
  /\ Forget

\* A heartbeat interval passes.  A check whose handlers have taken MaxStall settles
\* first, and the interval timer fires when it is due.
Advance ==
  /\ \A k \in Checks : check[k].pc # "idle" => check[k].stale < MaxStall
  /\ running => timer > 0
  /\ timer' = IF running THEN timer - 1 ELSE 0
  /\ check' = [k \in Checks |->
                 IF check[k].pc = "idle" THEN check[k] ELSE [check[k] EXCEPT !.stale = @ + 1]]
  /\ health' = [o \in Objects |->
                  [health[o] EXCEPT !.age = IF health[o].heard THEN AtMost(@ + 1, MaxAge) ELSE 0,
                                    !.rested = AtMost(@ + 1, Cooldown)]]
  /\ UNCHANGED <<config, running, live>>

-----------------------------------------------------------------------------
Init ==
  /\ config \in Configs
  /\ running = FALSE
  /\ timer = 0
  /\ live = [w \in Workers |-> 0]
  /\ health = [o \in Objects |-> NewHealth]
  /\ check = [k \in Checks |-> IdleCheck]

WorkerStep(w) ==
  \/ RegisterWorker(w)
  \/ UnregisterWorker(w)
  \/ ResetWorkerHealth(w)
  \/ \E task \in Tasks \cup {NoTask}, d \in 0..MaxDelay : RecordHeartbeat(w, task, d)

CheckStep(k) ==
  \/ \E o \in Objects : CheckWorkerHealth(k, o)
  \/ ZombieHandled(k)
  \/ Reassigned(k)
  \/ \E success \in BOOLEAN : Restarted(k, success)
  \/ EndCheck(k)

Next ==
  \/ \E w \in Workers : WorkerStep(w)
  \/ \E k \in Checks : Start(k) \/ TimerFires(k) \/ CheckStep(k)
  \/ Stop
  \/ Reset
  \/ Advance

\* Node runs its timers and callbacks, handlers settle, and time passes
Fairness ==
  /\ WF_vars(Advance)
  /\ WF_vars(\E k \in Checks : TimerFires(k))
  /\ \A k \in Checks : WF_vars(CheckStep(k))

SafeSpec == Init /\ [][Next]_vars
Spec == SafeSpec /\ Fairness

-----------------------------------------------------------------------------
(* Properties *)

\* Every variable has its type.
TypeOK ==
  /\ config \in Configs
  /\ running \in BOOLEAN
  /\ timer \in 0..CheckEvery
  /\ live \in [Workers -> 0..MaxRegistrations]
  /\ health \in [Objects -> Health]
  /\ check \in [Checks -> [pc : CheckPCs, stale : 0..MaxStall, visited : SUBSET Objects,
                           obj : Objects \cup {NoObject}, task : Tasks \cup {NoTask}]]
  /\ \A k \in Checks : (check[k].obj = NoObject) <=> check[k].pc \in {"idle", "loop"}

\* The step in which a check examines object o
Examines(o) ==
  \E k \in Checks : check[k].pc = "loop" /\ o \in check'[k].visited \ check[k].visited

BeingRestarted(o) == {k \in Checks : check[k].pc = "restart" /\ check[k].obj = o}

\* Handlers that settle within the cooldown never overlap with another restart of the
\* same worker, however many checks reach attemptWorkerRestart for it and even when
\* resetWorkerHealth is called meanwhile: a worker is respawned once at a time.
OneRestartAtATime ==
  MaxStall < Cooldown =>
    \A o \in Objects : \A j, k \in BeingRestarted(o) : j = k

\* Nor is a worker restarted that is no zombie any more: a check that awaits its
\* zombie and reassign handlers while another check restarts the worker finds the
\* cooldown.  (resetWorkerHealth, called while a handler is awaited, breaks this.)
OnlyZombiesRestarted ==
  [][MaxStall < Cooldown /\ ~config.manual =>
       \A o \in Objects : health'[o].restarts > health[o].restarts =>
         health[o].status = "zombie" \/ Examines(o)]_vars

\* A worker is found a zombie by a check only if its last heartbeat is Threshold
\* intervals old, or none was recorded: a clock read before the heartbeat, a check
\* overtaken by another, or a count left from before it do not add up to a zombie.
NoFalseZombie ==
  [][\A o \in Objects :
       /\ Examines(o)
       /\ health'[o].status \in {"zombie", "restarting"}
       /\ health[o].status \in {"healthy", "degraded"}
       => ~health[o].heard \/ health[o].age >= Threshold]_vars

\* A worker that stays silent, whatever happened to it before, is reported as zombie
\* or restarting again and again, unless it is unregistered or reset for ever.
Disturbed(w) ==
  \/ live'[w] # live[w]
  \/ /\ live[w] # 0
     /\ \/ health'[<<w, live[w]>>].heard # health[<<w, live[w]>>].heard
        \/ health'[<<w, live[w]>>].missed < health[<<w, live[w]>>].missed
        \/ health'[<<w, live[w]>>].age < health[<<w, live[w]>>].age

Reported(w) == live[w] # 0 /\ health[<<w, live[w]>>].status \in {"zombie", "restarting"}

SilenceDetected ==
  \A w \in Workers :
    <>[]running /\ <>[][~Disturbed(w)]_vars => []<>Reported(w)
=============================================================================
