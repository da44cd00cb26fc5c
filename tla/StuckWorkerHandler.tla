------------------------- MODULE StuckWorkerHandler -------------------------
(***************************************************************************)
(* controller/StuckWorkerHandler, as ProgressMonitor polls it: every poll  *)
(* starts a check of all workers that nobody waits for, so a check may be  *)
(* in a handler or an event listener when the next ones run.               *)
(*                                                                         *)
(* What is tracked of a worker is an object: a check that waits keeps the  *)
(* one it began with, also when the worker is no longer tracked by it.     *)
(* Nobody catches what a check throws: the process exits.                  *)
(* Times are ages in ticks.  Instance: autoRecoveryEnabled, no task types. *)
(***************************************************************************)
EXTENDS Naturals, FiniteSets

CONSTANTS Workers,
          Checks,            \* bound: the checks that can overlap
          Warning, Stuck, Critical,   \* the three thresholds
          MaxAttempts,       \* maxRecoveryAttempts
          MaxLag,            \* bound: how long a check takes
          Configs            \* the configurations considered, see config

Handlers == {"extend_deadline", "reassign_task", "restart_worker"}

\* ... and those of a critical escalation, taken as one that is set
HandOvers == {"escalate_critical"}

ASSUME StuckAssumption ==
  /\ Warning \in Nat /\ Stuck \in Nat /\ Critical \in Nat
  /\ 0 < Warning /\ Warning < Stuck /\ Stuck < Critical
  /\ MaxAttempts \in Nat /\ MaxLag \in Nat
  /\ IsFiniteSet(Workers) /\ IsFiniteSet(Checks)
  /\ Configs \subseteq [workers : SUBSET Workers, checks : SUBSET Checks, handlers : SUBSET Handlers,
                       failing : SUBSET (Handlers \cup HandOvers), ending : SUBSET Workers]

VARIABLES config,    \* the workers and checks, the handlers that are set, those that may
                     \* reject, and the workers that can end their tasks
          task,      \* the age of each worker's task, or NoTask
          object,    \* the tracked states, by reference
          tracked,   \* trackedWorkers: the reference of each worker's, or NoObject
          check,     \* the checks
          manual     \* the tasks that were handed to a human

vars == <<config, task, object, tracked, check, manual>>

-----------------------------------------------------------------------------
Cap == Critical + MaxLag
Ages == 0..Cap
NoTask == Cap + 1

Older(age) == IF age < Cap THEN age + 1 ELSE age

\* The states a worker's checks can refer to besides the tracked one
Objects == Workers \X (0..Cardinality(Checks))
NoObject == <<>>

Levels == {"none", "warning", "stuck", "critical"}
Actions == Handlers \cup {"send_warning"}

\* determineEscalationLevel, as the check sees the time
LevelOf(age, lag) ==
  CASE age >= Critical + lag -> "critical"
    [] age < Critical + lag /\ age >= Stuck + lag -> "stuck"
    [] age < Stuck + lag /\ age >= Warning + lag -> "warning"
    [] OTHER -> "none"

\* determineRecoveryAction, before the attempt is counted
ActionFor(level, attempts) ==
  CASE level = "warning" -> "send_warning"
    [] level = "stuck" /\ attempts = 0 -> "extend_deadline"
    [] level = "stuck" /\ attempts = 1 -> "reassign_task"
    [] OTHER -> "restart_worker"

\* "seen" is the pool's status that the check got, its ages then
Off == [pc |-> "off", seen |-> [w \in Workers |-> NoTask], left |-> {}, lag |-> 0, worker |-> "none",
        ref |-> NoObject, level |-> "none", action |-> "send_warning"]

References(tr, ch) ==
  ({tr[w] : w \in Workers} \cup {ch[k].ref : k \in Checks}) \ {NoObject}

\* The objects stay that somebody refers to
Refer(tr, ch, ob) ==
  /\ tracked' = tr /\ check' = ch
  /\ object' = [r \in References(tr, ch) |-> ob[r]]

Untracked(w) == [tracked EXCEPT ![w] = NoObject]

With(ref, state) == [r \in DOMAIN object \cup {ref} |-> IF r = ref THEN state ELSE object[r]]

Taken(c, w) == [c EXCEPT !.left = @ \ {w}, !.seen[w] = NoTask]

\* The check has thrown
Thrown == [Off EXCEPT !.pc = "thrown"]

\* The process ends on a rejection that nobody handles
Exited == \E k \in Checks : check[k].pc = "thrown"

\* The check goes on with the workers that are left
Continue(c) == [c EXCEPT !.pc = "next", !.worker = "none", !.ref = NoObject, !.level = "none", !.action = "send_warning"]

-----------------------------------------------------------------------------
(* The pool *)

StartTask(w) ==
  /\ w \in config.workers /\ task[w] = NoTask
  /\ task' = [task EXCEPT ![w] = 0]
  /\ manual' = manual \ {w}
  /\ UNCHANGED <<config, object, tracked, check>>

EndTask(w) ==
  /\ w \in config.ending /\ task[w] # NoTask
  /\ task' = [task EXCEPT ![w] = NoTask]
  /\ UNCHANGED <<config, object, tracked, check, manual>>

-----------------------------------------------------------------------------
(* A check *)

Poll(k) ==
  /\ k \in config.checks /\ check[k].pc = "off"
  /\ check' = [check EXCEPT ![k] = [Off EXCEPT !.pc = "next", !.seen = task, !.left = config.workers]]
  /\ UNCHANGED <<config, task, object, tracked, manual>>

\* A worker that was seen without a task
Idle(k, w) ==
  /\ check[k].seen[w] = NoTask
  /\ Refer(Untracked(w), [check EXCEPT ![k] = Taken(@, w)], object)

NewObject == [age |-> 0, last |-> "none", attempts |-> 0]

Tracked(k, w) ==
  IF tracked[w] # NoObject THEN object[tracked[w]]
  ELSE LET age == check[k].seen[w] + check[k].lag
       IN  [NewObject EXCEPT !.age = IF age < Cap THEN age ELSE Cap]

\* A worker that was seen with one: tracked if it was not, and escalated if its level is new
Working(k, w) ==
  LET ref == IF tracked[w] # NoObject THEN tracked[w]
             ELSE CHOOSE r \in {w} \X (0..Cardinality(Checks)) : r \notin DOMAIN object
      state == Tracked(k, w)
      level == LevelOf(state.age, check[k].lag)
      escalates == level \notin {"none", state.last}
  IN  /\ check[k].seen[w] # NoTask
      /\ Refer([tracked EXCEPT ![w] = ref],
               [check EXCEPT ![k] = IF ~escalates THEN Taken(@, w)
                                    ELSE [Taken(@, w) EXCEPT !.pc = "escalating", !.worker = w,
                                                             !.ref = ref, !.level = level]],
               With(ref, IF escalates THEN [state EXCEPT !.last = level] ELSE state))

Take(k) ==
  /\ check[k].pc = "next"
  /\ \E w \in check[k].left : Idle(k, w) \/ Working(k, w)
  /\ UNCHANGED <<config, task, manual>>

Finish(k) ==
  /\ check[k].pc = "next" /\ check[k].left = {}
  /\ check' = [check EXCEPT ![k] = Off]
  /\ UNCHANGED <<config, task, object, tracked, manual>>

Exhausted(o) == o.attempts >= MaxAttempts

Counted(o) == [o EXCEPT !.attempts = @ + 1]

\* attemptRecovery, once the listeners were told of the escalation.  A warning needs no handler,
\* and an action whose handler is not set does nothing.
Attempt(k) ==
  LET c == check[k]
      o == object[c.ref]
      action == ActionFor(c.level, o.attempts)
  IN  /\ c.pc = "escalating"
      /\ \/ /\ Exhausted(o)
            /\ Refer(tracked, [check EXCEPT ![k] = IF c.level = "critical" THEN [c EXCEPT !.pc = "manual"]
                                                  ELSE Continue(c)], object)
         \/ /\ ~Exhausted(o)
            /\ Refer(tracked, [check EXCEPT ![k] = IF action \in config.handlers
                                                  THEN [c EXCEPT !.pc = "acting", !.action = action]
                                                  ELSE Continue(c)],
                     With(c.ref, Counted(o)))
      /\ UNCHANGED <<config, task, manual>>

RestartedOnly(o) == [o EXCEPT !.age = 0]   \* *mutant*: the level is kept

RestartedAnew(o) == NewObject   \* *mutant*: the attempts are forgotten as well

Restarted(o) == [o EXCEPT !.age = 0, !.last = "none"]

\* The handler of the action resolves; a reassignment finds another worker or none
Acts(k) ==
  LET c == check[k]
      o == object[c.ref]
  IN  /\ c.pc = "acting"
      /\ \E tr \in IF c.action = "reassign_task" THEN {tracked, Untracked(c.worker)} ELSE {tracked} :
           Refer(tr, [check EXCEPT ![k] = Continue(c)],
                 With(c.ref, CASE c.action = "extend_deadline" -> [o EXCEPT !.age = 0]
                               [] c.action = "reassign_task" -> o
                               [] c.action = "restart_worker" -> Restarted(o)))
      /\ UNCHANGED <<config, task, manual>>

\* The handler rejects: the check throws if that was the last attempt
ActionFails(k) ==
  LET c == check[k]
      last == c.level = "critical" /\ Exhausted(object[c.ref])
  IN  /\ c.pc = "acting" /\ c.action \in config.failing
      /\ Refer(tracked, [check EXCEPT ![k] = IF last THEN Thrown ELSE Continue(c)], object)
      /\ UNCHANGED <<config, task, manual>>

\* handleCriticalEscalation: its handlers resolve, or one of them rejects and the check throws
HandOver(k) ==
  /\ check[k].pc = "manual"
  /\ manual' = manual \cup {check[k].worker}
  /\ \E c \in {Continue(check[k])} \cup (IF config.failing \cap HandOvers # {} THEN {Thrown} ELSE {}) :
       Refer(tracked, [check EXCEPT ![k] = c], object)
  /\ UNCHANGED <<config, task>>

-----------------------------------------------------------------------------
Tick ==
  /\ \A k \in Checks : check[k].pc # "off" => check[k].lag < MaxLag
  /\ task' = [w \in Workers |-> IF task[w] = NoTask THEN NoTask ELSE Older(task[w])]
  /\ object' = [r \in DOMAIN object |-> [object[r] EXCEPT !.age = Older(@)]]
  /\ check' = [k \in Checks |-> IF check[k].pc = "off" THEN Off ELSE [check[k] EXCEPT !.lag = @ + 1]]
  /\ UNCHANGED <<config, tracked, manual>>
-----------------------------------------------------------------------------
Init ==
  /\ config \in Configs
  /\ task \in [Workers -> {0, NoTask}] /\ \A w \in Workers \ config.workers : task[w] = NoTask
  /\ object = <<>>
  /\ tracked = [w \in Workers |-> NoObject]
  /\ check = [k \in Checks |-> Off]
  /\ manual = {}

CheckStep(k) ==
  Take(k) \/ Finish(k) \/ Attempt(k) \/ Acts(k) \/ ActionFails(k) \/ HandOver(k)

Next ==
  \/ /\ ~Exited
     /\ \/ \E w \in Workers : StartTask(w) \/ EndTask(w)
        \/ \E k \in Checks : Poll(k) \/ CheckStep(k)
        \/ Tick
  \/ Exited /\ UNCHANGED vars

\* As long as the process runs, the interval fires, listeners and handlers settle, and time passes
Fairness ==
  /\ WF_vars(~Exited /\ Tick)
  /\ \A k \in Checks : WF_vars(~Exited /\ Poll(k)) /\ WF_vars(~Exited /\ CheckStep(k))

SafeSpec == Init /\ [][Next]_vars
Spec == SafeSpec /\ Fairness

-----------------------------------------------------------------------------
(* Properties *)

CheckType ==
  [pc : {"off", "next", "escalating", "acting", "manual", "thrown"}, seen : [Workers -> Ages \cup {NoTask}],
   left : SUBSET Workers, lag : 0..MaxLag, worker : Workers \cup {"none"},
   ref : Objects \cup {NoObject}, level : Levels, action : Actions]

\* Every variable has its type; no tracked state counts more than maxRecoveryAttempts attempts,
\* however many checks recover its worker at once.
TypeOK ==
  /\ config \in Configs
  /\ task \in [Workers -> Ages \cup {NoTask}]
  /\ DOMAIN object \subseteq Objects
  /\ object \in [DOMAIN object -> [age : Ages, last : Levels, attempts : 0..MaxAttempts]]
  /\ tracked \in [Workers -> Objects \cup {NoObject}]
  /\ check \in [Checks -> CheckType]
  /\ manual \subseteq Workers

\* A human is asked only when the automatic attempts are spent, which is what the handler says
\* to those it calls: whatever other checks do to the state that a check holds meanwhile - a
\* restart or an extension that ends, a worker that is dropped - no attempt comes back.
HandedOverExhausted ==
  \A k \in Checks : check[k].pc = "manual" =>
    check[k].level = "critical" /\ object[check[k].ref].attempts = MaxAttempts

Reassigns(w) == \E k \in Checks : Acts(k) /\ check[k].worker = w /\ tracked' # tracked

\* A worker that never ends its task is handed to a human, or reassigned again and again, if
\* restarts can be made and never fail: extensions, restarts, reassignments that fail, slow and
\* overlapping checks and the work for other workers do not make the handler forget it.  Only
\* a hand-over that rejects does, of any worker: it ends the process, and the others with it.
HungHandedOver ==
  \A w \in Workers :
    [](task[w] # NoTask) /\ "restart_worker" \in config.handlers \ config.failing
    => \/ <>(w \in manual)
       \/ []<><<Reassigns(w)>>_vars
       \/ config.failing \cap HandOvers # {} /\ <>Exited
=============================================================================
