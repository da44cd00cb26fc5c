# Verification of the AD-SDLC agent pipeline

TLA+ modules, model-checking configurations and machine-checked proofs for the
parts of AD-SDLC that coordinate work: the pipeline orchestrator and its stage
scheduler, the worker pool, its health monitor, its handler of stuck workers and
its bounded queue, the project state that several processes change, the circuit
breaker that shields an agent, and the lock and the cached, batched writes of the
shared scratchpad. Paths below are relative to `src/src/` unless they begin with
`docs/`.

Everything runs in one Node.js event loop per process. There are no data races
in memory, so the hard behaviours are of another kind, and they are what the
models are about:

- **awaits**: a method checks something, awaits (an event handler, a delay, a
  file), and goes on with what it had checked;
- **calls nobody awaits**: interval timers start a health check while the last
  one still waits for its handlers, a heartbeat timer writes a lock file while
  it is released;
- **several processes** that meet in files under `.ad-sdlc/scratchpad`;
- **crashes and failed writes** between two steps that belong together.

Between two awaits a method runs alone, so the grain of every model is: one
action from one await to the next, with everything it does on the way. Where
another process can interfere, every file system call is a step.

## 1. Inventory

### Modelled

| Component | State it keeps | Operations | Interacts with |
|---|---|---|---|
| Pipeline orchestrator (`ad-sdlc-orchestrator/AdsdlcOrchestratorAgent`, `StageScheduler`, `ApprovalGate`, `PipelineCheckpointManager`) | the session and its stage results, the `AbortController`, one YAML file and the checkpoint files of each session | `startSession` (new, from a stage, resumed), `executePipeline`, `dispose` | agents through the execution adapter, the operator through the approval gate, a later process through the files |
| `BoundedWorkQueue` (`controller/`) | two `Map`s (work, dead letters), backpressure and soft limit flags | `enqueue`, `dequeue`, `remove`, `clear`, `retryFromDeadLetter`, dead letter housekeeping | its event callback, which it awaits |
| `WorkerHealthMonitor` (`controller/`) | a state object per worker, the running flag and the interval timer | registration, heartbeats, checks, `start`/`stop`/`reset`, `resetWorkerHealth` | zombie, reassignment and restart handlers, which it awaits |
| `WorkerPoolManager` (`controller/`) | worker slots, work orders and their counter, the queue, completed and failed orders; `controller_state.json` and one file per order | assignment, completion, failure, release, queueing, order creation, save/load/synchronize, plain and `WithLock`; the integration methods of the monitor | the lock, the files, the monitor |
| Scratchpad locking (`scratchpad/Scratchpad`) | one lock file per path; the active locks of a process with their timers | `withLock`, `acquireLock`, `releaseLock`, steal, cooperative release, heartbeat, auto-release | other processes through the file |
| Cached scratchpad (`scratchpad/WriteBatcher`, `CachedScratchpad`, `LRUCache`) | the pending write of each file, the flush in flight, the cache | `write`, `writeImmediate`, atomic writes, `flush`, `close`, `readYaml` and its kind, `deleteFile`, `cleanup` | its callers, the timer of the batcher, the files, other processes |
| Circuit breaker and retries (`error-handler/CircuitBreaker`, `RetryHandler`, `RetryExecutor`) | state of the circuit, counters, time of the last failure | `execute`, `recordSuccess`/`recordFailure` by `withRetry` and `executeWithResult`, `reset` | the operations of its callers, whose results come in any later state |
| State manager (`state-manager/`) | metadata, sections, checkpoints and the audit log of a project, each a file; locks of two of them | updates, transitions, skips, recoveries, overrides, restores | other processes through files and locks |
| Stuck workers (`controller/StuckWorkerHandler`, polled by `ProgressMonitor`) | a tracked object per worker with escalation level and recovery attempts | `checkWorkers`, the three recovery actions, critical escalation | three recovery handlers, which it awaits; the poll, which does not await it |

What makes each of them correct:

- *Pipeline*: a stage starts only after its dependencies were completed, however
  often the session was resumed; no file claims more than agents completed; no
  stage is dropped, and none gets two results; an abort stops the pipeline; every
  run ends.
- *Queue*: the limits hold up to what the awaits make unavoidable, and the flags
  never contradict the size.
- *Monitor*: silent workers are found, live ones are not; a worker is restarted
  once at a time and within its budget, although checks overlap.
- *Pool*: the state of a worker agrees with its issue in memory and on file;
  orders in memory and on file agree; results are not lost by synchronization; a
  task that was passed on survives the restart of its zombie.
- *Lock*: mutual exclusion, and an abandoned lock does not block the others for ever.
- *Cached scratchpad*: a file never goes back to an older content, a fulfilled
  promise means a stored write, every write is settled in the end, and a caller
  reads what it wrote.
- *Breaker*: a half-open circuit is never left without a trial to decide it, and
  one whose service recovered closes.
- *State manager*: no merge of a section and no change of state is lost; whoever
  moves a project past its table of transitions leaves a checkpoint and a trace;
  locks are given back.
- *Stuck workers*: attempts are bounded although checks overlap, and a worker that
  hangs is handed to a human or to another worker.

### Not modelled

Components without coordination of their own, or whose coordination is another
program's; `PROJECT.json` lists each with its reason.

- The document agents, the code and repository agents and the validation agents read
  inputs and write outputs sequentially: to the pipeline they are steps that
  succeed, fail or time out. The worker agent is one sequential procedure per
  issue, whose retry loop is the one of `executeStageWithRetry`. Together with their
  templates, parsers and rules they are most of the source.
- The analysis orchestrator is a smaller pipeline in a fixed order; the control plane
  forwards calls. The scheduler modelled here is the general case.
- Pull request review, CI polling and the chain of CI fixes are sequential procedures around
  GitHub calls; `CICircuitBreaker` is a counter one such procedure owns.
- `WorkerProcessManager` turns exits and signals of child processes into callbacks:
  what the rest of the system sees of it is the environment of the monitor's models.
- Budgets, metrics and alerts are synchronous counters with floating-point costs and no
  callers that overlap. Priority analysis and pool metrics compute on a snapshot.
- `utilities/Semaphore` has no user in the source, so nothing here depends on it.
- Execution adapters are calls of an external SDK. Logging, telemetry,
  configuration, path and command checks, and the command line's output are I/O or pure functions.

## 2. The modules

| Module | Models | Instances |
|---|---|---|
| `BoundedWorkQueue` | `controller/BoundedWorkQueue.ts` | `MCBoundedWorkQueue`, `BoundedWorkQueue.cfg` |
| `WorkerHealthMonitor` | `controller/WorkerHealthMonitor.ts` | `MCWorkerHealthMonitor`, `WorkerHealthMonitor.cfg` |
| `PoolMemory` | the pool of one process: its synchronous methods as operators | |
| `WorkerPool` | the pools of several processes and their files (uses `PoolMemory`) | `MCWorkerPool`, `WorkerPool.cfg` |
| `PoolRecovery` | one pool composed with the health monitor (`PoolMemory`, extends `WorkerHealthMonitor`) | `MCPoolRecovery`, `PoolRecovery.cfg` |
| `Mutex` | abstract: what `withLock` promises | |
| `ScratchpadLock` | the lock file protocol of `scratchpad/Scratchpad.ts`; implements `Mutex` | `MCScratchpadLock`, `ScratchpadLock.cfg`, `ScratchpadLockSteal.cfg` |
| `StageGraph` | abstract: what `dependsOn` promises in a session | |
| `PipelineOrchestrator` | sessions, scheduler, gates, checkpoints, resumption; implements `StageGraph` | `MCPipelineOrchestrator`, `PipelineOrchestrator.cfg`, `PipelineOrchestratorGates.cfg` |
| `WriteBehind` | abstract: what batched writes promise, file by file | |
| `WriteBatcher` | `scratchpad/WriteBatcher.ts` and the atomic writes beside it | |
| `CachedScratchpad` | reads, deletions and the cache over the batcher (extends `WriteBatcher`); implements `WriteBehind` | `MCCachedScratchpad`, `CachedScratchpad.cfg` |
| `CircuitBreaker` | `error-handler/CircuitBreaker.ts` with the three kinds of callers | `MCCircuitBreaker`, `CircuitBreaker.cfg` |
| `StateMachine` | the tables of `state-manager/StateMachine.ts` and what is computed from them | |
| `StateManager` | the files of a project and the processes that change them (extends `StateMachine`) | `MCStateManager`, `StateManager.cfg` |
| `StuckWorkerHandler` | `controller/StuckWorkerHandler.ts` as `ProgressMonitor` polls it | `MCStuckWorkerHandler`, `StuckWorkerHandler.cfg` |
| `*_proofs` | theorems about the module they are named after, proved by TLAPS; those about `WorkerHealthMonitor` are in `PoolRecovery_proofs`, those about `StuckWorkerHandler` in `WorkerPool_proofs` | |

`PROJECT.json` maps every definition to its lines. A definition called a
*mutant* in its comment models a plausible bug; nothing uses it: it stands there
to show that the property it is paired with in `PROJECT.json` can fail.

### BoundedWorkQueue

`queue` and `deadLetter` map tasks to priority, position (the insertion order of
the `Map`) and time. Positions and times are renumbered from 1 after every change (`Keep`): only
their order matters. Each caller of `enqueue` or `retryFromDeadLetter`
moves through `CallPCs`, one per await: the event of a full queue, of a dead letter
move, of an eviction, the backpressure delay, the events after acceptance.
`dequeue` has two awaits of its own, then resets the soft limit flag.
An entry and a dead letter weigh a constant each for the memory limit.

### WorkerHealthMonitor

A state object is named by its worker and a registration number, because a check
keeps using the object of a worker that was unregistered meanwhile. Time is
counted in heartbeat intervals and stored as ages (of the last heartbeat, of the
last restart, of the clock value a check has read), each capped where the code
cannot tell larger values apart. `Checks` run interleaved: `CheckWorkerHealth`
is the body of the loop up to the first await, `ZombieHandled`, `Reassigned`
and `Restarted` are what follows when a handler settles, with its result or its
rejection.

### PoolMemory, WorkerPool, PoolRecovery

`PoolMemory` has one operator per synchronous method; both compositions use it.
In `WorkerPool` each process has a pool, and asynchronous calls go through
`CallPCs`: waiting for the file, opening (which truncates it), writing, merging.
`lock` stands for `withLock` of the shared path, here taken to exclude and to
expire when its holder crashed; `ScratchpadLock` examines that assumption. The state
file is one for all projects and names the one it was saved for (`saved.project`): `loadState`
for another (`config.project`) restores nothing, and `synchronizeState`, which calls it, goes on as
if there were no file (`StateLoaded`). A
crash empties the memory of a process and leaves its files, torn if it was
writing. `PoolRecovery` lets each handler of the monitor do to the pool what the
integration methods do (`markWorkerZombie`, `reassignTask`, `respawnWorker`), at
the moment the monitor invokes it.

### ScratchpadLock

Each file system call is a step: `link` of the temporary file, the read after it
failed, the second read of a steal, `rename`, the read and the `unlink` of a
release, and the two halves of a heartbeat's `writeFile` (truncate, write). A
client keeps what it has read last and the holder it asked for a cooperative release.
Its auto-release timers and heartbeat intervals are told apart as those of the `entry` in the
map of active locks and of an `overwritten` one: a release that throws clears neither,
and the next call replaces the entry but not the timers (`Entered`), which then act on
whatever lock has the client's holder id. `config` chooses which locks may expire while they are in use.

### PipelineOrchestrator

`run` is the call of `executePipeline`, from `validating` (which pre-completed
stages have lost their artifacts) through the loop of `runStages` to
`persisting` and `cleaning`. `Schedule` is one turn of the loop: skip what is
blocked, find what is ready, take the parallel group if it has two members or
more, otherwise the sequential one. Stages of a group are retried, time out and
settle in any order; sequential stages pass their gate one after the other.
Checkpoints are opened (and torn) and then written, and both may fail; the same
holds for the session's YAML file. `Crash` ends the process in any state, `Dispose` can be
called in any state. `succeeded` is a history variable: what agents completed in a session.

### WriteBatcher, CachedScratchpad

The contents a file is given are numbered in the order of the calls, so a number names a
write, its content and its promise. `pending` is the queue, `batch` the writes of the flush in
flight, `direct` the atomic writes that go past both. An atomic write replaces the
file in the step in which it settles, as `rename` does. A coalesced write carries the
promises (`resolvers`) of all the calls it stands for. In `CachedScratchpad` a read is up to three
steps, because `loadAndCache` reads the file and its modification time one after the other, and
writes, flushes, deletions and evictions come in between. With change detection a cached file is compared with
the one on disk only while it has no pending write (`Compared`).

### CircuitBreaker

`breaker` is the object, `caller` the call each caller is in: waiting in its operation, in the delay
before the next attempt, or back with a result. `mode` says how a caller uses the breaker.
`Execute` is the gate of `execute`; `BeforeAttempt` is what the retry loops ask; `OnSuccess` and
`OnFailure` are the recorded results in whatever state the circuit is by then. A
caller whose operation was admitted as a half-open trial is marked `trial`.

### StateMachine, StateManager

`StateMachine` holds the code's own tables. A call of `StateManager` is a path of steps
(`pc`), each of them one read or write of one file, and between two steps other processes
move, the call may fail, and its process may crash. `job` is what the call asked for, `read` what
it has read so far. `sectionLock` and `metaLock` stand for `withLock` of the two files; a
crashed holder leaves `Stale`, which expires. What the code reads or writes without a
lock (checkpoints, audit log, `updateMeta`, `restoreCheckpoint`) is a step without one here.

### StuckWorkerHandler

What the handler tracks of a worker is an object, and a check that waits for a
handler goes on with the object it began with, so objects have
references: `tracked` says which one is current, `object` what each holds. A check (`check`) goes through the workers it saw
(`left`); `escalating`, `acting` and `manual` are its awaits. `lag` is how long ago
it read the clock and the progress of the workers. `Poll` is the interval of the monitor, which
starts another check whatever became of the last. Nobody awaits a check or catches its rejection
(`ProgressMonitor.ts:423`): one that throws, at its last attempt or because a hand-over rejected, ends the
process, as `cli.ts:1307-1311` exits on an unhandled rejection (`Thrown`, `Exited`).

## 3. Plan

The order in which the modules were written, the most important behaviour first:

1. `BoundedWorkQueue` and `WorkerHealthMonitor`, the parts of the pool that can be read alone.
2. `PoolMemory`, `WorkerPool` (several processes and their files), `PoolRecovery` (pool and monitor).
3. `ScratchpadLock` and `Mutex`, the assumption of `WorkerPool` examined.
4. `StageGraph`, `PipelineOrchestrator`.
5. `WriteBehind`, `WriteBatcher`, `CachedScratchpad`.
6. `CircuitBreaker`; `StateMachine`, `StateManager`; `StuckWorkerHandler`.
7. Proofs of the safety properties of each, `WorkerPool` last.

All of it is done. What could follow: the composition of `StuckWorkerHandler` with
the pool, whose integration supplies its handlers; the section history and the initialization of the
state manager.

There is one run per question. Properties that only restate a guard are not added.

## 4. What is checked

Distinct states are those of the run as configured. Every module with a run has a type
invariant; those of `BoundedWorkQueue`, `CachedScratchpad`, `CircuitBreaker` and
`StuckWorkerHandler` are proved (section 5) and not checked again.

| Run | States | Properties | Shows |
|---|---|---|---|
| `queue` | 109 182 | OvershootBounded, DeadLetterBounded, SoftLimitWarned | the limits are exceeded by exactly the calls that can be between check and use, no further |
| `health` | 371 950 | TypeOK, OneRestartAtATime, OnlyZombiesRestarted, NoFalseZombie, SilenceDetected | overlapping checks neither restart twice nor invent zombies, and silence is found |
| `pool` | 980 735 | TypeOK, WorkersConsistent, OrderOnFile, SharedResultsKept | memory and files stay consistent under crashes and failing writes; synchronizing for one project removes no result of it from the file |
| `recovery` | 963 597 | RecoveredIsAvailable, ReassignedTaskKept | monitor and pool agree about who works, and no reassigned task is lost |
| `lock` | 410 383 | TypeOK, ImplementsMutex, AbandonedLockTaken | `withLock` is a mutex while nothing expires; abandoned locks are taken over, unless an interval of the holder was left running |
| `pipeline` | 477 175 | TypeOK, FilesTruthful, EveryStageAccounted, ImplementsStageGraph, ResultsOnce, AbortStops, EveryStepCounts, RunsEnd | dependencies hold across resumptions and crashes; the loop loses nothing, and each of its steps brings it nearer to its end |
| `cache` | 224 911 | PromisesHeld, ImplementsWriteBehind, WritesSettle, ReadYourWrites | queued writes of a file are stored in order, no promise of one is dropped, all settle in the end, and callers read what they wrote |
| `retry` | 48 636 | HalfOpenNeverWedged, Recovers, AcceptsAgain | late results never wedge a half-open circuit; it closes for callers of `execute` |
| `state` | 279 873 | TypeOK, HoldersGoOn, UpdatesKept, ChangesCounted, RecoveryTraceable, LocksReleased | what the locks cover is never lost, through failures and crashes; recoveries leave a trace; no lock is forgotten |
| `stuck` | 142 053 | HandedOverExhausted, HungHandedOver | overlapping checks give no attempt back, so a human is asked when they are spent; a worker that hangs is not forgotten as long as no hand-over fails |

Two runs end in a counterexample. Each states what a comment or a guide says and
shows that the code does otherwise (`PROJECT.json`, findings, quotes both):

| Run | Statement | What happens |
|---|---|---|
| `lock_steal` | StealExclusive: the atomic rename prevents races between stealers | two clients read the expired lock, then both rename over it |
| `pipeline_gates` | GatesHonoured: `runStages` honours approval gates | parallel stages with `approvalRequired` are started without one |

### Where properties stop

Many properties have a premise (`NobodyRestores`, `SoleRecoverer`, `OwnWritesCached`, `MaxStall < Cooldown`
and so on). Each premise was found by running the property without it, and what
happens outside it is worth knowing:

- *Pool.* `synchronizeState` "merges with local state" (`controller/WorkerPoolManager.ts:1354`), but
  `loadState` (1368) has by then replaced the results in memory by the file's, and the file is
  merged with itself. SharedResultsKept is what does hold: what is in the file stays there, for
  one project. All projects share one state file: `loadState` for another returns nothing
  (946-948), and `synchronizeState` (1368-1380) then saves its own state over the file, and
  the results of the other project in it are gone. The property's premise is that the
  file stays with its project; without it the run finds the overwriting.
  `createWorkOrderWithLock` "ensures atomic work order creation and counter increment
  across processes" (1242), but the counter is memory of a process (357) and two
  processes both create `WO-001`; OrderOnFile is therefore about one process. A state
  file torn by a crash (922) makes every later `synchronizeState` fail until somebody saves without it.
- *Queue.* `maxSize`, a hard limit according to its header, is exceeded by concurrent calls;
  OvershootBounded is the bound that does hold. An eviction chooses its victim before it awaits and
  deletes it after (`controller/BoundedWorkQueue.ts:383`): a victim dequeued in between is both delivered and dead-lettered.
- *Monitor and pool.* An issue a zombie was assigned but had not yet reported in a heartbeat is cleared
  by `respawnWorker` and neither reassigned nor queued. With two overlapping checks a
  task can be passed to a worker the other check is about to restart. After a restart that failed, the task the
  worker still reports may be long done or somebody else's; if a late result has made the worker idle, the task
  can be given to the worker itself, and the next restart takes it away (`controller/WorkerHealthMonitor.ts:276`). And two
  checks that overlap by more than the cooldown can restart a worker at once, one in vain: a third then
  marks it in the pool, and when the second restart succeeds the monitor looks after it no more (361). A handler that never settles
  stops the checks for good.
- *Lock.* A process that crashes within the write of a heartbeat leaves a lock file that
  cannot be parsed (`TornByCrash`; a file truncated by a heartbeat still under way is not excepted). A release
  that throws, of a call or of the auto-release timer, leaves the heartbeat interval running
  (`scratchpad/Scratchpad.ts:1105-1119`), and the next `acquireLock` overwrites the entry that
  knows it (696-703), so nothing ever clears it. From then on it refreshes every lock with this holder
  id: one that this process has abandoned, or that a late heartbeat has brought back, never
  expires and blocks the others as long as the process lives. AbandonedLockTaken excepts holders with an
  interval; without that disjunct the run finds the blocked lock.
- *Pipeline.* `priorOutputs` are documented as the outputs of upstream stages
  (`execution/README.md:65`), but requests are built (`ad-sdlc-orchestrator/AdsdlcOrchestratorAgent.ts:663`) from a
  session that gets the results of a run only at its end: stages see the outputs of
  earlier runs at most. Checkpoints are saved so that "interrupted pipelines can resume"
  (`PipelineCheckpointManager.ts:4`), but resuming needs the session file (234), which only the end
  of a run writes (388): a first run that is interrupted cannot be resumed. AbortStops is about a
  `dispose` the scheduler can see: one during validation sets `abortController` to null before the scheduler
  captures it (570), and the run goes on to its end.
- *Cached scratchpad.* `close` called while a flush is in flight returns without writing
  what was queued meanwhile (`scratchpad/WriteBatcher.ts:229`), and those promises never
  settle; WritesSettle is about the rest. `writeImmediate` (209) and atomic writes do not wait for a
  flush in flight, so an older content can land later; ImplementsWriteBehind is about queued
  writes. `deleteFile` (`CachedScratchpad.ts:370`) leaves a pending write, which brings the file back.
  With concurrent callers a read can put an old content over a newer one in the cache.
- *Breaker.* `withRetry` and `executeWithResult` record their results but never go through
  `execute`, and only `execute` leaves OPEN (`error-handler/CircuitBreaker.ts:291`): if nobody
  else uses the breaker, it never closes again, although "automatically recovering when operations
  succeed" (8); after the reset timeout requests pass through the open circuit without
  limit. AcceptsAgain says that they do pass.
- *State manager.* A transition is validated before the lock (`state-manager/StateManager.ts:299`): two
  valid ones from the same state both commit, so a project can leave `merged` or `cancelled`.
  Updates and restores write the metadata without its lock (`StatePersistence.ts:225`), so they
  can undo a transition. The check of required stages in `skipTo` never refuses a
  skip the table allows (theorem `SkipsOptionalStages`), so its error is unreachable.
- *Stuck workers.* If the restart of a critical worker fails, the level stays `critical`, and as
  only a new level escalates (`controller/StuckWorkerHandler.ts:205`) the worker is never looked after again (352). Without a
  restart handler the attempt is spent on nothing. The error of the last attempt (352), or of a
  hand-over whose handler rejects (511-517), leaves `checkWorkers`, which nobody awaits
  (`controller/ProgressMonitor.ts:423`), and the command line exits on it (`cli.ts:1307-1311`): with two hung
  workers the second is never handed over. HungHandedOver assumes restarts that do not fail, and excepts a process
  that a hand-over has ended. `extend_deadline` (400) needs attempt 0,
  which the warning has used, unless a check comes so late that it finds the worker stuck at once.

### Bounds, and why they are enough

- `queue`: 4 tasks, 2 callers, 1 consumer, `MaxSize` 2, dead letter limit 1, all three
  policies. Two callers are the least that overlap; the overshoot needs `MaxSize`
  + 1 entries, and a fourth task lets an eviction happen beyond it. The memory
  limit is reached within these sizes. Tasks and callers are symmetric, and the run has no liveness.
- `health`: 1 worker, 2 overlapping checks, `Threshold` 2, checks every second
  interval, 2 restarts, cooldown 3, handlers that last up to 2 intervals, heartbeats up
  to 1 late. Workers do not share state, so one suffices; the restart budget is used up and the
  cooldown expires between checks. The theorems cover all values.
- `pool`: 2 issues, 1 worker slot, 2 calls, order numbers up to 2
  (1 where two processes meet); four configurations of methods (processes that synchronize and reset for
  one project; processes of two projects that synchronize and load; one process that creates orders beside every synchronous method; one that saves and loads
  without the lock). Two projects are the least that can meet in the file. A second slot only repeats the first, except in `recovery`.
- `recovery`: 2 workers, 1 task, 1 check at a time, handlers that last up to 1
  interval. Two workers are the least between which a task can move. With two
  overlapping checks `ReassignedTaskKept` does not hold (a hazard), and RecoveredIsAvailable needs
  handlers that settle within the cooldown; that case has too many states for the run, and is proved.
- `lock`: 3 clients, 1 crash; generations above 1 are not told apart. Three
  clients are needed for a holder, a stealer and a third who finds the stolen
  lock; configurations with expiry under use or late heartbeats have 2. Overwritten entries of a client
  are not told apart, and it has one heartbeat and one timed release under way at a time: any number of
  intervals left running do to the file what one does.
- `pipeline`: 3 stages, 1 retry, at most 2 runs, in the shapes `Group` (two parallel
  stages that require approval and one behind both), `Chain`, `Mixed` (parallel and
  sequential stages ready together) and `Alone` (a parallel stage alone, which the
  code runs in the sequential group). These are the shapes the stage lists in
  `types.ts` are built of. Two runs are what a resumption needs: `Group` and
  `Alone` have them, with checkpoints and without. A request may name stage 1 as pre-completed or none.
- `cache`: 2 files with 2 writes each, batches of 2, 1 reader. Two contents are the least that can be
  swapped, two files the least of which one write fails and the other does not. Five
  configurations: queued writes that may fail and a close; one caller who awaits every
  kind of write; concurrent immediate writes, deletions and a close; writes of other processes
  and evictions with change detection; no batching.
- `retry`: 3 callers, thresholds, trials and attempts 2, a reset timeout of 2 ticks: more callers than
  trials, so that one is refused, and an operation can outlast a whole cycle of the circuit. Four
  configurations: three callers of `execute` with resets by hand, one caller of each kind (with
  retryable failures counted, or not counted and with aborts), and only retrying ones.
- `state`: 2 processes with 2 calls each, 1 checkpoint, 2 audit entries, from
  `srs_approved`, in four pairs of roles: two updaters; an updater beside one that skips and recovers,
  or overrides and restores; two that make transitions. `srs_approved` has transitions, recoveries and a skip of
  an optional stage; `merged` as the target of an override is terminal. The checkpoint list is at its limit
  after one entry, so that a second call pushes the first out.
- `stuck`: thresholds 1, 2 and 3, 2 attempts, checks up to 1 tick late; two overlapping checks of one worker, or one
  check of two workers, with a restart that works or may fail, or a hand-over that may fail and end the process. Two attempts are exhausted
  before a worker is critical for the second time, and a late check can skip the first threshold.

### Fairness

- Queue and pool: none; they have safety properties only.
- Health monitor: time advances, the interval timer fires when due, and every
  check goes on (`CheckStep`), that is, handlers settle. The monitor has no
  timeout for handlers, and with one that hangs SilenceDetected fails; the hazard list says so.
- Lock: clients go on with their call, or call again after giving up; heartbeat
  writes and expiry happen. Nothing else is assumed, not even that timers fire.
- Pipeline: weak fairness of `RunStep` as a whole. An agent call settles, times
  out (`executeStageWithRetry` races it with a timer) or stops once it is aborted, and the
  operator answers a prompt. Nothing is assumed about the command line, `dispose` or crashes.
- Cached scratchpad: the file system answers and the batcher's timer fires (`BatcherStep`, `ReadStep`), and a
  cleanup that was begun ends. Nothing makes a caller write or close.
- Breaker: operations settle, delays end and time passes. Nobody is assumed to call; Recovers
  names the caller that does as a premise, and that operations succeed from some time on.
- State manager: reads and writes settle, successfully or not, and a lock that was
  left behind expires. Processes may crash at any time.
- Stuck workers: while the process lives, the interval fires whenever a check can be started, time passes, and handlers settle.
  A handler that may fail is not excluded by fairness; HungHandedOver names the restart handler as the one that must not.

Deadlock is checked except where the system rightly stops: in the pipeline runs, once the
runs a configuration allows are made and nobody calls the orchestrator again; in `cache`, once the
batcher is closed or the contents are used up; in `state`, once each process has made its calls. A process of `stuck` that exited stutters.
`health` has no symmetry, as it checks liveness.

## 5. What is proved

For every value of the constants that satisfies the `ASSUME`s of the modules
(sets of tasks, callers, workers, checks, processes, files or clients of any size, every limit):

| Theorem | Statement |
|---|---|
| `BoundedWorkQueue_proofs!TypeCorrect` | TypeOK |
| `BoundedWorkQueue_proofs!QueueOvershoot` | OvershootBounded: at most `maxSize` + callers - 1 entries, delayed calls included |
| `BoundedWorkQueue_proofs!DeadLetters` | DeadLetterBounded |
| `BoundedWorkQueue_proofs!SoftLimitWarning` | SoftLimitWarned |
| `PoolRecovery_proofs!TypeCorrect` | TypeOK, with the restart budget of a registration |
| `PoolRecovery_proofs!SingleRestart` | OneRestartAtATime |
| `PoolRecovery_proofs!RestartsAreOfZombies` | OnlyZombiesRestarted |
| `PoolRecovery_proofs!ZombiesAreSilent` | NoFalseZombie |
| `PoolRecovery_proofs!RecoveryImplementsMonitor` | RecoverySpec implements the monitor's SafeSpec |
| `PoolRecovery_proofs!RecoveredAvailable` | RecoveredIsAvailable |
| `PoolRecovery_proofs!TaskKept` | ReassignedTaskKept |
| `ScratchpadLock_proofs!TypeCorrect` | TypeOK |
| `ScratchpadLock_proofs!MutualExclusion` | ImplementsMutex |
| `ScratchpadLock_proofs!AloneInFunction` | StealExclusive, which `lock_steal` refutes, where no lock expires: one client at most is in its function |
| `PipelineOrchestrator_proofs!TypeCorrect` | TypeOK |
| `PipelineOrchestrator_proofs!TruthfulFiles` | FilesTruthful |
| `PipelineOrchestrator_proofs!Accounted` | EveryStageAccounted |
| `PipelineOrchestrator_proofs!StageGraphImplemented` | ImplementsStageGraph |
| `PipelineOrchestrator_proofs!OneResultPerStage` | ResultsOnce |
| `PipelineOrchestrator_proofs!AbortsStop` | AbortStops |
| `PipelineOrchestrator_proofs!RunsAreBounded` | EveryStepCounts |
| `PipelineOrchestrator_proofs!RunLength` | the number of steps a run has left never exceeds a bound computed from the number of stages and `MaxRetries` |
| `WorkerPool_proofs!TypeCorrect` | TypeOK, with the lock held by the one call that took it |
| `WorkerPool_proofs!WorkersStayConsistent` | WorkersConsistent |
| `WorkerPool_proofs!OrdersStayOnFile` | OrderOnFile |
| `WorkerPool_proofs!SharedResultsStay` | SharedResultsKept |
| `WorkerPool_proofs!StuckTypes` | TypeOK of `StuckWorkerHandler`, of which the module has the instance `S`: the bound on recovery attempts, and no check holds a state that is gone |
| `WorkerPool_proofs!AskedWhenSpent` | HandedOverExhausted, of the same instance |
| `CachedScratchpad_proofs!TypeCorrect` | TypeOK |
| `CachedScratchpad_proofs!BatcherImplementsStore` | ImplementsWriteBehind |
| `CachedScratchpad_proofs!OwnWritesRead` | ReadYourWrites |
| `CachedScratchpad_proofs!NoPromiseForgotten` | PromisesHeld |
| `CachedScratchpad_proofs!FulfilledStaysStored` | the file of a fulfilled write has its content or a newer one, at any time after |
| `CircuitBreaker_proofs!TypeCorrect` | TypeOK |
| `CircuitBreaker_proofs!NeverWedged` | HalfOpenNeverWedged |
| `StateManager_proofs!TypeCorrect` | TypeOK, with the bounds of checkpoints and audit log |
| `StateManager_proofs!NoUpdateLost` | UpdatesKept |
| `StateManager_proofs!NoChangeLost` | ChangesCounted |
| `StateManager_proofs!RecoveriesTraced` | RecoveryTraceable |
| `StateManager_proofs!LocksOnTheirWay` | HoldersGoOn |
| `StateManager_proofs!SkipsOptionalStages` | no skip the table allows passes over a required stage |
| `StateManager_proofs!MovesKeepOrder` | recoveries go back, skips forward, and neither leaves a terminal state |

The arguments:

- *Queue.* The four properties are inductive together. OvershootBounded counts
  the delayed calls with the entries: a call enters the delay only from a queue
  below `maxSize`, and inserting trades a delayed call for an entry. DeadLetterBounded counts
  the calls that have inserted but not yet trimmed. The assumptions used are that
  there are finitely many callers and tasks, and that the limits are natural numbers.
- *Health monitor.* OneRestartAtATime is not inductive. `IInv` relates two clocks: while
  a check awaits the restart handler, the restart is no older than the clock value the check
  has read (`RestartRecent`). As handlers settle within the cooldown, a second check finds the
  cooldown. `BusyRestarting` and `ZombieOrRestarted` say what a check that awaits a handler may rely
  on in the object it holds, `HeldVisited` that it has visited it, and `CountedFrom`
  that a count of missed heartbeats is at most the age of the heartbeat it counts from, which gives
  NoFalseZombie. The premise `MaxStall < Cooldown` stands in the properties themselves.
- *Pool and monitor.* `RInv` adds to the monitor's `IInv` what each side knows of the other. A worker marked in the pool
  is one the monitor has as zombie or restarting (`MarkedRecover`); this is kept when a restart succeeds
  because the worker whose restart is awaited is not marked (`RestartedUnmarked`): `Release` has unmarked it, and
  a check that could mark it again finds it restarting (`BusyRestarting`). For ReassignedTaskKept, the
  task reported by a worker that was never restarted is the one it has in the pool, or is finished (`TasksCurrent`); so
  `reassignTask` finds another place for it (`ReassignPlaces`), and what happens until the restart moves it only
  from the queue to an idle worker or from a worker to the results (`PassedOn`). `TasksKnown` says that it has an order, without which
  `reassignTask` does nothing; `VisitedAreLive` that a check holds the object its worker has now. Every step is shown to be
  of one of five kinds (`KindOfStep`): the owner's, one in which no handler is invoked, or one of the three handlers.
- *Lock.* `IInv` has, besides types, `Exclusion` for the case that no lock expires: while one client uses
  the lock, nobody else uses it, and the lock file exists while it is used. Which
  client the file names is left open, since a late heartbeat can write another. Every step of a client is shown to be `Allowed`, and an allowed step changes
  `Critical` only as `Mutex` does. AloneInFunction is what callers have of it.
- *Pipeline.* `IInv` has two parts. `RunOK` is about one run: `Accounting` says that every stage is
  in exactly one of four places (taken as completed, left for a later turn, in this turn's
  groups, or with a result), which gives EveryStageAccounted and ResultsOnce; `Busy` says which
  stages can be executing; `ReadyStages` that the dependencies of every stage in a
  group are among the completed ones. `History` ties memory and files to what agents did: the
  claims of a run, of the session it works on and of every file are within `succeeded`
  (`RunTruthful`, `SessionTruthful`, `FilesTruthful`), and sessions are numbered so that a new
  one has no past (`Numbered`). With both, the success of an agent is a step `Complete` of
  StageGraph. The proofs use that dependencies are stages of the pipeline, and neither the number of
  stages nor the shapes of the run. EveryStepCounts is the safety half of RunsEnd. `StepsLeft` counts the turns a stage can still
  take (to be scheduled, to be started, and one for each attempt left), and within a turn `Rank` counts
  the loop down. `RunOK` is what makes it fall: a scheduled stage comes from `remaining`
  (`Accounting`), so no step puts one back. RunLength bounds it at the start of a run.
- *Pool.* `Inv` says that every pool, and every state in a file or in a call, is `Sound` (idle workers
  have no issue, working ones have), and that the lock is held by exactly the call that took it. OrderOnFile
  needs `OrdersTracked`: the counter is past every order, and no two pending
  creations have the same number, so a failed creation rolls back only its own entry.
  SharedResultsKept needs `SharedInv`: from its loading to the end of its writing, what a
  synchronizing call holds contains the results of the file if that is of its project, since the lock keeps everybody
  else from writing; if it is not, the write changes the file's project, which is the case the property leaves out.
- *Cached scratchpad.* `QueueOrdered`: of one file, what is queued is newer than what is in the
  flush in flight, and that is newer than what is stored; each carries promises that are open
  and of contents up to its own, and no promise is in two places. It holds because a second flush returns while one is in flight.
  For ReadYourWrites, `CacheInv` says that the cache entry of a file is the content written last, once
  there is one (`Remembered`), and that nothing is known of a file never written (`Absent`). A read that goes to
  the file is therefore of a file never written, and the caller cannot write before it has the answer (`ReadsLast`).
  PromisesHeld, the safety half of WritesSettle, is inductive together with the fact that a queued write has a content if
  it has promises (`PromiseInv`). FulfilledStaysStored follows from ImplementsWriteBehind: in the abstract store a file
  moves only to newer contents, and a promise is fulfilled no sooner than its content is on file.
- *Stuck workers.* `StuckInv`: the states in memory are exactly those that a worker or a waiting check refers to, and a
  worker is tracked by a reference of its own. When a worker is tracked anew, some of its references is free, since it has
  one more than there are checks (`FreeReference`, by the pigeonhole principle), so a state held by a check is never
  overwritten by another. The attempt of a check is tested and counted in one step, which bounds it however checks overlap. For HandedOverExhausted,
  no step lowers the attempts of a state that a waiting check holds (`SpentStays`): a success keeps them, and the new object of
  a dropped worker has a reference of its own. The
  instance takes the module's assumption as a hypothesis, `HandlerAssumption`.
- *Breaker.* `AttemptsAccounted`: in HALF_OPEN the attempts used are at most the trials in flight and the successes
  recorded, and there are fewer successes than the limit; `TrialsExecute` that only callers of `execute` are trials.
  A circuit that refuses has used all attempts, so one of them is in flight.
- *State manager.* `OnPath` keeps a call on the path of its kind, `InRole` in what its process may call.
  `SectionHeld` and `MetaHeld` say where a call has the lock, `SectionSeen` and `MetaSeen`
  that what it has read is then still what the file holds, which is what an update that is not lost means.
  `Traced` carries a checkpoint, and for an override an audit entry, from where they are written to the commit.
  HoldersGoOn, the safety half of LocksReleased, follows from `Holders`: from the step that locks a file every path leads to the one
  that unlocks it (`HolderPaths`) through no other lock, and a failure inside goes to `giveUp`. As holders wait for
  nobody, the processes cannot wait for each other in a circle.

Only model-checked: liveness (SilenceDetected, AbandonedLockTaken, RunsEnd, WritesSettle, Recovers, AcceptsAgain,
LocksReleased, HungHandedOver), which is beyond the prover, as are ENABLED and
fairness. Of four of them the safety half is proved: EveryStepCounts for RunsEnd, PromisesHeld for WritesSettle,
HoldersGoOn for LocksReleased, HandedOverExhausted for HungHandedOver. HalfOpenNeverWedged
excludes the state from which Recovers could find no way on. What remains with TLC is that the steps these leave open are taken. The
two invariants about `StuckWorkerHandler` are proved for the instance `S` in `WorkerPool_proofs`, and the two
refuted properties are only refuted by TLC.

## 6. Abstractions

- Events, metrics, logging and messages are left out; an awaited event callback is an await.
- Reasons of a rejection are not told apart. Work in a pool's queue is a set: its order
  is the queue's affair.
- Clocks are ages. A lock's age is whether it is expired.
- A pool's lock excludes and expires after a crash.
- Stage results are their status; a `degraded` stage counts as done for its dependents
  in this run, not as completed in a file, as in the code.
- The final statuses of a session (completed, partial, failed) are one, `ended`:
  nothing that follows reads which.
- A truncated YAML file or checkpoint cannot be read. What a request names as
  pre-completed (`startFromStage`, `preCompletedStages`) is one of `PreCompleted`; validation
  may find any pre-completed stage invalid. The number of a session that was started but never
  executed is used again: it left nothing behind.
- After `dispose` the session is gone; a later `executePipeline` needs a new one. An object
  without an id is never executed by the command line and is not modelled further.
- Recorded configurations (`config`) are chosen in `Init` and never change: one run
  covers several uses of a component.
- A file's modification time is identified with its content. Evictions by size, by count or by age are any
  loss of an entry; warming a cache is a read.
- A breaker's clock is the time since the last failure, up to the reset timeout; a timeout of an operation is a
  failed attempt, and its later answer is ignored, as in the code.
- A project exists while processes work on it (`initializeProject` and `deleteProject` are left out), has
  one section, and keeps no section history. A lock of the state manager outlives the
  call that holds it, and giving it back succeeds: `ScratchpadLock` is about locks that do not. Watchers are not modelled.
- Automatic recovery of stuck workers is on, workers have no task types, and nobody recovers by hand.
