------------------------ MODULE PipelineOrchestrator ------------------------
(***************************************************************************)
(* The pipeline: AdsdlcOrchestratorAgent's sessions and executePipeline,   *)
(* the StageScheduler's loop, the ApprovalGate, and what persistState and  *)
(* PipelineCheckpointManager leave on disk for a later process.  One       *)
(* caller awaits each call before the next, as the command line does;      *)
(* dispose may be called at any time.  Stages are numbered in the order of *)
(* their list.                                                             *)
(***************************************************************************)
EXTENDS Naturals, FiniteSets

CONSTANTS StageCount,
          MaxRetries,
          Configs,       \* the configurations considered, see config
          PreCompleted,  \* the stages a request may name as completed: those before its
                         \* startFromStage, or its preCompletedStages
          MaxRuns        \* bound: calls of executePipeline

Stages == 1..StageCount
Sessions == 1..MaxRuns

\* A list of stage definitions
Pipelines == [dependsOn : [Stages -> SUBSET Stages], parallel : SUBSET Stages,
              approvalRequired : SUBSET Stages]

\* "asked": the operator (manual) or a callback (custom) decides
ApprovalModes == {"auto", "critical", "asked"}

ASSUME PipelineAssumption ==
  /\ StageCount \in Nat /\ MaxRetries \in Nat
  /\ MaxRuns \in Nat
  /\ PreCompleted \subseteq SUBSET Stages
  /\ Configs \subseteq [pipeline : Pipelines, approvalMode : ApprovalModes,
                       checkpoints : BOOLEAN, runs : 0..MaxRuns]
  /\ \A f \in Configs, s \in Stages : f.pipeline.dependsOn[s] \subseteq 1..(s - 1)

VARIABLES config,        \* the pipeline, approvalMode, checkpoint.enabled; bound: runs
          session,       \* this.session
          controller,    \* this.abortController # null
          run,           \* the call of executePipeline
          yaml,          \* the file of each session that persistState writes
          checkpoints,   \* the latest checkpoint file of each session
          succeeded,     \* history: the stages an agent has completed in each session,
                         \* and those its caller declared to be completed
          counts         \* the sessions that were executed and the runs so far

vars == <<config, session, controller, run, yaml, checkpoints, succeeded, counts>>

pipeline == config.pipeline

-----------------------------------------------------------------------------
(* Results, sessions, runs and files *)

\* "none": the list has no result of the stage
Results == [Stages -> {"none", "completed", "degraded", "failed", "skipped"}]

NoResults == [s \in Stages |-> "none"]

With(results, S, status) == [s \in Stages |-> IF s \in S THEN status ELSE results[s]]

Completed(results) == {s \in Stages : results[s] = "completed"}

\* id 0: null, or an object without a sessionId; done: the stages whose result in
\* stageResults is "completed"; status "ended": completed, partial or failed
NoSession == [id |-> 0, status |-> "none", pre |-> {}, done |-> {}]

PCs == {"idle", "validating", "scheduling",
        "group",         \* the parallel group runs
        "sequential",    \* at the top of the sequential group's loop
        "gate",          \* its first stage waits for approval
        "stage",         \* ... or is executed
        "saving", "writing",         \* saveCheckpoint opens and writes its file
        "finishing", "persisting",   \* the end of executePipeline, persistState
        "cleaning"}

\* signal: the AbortController the scheduler has captured; priorOutputs: the stages whose
\* outputs buildStageExecutionRequest passes on
NoRun == [pc |-> "idle", id |-> 0, pre |-> {}, signal |-> "none", priorOutputs |-> {},
          results |-> NoResults, completed |-> {}, remaining |-> {}, queue |-> {},
          attempt |-> [s \in Stages |-> 0]]

\* A file that does not exist or was truncated and not yet written; done: as in a session;
\* completed: completedStageNames of a checkpoint
Files == [kind : {"none", "torn", "whole"}, completed : SUBSET Stages, done : SUBSET Stages]
NoFile == [kind |-> "none", completed |-> {}, done |-> {}]
TornFile == [NoFile EXCEPT !.kind = "torn"]

Working == {s \in Stages : run.attempt[s] > 0}

Goto(pc) == run' = [run EXCEPT !.pc = pc]

-----------------------------------------------------------------------------
(* startSession *)

\* A session begun after the last run is never executed
MayStart == run.pc = "idle" /\ session.status # "running" /\ counts.runs < config.runs

\* A session of its own; one that is never executed leaves nothing behind, and its id is
\* used again
ColdStart(pre) ==
  session' = [NoSession EXCEPT !.id = counts.sessions + 1, !.status = "pending", !.pre = pre]

StartSession ==
  /\ MayStart
  /\ \E pre \in PreCompleted : ColdStart(pre)
  /\ controller' = TRUE
  /\ UNCHANGED <<config, run, yaml, checkpoints, succeeded, counts>>

UsableCheckpoint(id) ==
  config.checkpoints /\ checkpoints[id].kind = "whole" /\ checkpoints[id].completed # {}

\* loadPriorSession
PriorSession(id) ==
  [id |-> id, status |-> "running", done |-> yaml[id].done, pre |-> yaml[id].done]

\* loadPriorSession finds the session
Continues(id) == yaml[id].kind = "whole"

\* A torn session file is a SessionCorruptedError; without one, a session of its own
\* begins even if there is a checkpoint
ResumeSession(id) ==
  /\ MayStart
  /\ id <= counts.sessions
  /\ \/ /\ Continues(id)
        /\ session' = IF UsableCheckpoint(id)
                      THEN [PriorSession(id) EXCEPT !.pre = checkpoints[id].completed,
                                                    !.done = checkpoints[id].done]
                      ELSE PriorSession(id)
     \/ /\ yaml[id].kind = "none"
        /\ ColdStart({})
  /\ controller' = TRUE
  /\ UNCHANGED <<config, run, yaml, checkpoints, succeeded, counts>>

-----------------------------------------------------------------------------
(* executePipeline *)

Execute ==
  /\ run.pc = "idle" /\ session.id # 0
  /\ counts.runs < config.runs
  /\ counts' = [sessions |-> IF session.id > counts.sessions THEN session.id
                            ELSE counts.sessions,
                runs |-> counts.runs + 1]
  /\ succeeded' = [succeeded EXCEPT ![session.id] = IF session.id > counts.sessions
                                                   THEN session.pre ELSE @]
  /\ run' = [NoRun EXCEPT !.pc = "validating", !.id = session.id, !.pre = session.pre,
                          !.priorOutputs = session.done]
  /\ session' = [session EXCEPT !.status = "running"]
  /\ UNCHANGED <<config, controller, yaml, checkpoints>>

\* Stages whose artifacts are missing are executed again; runStages begins
Validate ==
  /\ run.pc = "validating"
  /\ \E invalid \in SUBSET run.pre :
       LET pre == run.pre \ invalid
       IN  run' = [run EXCEPT
             !.pc = "scheduling", !.pre = pre, !.completed = pre, !.remaining = Stages \ pre,
             !.signal = IF controller THEN "live" ELSE "none"]
  /\ UNCHANGED <<config, session, controller, yaml, checkpoints, succeeded, counts>>

-----------------------------------------------------------------------------
(* runStages *)

\* The first loop over the remaining stages skips those with a failed or skipped
\* dependency, one skipped just before included
Blocked[s \in Stages] ==
  /\ s \in run.remaining
  /\ \E d \in pipeline.dependsOn[s] \ run.completed :
       run.results[d] \in {"failed", "skipped"} \/ Blocked[d]

\* Mutant: a stage is ready once some dependency is completed
ReadyAfterAny(s) ==
  pipeline.dependsOn[s] = {} \/ pipeline.dependsOn[s] \cap run.completed # {}

Ready(s) == pipeline.dependsOn[s] \subseteq run.completed

\* Mutant: the scheduler reads abortController when it checks, and dispose sets it to null
AbortedNow == controller /\ run.signal = "aborted"

Aborted == run.signal = "aborted"

\* The stages left are skipped: the pipeline was aborted or none of them can be ready
SkipRest(S) ==
  run' = [run EXCEPT !.pc = "finishing", !.remaining = {},
                     !.results = With(@, S, "skipped")]

Schedule ==
  LET blocked == {s \in run.remaining : Blocked[s]}
      ready == {s \in run.remaining \ blocked : Ready(s)}
      parallel == ready \cap pipeline.parallel
      group == IF Cardinality(parallel) > 1 THEN parallel ELSE {}
  IN  /\ run.pc = "scheduling"
      /\ IF Aborted \/ ready = {} THEN SkipRest(run.remaining)
         ELSE run' = [run EXCEPT
                !.pc = IF group # {} THEN "group" ELSE "sequential",
                !.results = With(@, blocked, "skipped"),
                !.remaining = (@ \ blocked) \ ready,
                !.queue = ready \ group,
                !.attempt = [s \in Stages |-> IF s \in group THEN 1 ELSE 0]]
      /\ UNCHANGED <<config, session, controller, yaml, checkpoints, succeeded, counts>>

\* A parallel stage that is alone comes first
IsNext(s) ==
  /\ s \in run.queue
  /\ \A t \in run.queue : s \in pipeline.parallel \/ (t \notin pipeline.parallel /\ s <= t)

\* The loop over the sequential group
NextStage ==
  /\ run.pc = "sequential"
  /\ \/ run.queue = {} /\ Goto("scheduling")
     \/ \E s \in run.queue :
          /\ IsNext(s)
          /\ IF Aborted
             THEN run' = [run EXCEPT !.queue = @ \ {s}, !.results[s] = "skipped"]
             ELSE IF s \in pipeline.approvalRequired THEN Goto("gate")
             ELSE run' = [run EXCEPT !.pc = "stage", !.attempt[s] = 1]
  /\ UNCHANGED <<config, session, controller, yaml, checkpoints, succeeded, counts>>

-----------------------------------------------------------------------------
(* checkApprovalGate *)

MayApprove ==
  config.approvalMode = "critical" => \A s \in Stages : run.results[s] # "failed"

MayDeny ==
  \/ config.approvalMode = "asked"
  \/ config.approvalMode = "critical" /\ ~MayApprove

Approve(s) ==
  /\ run.pc = "gate" /\ IsNext(s)
  /\ MayApprove
  /\ run' = [run EXCEPT !.pc = "stage", !.attempt[s] = 1]
  /\ UNCHANGED <<config, session, controller, yaml, checkpoints, succeeded, counts>>

\* Mutant: the denied stage stays in the group
DenyAndAskAgain(s) ==
  /\ run.pc = "gate" /\ IsNext(s)
  /\ MayDeny
  /\ run' = [run EXCEPT !.pc = "sequential", !.results[s] = "skipped"]
  /\ UNCHANGED <<config, session, controller, yaml, checkpoints, succeeded, counts>>

\* Mutant: a denied stage gets no result
DenyUnrecorded(s) ==
  /\ run.pc = "gate" /\ IsNext(s)
  /\ MayDeny
  /\ run' = [run EXCEPT !.pc = "sequential", !.queue = @ \ {s}]
  /\ UNCHANGED <<config, session, controller, yaml, checkpoints, succeeded, counts>>

Deny(s) ==
  /\ run.pc = "gate" /\ IsNext(s)
  /\ MayDeny
  /\ run' = [run EXCEPT !.pc = "sequential", !.queue = @ \ {s}, !.results[s] = "skipped"]
  /\ UNCHANGED <<config, session, controller, yaml, checkpoints, succeeded, counts>>

\* executePipeline throws
Throw ==
  /\ run' = NoRun
  /\ session' = [session EXCEPT !.status = "ended"]

\* The prompt is interrupted or the callback rejects
GateThrows ==
  /\ run.pc = "gate" /\ config.approvalMode = "asked"
  /\ Throw
  /\ UNCHANGED <<config, controller, yaml, checkpoints, succeeded, counts>>

-----------------------------------------------------------------------------
(* executeStageWithRetry *)

\* Without a parallel group, the content of the stage's output is validated
AgentSucceeds(s) ==
  /\ s \in Working
  /\ \E status \in IF run.pc = "group" THEN {"completed"} ELSE {"completed", "degraded"} :
       run' = [run EXCEPT !.attempt[s] = 0, !.results[s] = status,
                          !.queue = @ \ {s},
                          !.completed = IF run.pc = "group" THEN @ ELSE @ \cup {s},
                          !.pc = IF run.pc = "group" THEN @ ELSE "saving"]
  /\ succeeded' = [succeeded EXCEPT ![run.id] = @ \cup {s}]
  /\ UNCHANGED <<config, session, controller, yaml, checkpoints, counts>>

\* Mutant: one attempt too many
AttemptFailsOnceMore(s) ==
  /\ s \in Working
  /\ run.attempt[s] <= MaxRetries + 1
  /\ run' = [run EXCEPT !.attempt[s] = @ + 1]
  /\ UNCHANGED <<config, session, controller, yaml, checkpoints, succeeded, counts>>

\* Another attempt
AttemptFails(s) ==
  /\ s \in Working
  /\ run.attempt[s] <= MaxRetries
  /\ run' = [run EXCEPT !.attempt[s] = @ + 1]
  /\ UNCHANGED <<config, session, controller, yaml, checkpoints, succeeded, counts>>

\* The last attempt has failed or the budget is exhausted, by a timeout or by attempts
\* that failed
StageFails(s) ==
  /\ s \in Working
  /\ run' = [run EXCEPT !.attempt[s] = 0, !.results[s] = "failed", !.queue = @ \ {s},
                        !.pc = IF run.pc = "group" THEN @ ELSE "saving"]
  /\ UNCHANGED <<config, session, controller, yaml, checkpoints, succeeded, counts>>

\* Mutant: Promise.all instead of Promise.allSettled, the rejection ignored
GroupFulfilled ==
  /\ run.pc = "group" /\ Working = {}
  /\ \A s \in Stages : run.results[s] # "failed"
  /\ run' = [run EXCEPT !.pc = "saving", !.completed = @ \cup Completed(run.results)]
  /\ UNCHANGED <<config, session, controller, yaml, checkpoints, succeeded, counts>>

\* All stages of the parallel group have settled
GroupSettled ==
  /\ run.pc = "group" /\ Working = {}
  /\ run' = [run EXCEPT !.pc = "saving", !.completed = @ \cup Completed(run.results)]
  /\ UNCHANGED <<config, session, controller, yaml, checkpoints, succeeded, counts>>

-----------------------------------------------------------------------------
(* saveCheckpoint, persistState and the end of executePipeline *)

\* Mutant: the checkpoint names every stage with a result
CheckpointOfAny ==
  [kind |-> "whole", completed |-> {s \in Stages : run.results[s] # "none"} \cup run.pre,
   done |-> Completed(run.results)]

Checkpoint == [kind |-> "whole", completed |-> run.completed, done |-> Completed(run.results)]

\* A new file is the latest one as soon as it is opened; errors are ignored
SaveCheckpoint ==
  /\ \/ /\ run.pc = "saving"
        /\ \/ Goto("sequential") /\ UNCHANGED checkpoints
           \/ /\ config.checkpoints /\ Goto("writing")
              /\ checkpoints' = [checkpoints EXCEPT ![run.id] = TornFile]
     \/ /\ run.pc = "writing"
        /\ Goto("sequential")
        /\ checkpoints' \in {checkpoints, [checkpoints EXCEPT ![run.id] = Checkpoint]}
  /\ UNCHANGED <<config, session, controller, yaml, succeeded, counts>>

\* The completed stages among priorResults and the results of this run
Report == (run.priorOutputs \cap run.pre) \cup Completed(run.results)

Finish ==
  /\ run.pc = "finishing"
  /\ session' = [session EXCEPT !.status = "ended", !.done = Report]
  /\ Goto("persisting")
  /\ yaml' \in {yaml, [yaml EXCEPT ![run.id] = TornFile]}
  /\ UNCHANGED <<config, controller, checkpoints, succeeded, counts>>

Persist ==
  /\ run.pc = "persisting"
  /\ \/ /\ yaml[run.id].kind = "torn"
        /\ yaml' = [yaml EXCEPT ![run.id] = [NoFile EXCEPT !.kind = "whole", !.done = Report]]
        /\ Goto("cleaning")
        /\ UNCHANGED session
     \/ Throw /\ UNCHANGED yaml
  /\ UNCHANGED <<config, controller, checkpoints, succeeded, counts>>

\* deleteSessionCheckpoints, whatever the overall status; errors are ignored
Clean ==
  /\ run.pc = "cleaning"
  /\ run' = NoRun
  /\ checkpoints' \in {checkpoints, [checkpoints EXCEPT ![run.id] = NoFile]}
  /\ UNCHANGED <<config, session, controller, yaml, succeeded, counts>>

-----------------------------------------------------------------------------
(* dispose and crashes *)

Dispose ==
  /\ session' = NoSession
  /\ controller' = FALSE
  /\ run' = [run EXCEPT !.signal = IF @ = "live" THEN "aborted" ELSE @]
  /\ UNCHANGED <<config, yaml, checkpoints, succeeded, counts>>

Crash ==
  /\ session' = NoSession /\ controller' = FALSE /\ run' = NoRun
  /\ UNCHANGED <<config, yaml, checkpoints, succeeded, counts>>

-----------------------------------------------------------------------------
Init ==
  /\ config \in Configs
  /\ session = NoSession /\ controller = FALSE /\ run = NoRun
  /\ yaml = [i \in Sessions |-> NoFile] /\ checkpoints = [i \in Sessions |-> NoFile]
  /\ succeeded = [i \in Sessions |-> {}]
  /\ counts = [sessions |-> 0, runs |-> 0]

RunStep ==
  \/ Validate \/ Schedule \/ NextStage \/ GateThrows \/ GroupSettled
  \/ \E s \in Stages : \/ Approve(s) \/ Deny(s)
                       \/ AgentSucceeds(s) \/ AttemptFails(s) \/ StageFails(s)
  \/ SaveCheckpoint \/ Finish \/ Persist \/ Clean

Next ==
  \/ StartSession \/ \E i \in Sessions : ResumeSession(i)
  \/ Execute \/ RunStep \/ Dispose \/ Crash

\* Agents settle or time out, and the operator answers
Spec == Init /\ [][Next]_vars /\ WF_vars(RunStep)

-----------------------------------------------------------------------------
(* Properties *)

\* Every variable keeps its type; a stage is executed only while its group is, and the
\* sequential group executes one stage at a time
TypeOK ==
  /\ config \in Configs
  /\ session \in [id : Sessions \cup {0}, status : {"none", "pending", "running", "ended"},
                  pre : SUBSET Stages, done : SUBSET Stages]
  /\ controller \in BOOLEAN
  /\ run \in [pc : PCs, id : Sessions \cup {0}, pre : SUBSET Stages,
              signal : {"none", "live", "aborted"}, priorOutputs : SUBSET Stages,
              results : Results, completed : SUBSET Stages, remaining : SUBSET Stages,
              queue : SUBSET Stages, attempt : [Stages -> 0..(MaxRetries + 1)]]
  /\ yaml \in [Sessions -> Files] /\ checkpoints \in [Sessions -> Files]
  /\ succeeded \in [Sessions -> SUBSET Stages]
  /\ counts \in [sessions : Sessions \cup {0}, runs : 0..MaxRuns]
  /\ run.pc # "group" => Cardinality(Working) = IF run.pc = "stage" THEN 1 ELSE 0

G == INSTANCE StageGraph WITH dependsOn <- pipeline.dependsOn, done <- succeeded

\* Across runs, resumptions, stages executed again and crashes, an agent completes a stage
\* only if every stage it depends on was completed in the session, or declared completed by
\* whoever started it: runStages' readiness and what the files let a resumption skip
ImplementsStageGraph == G!Spec

\* No file a resumption reads claims that a stage was completed when no agent did
FilesTruthful ==
  \A i \in Sessions :
    yaml[i].done \cup checkpoints[i].done \cup checkpoints[i].completed \subseteq succeeded[i]

\* The loops of runStages, groups, retries, denials and aborts together leave no stage
\* behind: when they end, exactly the stages not taken as completed have a result
EveryStageAccounted ==
  run.pc \in {"finishing", "persisting", "cleaning"} =>
    \A s \in Stages : run.results[s] # "none" <=> s \notin run.pre

\* A result is pushed once: no stage that was completed, denied, skipped or has failed is
\* executed again in the run, whatever groups follow
ResultsOnce ==
  [][\A s \in Stages :
       run'.pc # "idle" /\ run.results[s] # "none" => /\ run'.results[s] = run.results[s]
                                                      /\ run'.attempt[s] = 0]_vars

\* The step starts the execution of s
Starts(s) == run.attempt[s] = 0 /\ run'.attempt[s] > 0

\* After dispose has aborted a run, no stage is started but the one that waits at its gate;
\* stages that are executed may still be retried
AbortStops ==
  [][\A s \in Stages : run.signal = "aborted" /\ Starts(s) => Approve(s)]_vars

\* Every call of executePipeline ends, whatever fails, is denied or is aborted
RunsEnd == run.pc # "idle" ~> run.pc = "idle"

\* The turns a stage can still take in a run: until it is scheduled, until it is started,
\* and one for every attempt it has left
TurnsLeft(s) ==
  IF run.pc = "validating" \/ s \in run.remaining THEN MaxRetries + 3
  ELSE IF s \in Working THEN MaxRetries + 3 - run.attempt[s]
  ELSE IF s \in run.queue THEN MaxRetries + 2 ELSE 0

Turns == {t \in Stages \X (1..(MaxRetries + 3)) : t[2] <= TurnsLeft(t[1])}

\* How far the run is from the end of the turn its loop is in
Rank ==
  [idle |-> 0, cleaning |-> 1, persisting |-> 2, finishing |-> 3, scheduling |-> 4, stage |-> 5,
   gate |-> 6, sequential |-> 7, writing |-> 8, saving |-> 9, group |-> 10, validating |-> 10]

StepsLeft == 11 * Cardinality(Turns) + Rank[run.pc]

\* The loops of executePipeline are bounded: each of its steps, retries, skips, denials and
\* checkpoints included, leaves it strictly fewer to take, and neither dispose nor a crash
\* gives it more.  A stage put back, or an attempt not counted, would let it go on forever.
EveryStepCounts ==
  [][/\ RunStep => StepsLeft' < StepsLeft
     /\ run.pc # "idle" => StepsLeft' <= StepsLeft]_vars

\* runStages honours approval gates: a stage with approvalRequired is started by an
\* approval.  A parallel group has no gates.
GatesHonoured == [][\A s \in pipeline.approvalRequired : Starts(s) => Approve(s)]_vars
=============================================================================
