--------------------- MODULE PipelineOrchestrator_proofs ---------------------
(***************************************************************************)
(* Proofs about PipelineOrchestrator for every list of stages whose        *)
(* dependencies precede them, every number of retries, runs and sessions.  *)
(***************************************************************************)
EXTENDS PipelineOrchestrator, FiniteSetTheorems, TLAPS

RunType == [pc : PCs, id : Sessions \cup {0}, pre : SUBSET Stages,
            signal : {"none", "live", "aborted"}, priorOutputs : SUBSET Stages,
            results : Results, completed : SUBSET Stages, remaining : SUBSET Stages,
            queue : SUBSET Stages, attempt : [Stages -> 0..(MaxRetries + 1)]]

Types ==
  /\ config \in Configs
  /\ session \in [id : Sessions \cup {0}, status : {"none", "pending", "running", "ended"},
                  pre : SUBSET Stages, done : SUBSET Stages]
  /\ controller \in BOOLEAN
  /\ run \in RunType
  /\ yaml \in [Sessions -> Files] /\ checkpoints \in [Sessions -> Files]
  /\ succeeded \in [Sessions -> SUBSET Stages]
  /\ counts \in [sessions : Sessions \cup {0}, runs : 0..MaxRuns]

-----------------------------------------------------------------------------
(* The loop of runStages *)

\* A stage is executed only by its group, and sequential stages one at a time
Busy ==
  /\ run.pc \notin {"group", "stage"} => Working = {}
  /\ run.pc = "stage" => \E s \in run.queue : Working = {s}

Open == run.remaining \cup run.queue \cup Working

Looping == run.pc \notin {"idle", "validating"}

\* A stage is taken as completed, waits for a later turn of the loop, is in this turn's
\* groups, or has its result: one of the four and no other
Accounting ==
  /\ ~Looping => run.queue = {} /\ run.results = NoResults
  /\ Looping =>
       /\ \A s \in Stages : run.results[s] = "none" <=> s \in run.pre \cup Open
       /\ run.pre \cap Open = {}
       /\ run.remaining \cap (run.queue \cup Working) = {}
  /\ run.pc \in {"scheduling", "finishing", "persisting", "cleaning"} => run.queue = {}
  /\ run.pc \in {"finishing", "persisting", "cleaning"} => run.remaining = {}

ReadyStages == \A s \in run.queue \cup Working : Ready(s)

RunOK == Busy /\ Accounting /\ ReadyStages

LEMMA ConfigType ==
  ASSUME Types
  PROVE  /\ pipeline.dependsOn \in [Stages -> SUBSET Stages]
         /\ pipeline.parallel \subseteq Stages
         /\ config.runs \in 0..MaxRuns
BY PipelineAssumption DEF Types, pipeline, Pipelines

LEMMA NoRunType == NoRun \in RunType /\ NoRun.results = NoResults /\ NoRun.queue = {}
BY PipelineAssumption DEF NoRun, RunType, PCs, Results, NoResults

LEMMA WithType ==
  ASSUME NEW results \in Results, NEW S, NEW status \in {"completed", "degraded", "failed", "skipped"}
  PROVE  /\ With(results, S, status) \in Results
         /\ \A s \in Stages : /\ s \in S => With(results, S, status)[s] = status
                              /\ s \notin S => With(results, S, status)[s] = results[s]
BY DEF With, Results

LEMMA NoResultsNone == \A s \in Stages : NoResults[s] = "none"
BY DEF NoResults

-----------------------------------------------------------------------------
(* What the steps of the loop do to a run *)

LEMMA ScheduleStep ==
  ASSUME Types, RunOK, Schedule
  PROVE  run' \in RunType /\ RunOK'
<1> DEFINE blocked == {s \in run.remaining : Blocked[s]}
           ready == {s \in run.remaining \ blocked : Ready(s)}
           parallel == ready \cap pipeline.parallel
           group == IF Cardinality(parallel) > 1 THEN parallel ELSE {}
<1>1. /\ run \in RunType /\ run.pc = "scheduling" /\ config' = config
      /\ run.queue = {} /\ Working = {}
  BY DEF Types, RunOK, Accounting, Busy, Schedule
<1>2. /\ \A s \in Stages : run.results[s] = "none" <=> s \in run.pre \cup run.remaining
      /\ run.pre \cap run.remaining = {}
  BY <1>1 DEF RunOK, Accounting, Looping, Open
<1>3. CASE Aborted \/ ready = {}
  <2>1. run' = [run EXCEPT !.pc = "finishing", !.remaining = {},
                           !.results = With(@, run.remaining, "skipped")]
    BY <1>3 DEF Schedule, SkipRest
  <2>2. With(run.results, run.remaining, "skipped") \in Results
    BY <1>1, WithType DEF RunType
  <2>3. run' \in RunType
    BY <1>1, <2>1, <2>2 DEF RunType, PCs
  <2>4. /\ run'.pc = "finishing" /\ run'.remaining = {} /\ run'.queue = {}
        /\ run'.results = With(run.results, run.remaining, "skipped")
        /\ run'.pre = run.pre /\ run'.attempt = run.attempt
    BY <1>1, <2>1 DEF RunType
  <2>5. Working' = {}
    BY <1>1, <2>4 DEF Working
  <2>6. \A s \in Stages : run'.results[s] = "none" <=> s \in run.pre
    BY <1>1, <1>2, <2>4, WithType DEF RunType
  <2>7. Accounting'
    BY <2>4, <2>5, <2>6 DEF Accounting, Looping, Open
  <2> QED
    BY <2>3, <2>4, <2>5, <2>7 DEF RunOK, Busy, ReadyStages
<1>4. CASE ~(Aborted \/ ready = {})
  <2>1. run' = [run EXCEPT
                 !.pc = IF group # {} THEN "group" ELSE "sequential",
                 !.results = With(@, blocked, "skipped"),
                 !.remaining = (@ \ blocked) \ ready,
                 !.queue = ready \ group,
                 !.attempt = [s \in Stages |-> IF s \in group THEN 1 ELSE 0]]
    BY <1>4 DEF Schedule
  <2>2. /\ With(run.results, blocked, "skipped") \in Results
        /\ [s \in Stages |-> IF s \in group THEN 1 ELSE 0] \in [Stages -> 0..(MaxRetries + 1)]
    BY <1>1, WithType, PipelineAssumption DEF RunType
  <2>3. group \subseteq ready /\ ready \subseteq run.remaining /\ run.remaining \subseteq Stages
    BY <1>1 DEF RunType
  <2> HIDE DEF ready, parallel, group, blocked
  <2>4. run' \in RunType
    BY <1>1, <2>1, <2>2, <2>3 DEF RunType, PCs
  <2>5. /\ run'.pc = IF group # {} THEN "group" ELSE "sequential"
        /\ run'.remaining = (run.remaining \ blocked) \ ready /\ run'.queue = ready \ group
        /\ run'.results = With(run.results, blocked, "skipped")
        /\ run'.pre = run.pre /\ run'.completed = run.completed
        /\ run'.attempt = [s \in Stages |-> IF s \in group THEN 1 ELSE 0]
    BY <1>1, <2>1 DEF RunType
  <2>6. Working' = group
    BY <2>3, <2>5 DEF Working
  <2>7. blocked \subseteq run.remaining /\ ready \cap blocked = {} /\ \A s \in ready : Ready(s)
    BY DEF blocked, ready
  <2>8. \A s \in Stages : run'.results[s] = "none" <=> s \in run.pre \cup (run.remaining \ blocked)
    BY <1>1, <1>2, <2>5, <2>7, WithType DEF RunType
  <2>9. Open' = run.remaining \ blocked
    BY <2>3, <2>5, <2>6, <2>7 DEF Open
  <2>10. Accounting'
    <3>1. Looping' /\ run'.pc \in {"group", "sequential"}
      BY <2>5 DEF Looping
    <3>2. run'.remaining \cap (run'.queue \cup Working') = {} /\ run'.pre \cap Open' = {}
      BY <1>2, <2>3, <2>5, <2>6, <2>9
    <3> QED BY <2>5, <2>8, <2>9, <3>1, <3>2 DEF Accounting
  <2>11. Busy'
    BY <2>5, <2>6 DEF Busy
  <2>12. ReadyStages'
    BY <1>1, <2>3, <2>5, <2>6, <2>7 DEF ReadyStages, Ready, pipeline
  <2> QED
    BY <2>4, <2>10, <2>11, <2>12 DEF RunOK
<1> QED BY <1>3, <1>4

LEMMA NoRunStep ==
  ASSUME run' = NoRun
  PROVE  run' \in RunType /\ RunOK'
<1>1. run'.attempt = [s \in Stages |-> 0] /\ run'.pc = "idle"
  BY DEF NoRun
<1>2. Working' = {}
  BY <1>1 DEF Working
<1> QED
  BY <1>1, <1>2, NoRunType DEF RunOK, Busy, Accounting, Looping, ReadyStages

LEMMA ExecuteStep ==
  ASSUME Types, Execute
  PROVE  run' \in RunType /\ RunOK' /\ run'.pc = "validating"
<1>1. run' = [NoRun EXCEPT !.pc = "validating", !.id = session.id, !.pre = session.pre,
                           !.priorOutputs = session.done]
  BY DEF Execute
<1>2. /\ run' \in RunType /\ run'.pc = "validating"
      /\ run'.attempt = NoRun.attempt /\ run'.results = NoResults /\ run'.queue = {}
  BY <1>1, NoRunType DEF Types, RunType, PCs
<1>3. Working' = {}
  BY <1>2 DEF Working, NoRun
<1> QED
  BY <1>2, <1>3 DEF RunOK, Busy, Accounting, Looping, ReadyStages

LEMMA ValidateStep ==
  ASSUME Types, RunOK, Validate
  PROVE  run' \in RunType /\ RunOK'
<1>1. run \in RunType /\ run.queue = {} /\ run.results = NoResults /\ Working = {}
  BY DEF Types, RunOK, Accounting, Looping, Busy, Validate
<1>2. PICK invalid \in SUBSET run.pre :
        run' = [run EXCEPT !.pc = "scheduling", !.pre = run.pre \ invalid,
                           !.completed = run.pre \ invalid,
                           !.remaining = Stages \ (run.pre \ invalid),
                           !.signal = IF controller THEN "live" ELSE "none"]
  BY DEF Validate
<1>3. run' \in RunType
  BY <1>1, <1>2 DEF RunType, PCs
<1>4. /\ run'.pc = "scheduling" /\ run'.pre = run.pre \ invalid
      /\ run'.remaining = Stages \ (run.pre \ invalid) /\ run'.queue = {}
      /\ run'.results = NoResults /\ run'.attempt = run.attempt
  BY <1>1, <1>2 DEF RunType
<1>5. Working' = {}
  BY <1>1, <1>4 DEF Working
<1>6. run'.pre \subseteq Stages
  BY <1>3 DEF RunType
<1>7. Accounting'
  BY <1>4, <1>5, <1>6, NoResultsNone DEF Accounting, Looping, Open
<1> QED
  BY <1>3, <1>4, <1>5, <1>7 DEF RunOK, Busy, ReadyStages

\* The run goes on to pc, and nothing else of it changes
LEMMA GotoStep ==
  ASSUME Types, RunOK, NEW pc \in PCs, Goto(pc), config' = config,
         run.pc \notin {"idle", "validating", "group", "stage"},
         pc \notin {"idle", "validating", "group", "stage"},
         pc = "scheduling" => run.queue = {},
         pc \in {"finishing", "persisting", "cleaning"} =>
           run.pc \in {"finishing", "persisting", "cleaning"}
  PROVE  run' \in RunType /\ RunOK'
<1>1. run \in RunType /\ run' = [run EXCEPT !.pc = pc]
  BY DEF Types, Goto
<1>2. run' \in RunType
  BY <1>1 DEF RunType
<1>3. /\ run'.pc = pc /\ run'.pre = run.pre /\ run'.results = run.results
      /\ run'.remaining = run.remaining /\ run'.queue = run.queue
      /\ run'.completed = run.completed /\ run'.attempt = run.attempt
  BY <1>1 DEF RunType
<1>4. Working' = Working /\ Open' = Open /\ Working = {}
  BY <1>3 DEF Working, Open, RunOK, Busy
<1>5. Accounting'
  BY <1>3, <1>4 DEF RunOK, Accounting, Looping
<1>6. ReadyStages'
  BY <1>3, <1>4 DEF RunOK, ReadyStages, Ready, pipeline
<1> QED
  BY <1>2, <1>3, <1>4, <1>5, <1>6 DEF RunOK, Busy

\* A stage of the sequential group is started, at once or after its approval
LEMMA StartStep ==
  ASSUME Types, RunOK, config' = config, NEW s \in run.queue,
         run.pc \in {"sequential", "gate"},
         run' = [run EXCEPT !.pc = "stage", !.attempt[s] = 1]
  PROVE  run' \in RunType /\ RunOK'
<1>1. run \in RunType /\ s \in Stages /\ Working = {}
  BY DEF Types, RunType, RunOK, Busy
<1>2. [run.attempt EXCEPT ![s] = 1] \in [Stages -> 0..(MaxRetries + 1)]
  BY <1>1, PipelineAssumption DEF RunType
<1>3. run' \in RunType
  BY <1>1, <1>2 DEF RunType, PCs
<1>4. /\ run'.pc = "stage" /\ run'.pre = run.pre /\ run'.results = run.results
      /\ run'.remaining = run.remaining /\ run'.queue = run.queue
      /\ run'.completed = run.completed /\ run'.attempt = [run.attempt EXCEPT ![s] = 1]
  BY <1>1 DEF RunType
<1>5. \A t \in Stages : run'.attempt[t] = IF t = s THEN 1 ELSE run.attempt[t]
  BY <1>1, <1>4 DEF RunType
<1>6. Working' = {s}
  BY <1>1, <1>5 DEF Working
<1>7. Open' = Open
  BY <1>1, <1>4, <1>6 DEF Open
<1>8. Accounting'
  BY <1>1, <1>4, <1>6, <1>7 DEF RunOK, Accounting, Looping
<1>9. ReadyStages'
  BY <1>1, <1>4, <1>6 DEF RunOK, ReadyStages, Ready, pipeline
<1> QED
  BY <1>3, <1>4, <1>6, <1>8, <1>9 DEF RunOK, Busy

\* A stage of the sequential group is skipped
LEMMA SkipStep ==
  ASSUME Types, RunOK, config' = config, NEW s \in run.queue,
         run.pc \in {"sequential", "gate"},
         run' = [run EXCEPT !.pc = "sequential", !.queue = @ \ {s}, !.results[s] = "skipped"]
  PROVE  run' \in RunType /\ RunOK'
<1>1. run \in RunType /\ s \in Stages /\ Working = {}
  BY DEF Types, RunType, RunOK, Busy
<1>2. [run.results EXCEPT ![s] = "skipped"] \in Results
  BY <1>1 DEF RunType, Results
<1>3. run' \in RunType
  BY <1>1, <1>2 DEF RunType, PCs
<1>4. /\ run'.pc = "sequential" /\ run'.pre = run.pre
      /\ run'.results = [run.results EXCEPT ![s] = "skipped"]
      /\ run'.remaining = run.remaining /\ run'.queue = run.queue \ {s}
      /\ run'.completed = run.completed /\ run'.attempt = run.attempt
  BY <1>1 DEF RunType
<1>5. Working' = {}
  BY <1>1, <1>4 DEF Working
<1>6. \A t \in Stages : run'.results[t] = IF t = s THEN "skipped" ELSE run.results[t]
  BY <1>1, <1>4 DEF RunType, Results
<1>7. run.pre \cap Open = {} /\ run.remaining \cap run.queue = {} /\ Open' = Open \ {s}
  BY <1>1, <1>4, <1>5 DEF RunOK, Accounting, Looping, Open
<1>8. \A t \in Stages : run.results[t] = "none" <=> t \in run.pre \cup Open
  BY DEF RunOK, Accounting, Looping
<1>9. \A t \in Stages : run'.results[t] = "none" <=> t \in run.pre \cup Open'
  BY <1>6, <1>7, <1>8 DEF Open
<1>10. Accounting'
  BY <1>4, <1>5, <1>7, <1>9 DEF Accounting, Looping
<1>11. ReadyStages'
  BY <1>1, <1>4, <1>5 DEF RunOK, ReadyStages, Ready, pipeline
<1> QED
  BY <1>3, <1>4, <1>5, <1>10, <1>11 DEF RunOK, Busy

LEMMA NextStageStep ==
  ASSUME Types, RunOK, NextStage
  PROVE  run' \in RunType /\ RunOK'
<1>1. config' = config /\ run.pc = "sequential"
  BY DEF NextStage
<1>2. CASE run.queue = {} /\ Goto("scheduling")
  <2>1. "scheduling" \in PCs
    BY DEF PCs
  <2> QED BY <1>1, <1>2, <2>1, GotoStep
<1>3. ASSUME NEW s \in run.queue, Aborted,
             run' = [run EXCEPT !.queue = @ \ {s}, !.results[s] = "skipped"]
      PROVE  run' \in RunType /\ RunOK'
  <2>1. run' = [run EXCEPT !.pc = "sequential", !.queue = @ \ {s}, !.results[s] = "skipped"]
    BY <1>1, <1>3 DEF Types, RunType
  <2> QED BY <1>1, <1>3, <2>1, SkipStep
<1>4. ASSUME NEW s \in run.queue, Goto("gate")
      PROVE  run' \in RunType /\ RunOK'
  <2>1. "gate" \in PCs
    BY DEF PCs
  <2> QED BY <1>1, <1>4, <2>1, GotoStep
<1>5. ASSUME NEW s \in run.queue, run' = [run EXCEPT !.pc = "stage", !.attempt[s] = 1]
      PROVE  run' \in RunType /\ RunOK'
  BY <1>1, <1>5, StartStep
<1> QED
  BY <1>2, <1>3, <1>4, <1>5 DEF NextStage

\* The stage s that is executed gets its result
LEMMA SettleStep ==
  ASSUME Types, RunOK, config' = config, NEW s \in Working,
         NEW status \in {"completed", "degraded", "failed"}, NEW completed \in SUBSET Stages,
         run.completed \subseteq completed,
         run' = [run EXCEPT !.attempt[s] = 0, !.results[s] = status, !.queue = @ \ {s},
                            !.completed = completed,
                            !.pc = IF run.pc = "group" THEN run.pc ELSE "saving"]
  PROVE  run' \in RunType /\ RunOK'
<1>1. run \in RunType /\ s \in Stages /\ run.pc \in {"group", "stage"}
  BY DEF Types, RunType, RunOK, Busy, Working
<1>2. /\ [run.results EXCEPT ![s] = status] \in Results
      /\ [run.attempt EXCEPT ![s] = 0] \in [Stages -> 0..(MaxRetries + 1)]
  BY <1>1, PipelineAssumption DEF RunType, Results
<1>3. run' \in RunType
  BY <1>1, <1>2 DEF RunType, PCs
<1>4. /\ run'.pc = (IF run.pc = "group" THEN "group" ELSE "saving") /\ run'.pre = run.pre
      /\ run'.results = [run.results EXCEPT ![s] = status]
      /\ run'.remaining = run.remaining /\ run'.queue = run.queue \ {s}
      /\ run'.completed = completed /\ run'.attempt = [run.attempt EXCEPT ![s] = 0]
  BY <1>1 DEF RunType
<1>5. \A t \in Stages : run'.attempt[t] = IF t = s THEN 0 ELSE run.attempt[t]
  BY <1>1, <1>4 DEF RunType
<1>6. Working' = Working \ {s}
  BY <1>1, <1>5 DEF Working
<1>7. \A t \in Stages : run'.results[t] = IF t = s THEN status ELSE run.results[t]
  BY <1>1, <1>4 DEF RunType, Results
<1>8. /\ run.pre \cap Open = {} /\ run.remaining \cap (run.queue \cup Working) = {}
      /\ \A t \in Stages : run.results[t] = "none" <=> t \in run.pre \cup Open
  BY <1>1 DEF RunOK, Accounting, Looping
<1>9. Open' = Open \ {s}
  BY <1>4, <1>6, <1>8 DEF Open
<1>10. \A t \in Stages : run'.results[t] = "none" <=> t \in run.pre \cup Open'
  BY <1>7, <1>8, <1>9 DEF Open
<1>11. run'.remaining \cap (run'.queue \cup Working') = {} /\ run'.pre \cap Open' = {}
  BY <1>4, <1>6, <1>8, <1>9
<1>12. Accounting'
  BY <1>1, <1>4, <1>10, <1>11 DEF Accounting, Looping
<1>13. Busy'
  BY <1>1, <1>4, <1>6 DEF RunOK, Busy
<1>14. \A t \in run.queue \cup Working : Ready(t)'
  BY <1>4 DEF RunOK, ReadyStages, Ready, pipeline
<1>15. ReadyStages'
  BY <1>4, <1>6, <1>14 DEF ReadyStages
<1> QED
  BY <1>3, <1>12, <1>13, <1>15 DEF RunOK

LEMMA AgentSucceedsStep ==
  ASSUME Types, RunOK, NEW s \in Stages, AgentSucceeds(s)
  PROVE  run' \in RunType /\ RunOK'
<1> DEFINE completed == IF run.pc = "group" THEN run.completed ELSE run.completed \cup {s}
<1>1. s \in Working /\ config' = config /\ run \in RunType
  BY DEF Types, AgentSucceeds
<1>2. PICK status \in {"completed", "degraded"} :
        run' = [run EXCEPT !.attempt[s] = 0, !.results[s] = status, !.queue = @ \ {s},
                           !.completed = IF run.pc = "group" THEN @ ELSE @ \cup {s},
                           !.pc = IF run.pc = "group" THEN @ ELSE "saving"]
  BY DEF AgentSucceeds
<1>3. completed \in SUBSET Stages /\ run.completed \subseteq completed
  BY <1>1 DEF RunType
<1>4. run' = [run EXCEPT !.attempt[s] = 0, !.results[s] = status, !.queue = @ \ {s},
                         !.completed = completed,
                         !.pc = IF run.pc = "group" THEN run.pc ELSE "saving"]
  BY <1>2
<1> HIDE DEF completed
<1> QED BY <1>1, <1>3, <1>4, SettleStep

LEMMA StageFailsStep ==
  ASSUME Types, RunOK, NEW s \in Stages, StageFails(s)
  PROVE  run' \in RunType /\ RunOK'
<1>1. s \in Working /\ config' = config /\ run \in RunType
  BY DEF Types, StageFails
<1>2. run' = [run EXCEPT !.attempt[s] = 0, !.results[s] = "failed", !.queue = @ \ {s},
                         !.completed = run.completed,
                         !.pc = IF run.pc = "group" THEN run.pc ELSE "saving"]
  BY <1>1 DEF StageFails, RunType
<1>3. run.completed \in SUBSET Stages
  BY <1>1 DEF RunType
<1> QED BY <1>1, <1>2, <1>3, SettleStep

LEMMA AttemptFailsStep ==
  ASSUME Types, RunOK, NEW s \in Stages, AttemptFails(s)
  PROVE  run' \in RunType /\ RunOK'
<1>1. /\ run \in RunType /\ s \in Working /\ config' = config
      /\ run.attempt[s] <= MaxRetries /\ run.attempt[s] \in Nat
      /\ run' = [run EXCEPT !.attempt[s] = @ + 1]
  BY PipelineAssumption DEF Types, AttemptFails, RunType
<1>2. [run.attempt EXCEPT ![s] = @ + 1] \in [Stages -> 0..(MaxRetries + 1)]
  BY <1>1, PipelineAssumption DEF RunType
<1>3. run' \in RunType
  BY <1>1, <1>2 DEF RunType
<1>4. /\ run'.pc = run.pc /\ run'.pre = run.pre /\ run'.results = run.results
      /\ run'.remaining = run.remaining /\ run'.queue = run.queue
      /\ run'.completed = run.completed
      /\ run'.attempt = [run.attempt EXCEPT ![s] = @ + 1]
  BY <1>1 DEF RunType
<1>5. \A t \in Stages : run'.attempt[t] > 0 <=> run.attempt[t] > 0
  BY <1>1, <1>4 DEF RunType, Working
<1>6. Working' = Working /\ Open' = Open
  BY <1>4, <1>5 DEF Working, Open
<1>7. Accounting' /\ Busy'
  BY <1>4, <1>6 DEF RunOK, Accounting, Looping, Busy
<1>8. ReadyStages'
  BY <1>1, <1>4, <1>6 DEF RunOK, ReadyStages, Ready, pipeline
<1> QED BY <1>3, <1>7, <1>8 DEF RunOK

LEMMA GroupSettledStep ==
  ASSUME Types, RunOK, GroupSettled
  PROVE  run' \in RunType /\ RunOK'
<1>1. /\ run \in RunType /\ config' = config /\ run.pc = "group" /\ Working = {}
      /\ run' = [run EXCEPT !.pc = "saving", !.completed = @ \cup Completed(run.results)]
  BY DEF Types, GroupSettled
<1>2. run' \in RunType
  BY <1>1 DEF RunType, PCs, Completed
<1>3. /\ run'.pc = "saving" /\ run'.pre = run.pre /\ run'.results = run.results
      /\ run'.remaining = run.remaining /\ run'.queue = run.queue
      /\ run.completed \subseteq run'.completed /\ run'.attempt = run.attempt
  BY <1>1 DEF RunType
<1>4. Working' = {} /\ Open' = Open
  BY <1>1, <1>3 DEF Working, Open
<1>5. Accounting' /\ Busy'
  BY <1>1, <1>3, <1>4 DEF RunOK, Accounting, Looping, Busy
<1>6. \A t \in run.queue : Ready(t)'
  BY <1>1, <1>3 DEF RunOK, ReadyStages, Ready, pipeline
<1>7. ReadyStages'
  BY <1>3, <1>4, <1>6 DEF ReadyStages
<1> QED BY <1>2, <1>5, <1>7 DEF RunOK

LEMMA DisposeStep ==
  ASSUME Types, RunOK, Dispose
  PROVE  run' \in RunType /\ RunOK' /\ \E v \in {"none", "live", "aborted"} : run' = [run EXCEPT !.signal = v]
<1> DEFINE v == IF run.signal = "live" THEN "aborted" ELSE run.signal
<1>1. run \in RunType /\ config' = config /\ run' = [run EXCEPT !.signal = v]
  BY DEF Types, Dispose
<1>2. v \in {"none", "live", "aborted"}
  BY <1>1 DEF RunType
<1> HIDE DEF v
<1>3. run' \in RunType
  BY <1>1, <1>2 DEF RunType
<1>4. /\ run'.pc = run.pc /\ run'.pre = run.pre /\ run'.results = run.results
      /\ run'.remaining = run.remaining /\ run'.queue = run.queue
      /\ run'.completed = run.completed /\ run'.attempt = run.attempt
  BY <1>1 DEF RunType
<1>5. Working' = Working /\ Open' = Open
  BY <1>4 DEF Working, Open
<1>6. Accounting' /\ Busy'
  BY <1>4, <1>5 DEF RunOK, Accounting, Looping, Busy
<1>7. ReadyStages'
  BY <1>1, <1>4, <1>5 DEF RunOK, ReadyStages, Ready, pipeline
<1> QED BY <1>1, <1>2, <1>3, <1>6, <1>7 DEF RunOK

-----------------------------------------------------------------------------
(* The sessions and their files *)

\* What a run takes for completed
Claims == run.pre \cup run.priorOutputs \cup run.completed \cup Completed(run.results)

Numbered ==
  /\ counts.sessions <= counts.runs
  /\ session.id <= counts.sessions + 1
  /\ \A i \in Sessions : i > counts.sessions => succeeded[i] = {}
  /\ run.pc # "idle" => run.id \in 1..counts.sessions /\ session.id \in {0, run.id}

SessionTruthful ==
  /\ session.id \in 1..counts.sessions =>
       session.pre \cup session.done \subseteq succeeded[session.id]
  /\ session.id > counts.sessions => session.done = {}

RunTruthful == run.pc # "idle" => Claims \subseteq succeeded[run.id]

History == Numbered /\ SessionTruthful /\ RunTruthful /\ FilesTruthful

IInv == Types /\ RunOK /\ History

Others == <<config, session, controller, yaml, checkpoints, counts>>

\* The run takes no further step than before for completed
LEMMA ClaimsNoMore ==
  ASSUME Types, History, run.pc # "idle", run'.pc # "idle", run'.id = run.id,
         Claims' \subseteq Claims, UNCHANGED <<Others, succeeded>>
  PROVE  History'
BY DEF Others, History, Numbered, SessionTruthful, RunTruthful, FilesTruthful

LEMMA SkippedClaims ==
  ASSUME NEW results \in Results, NEW S, NEW status \in {"skipped", "failed"}
  PROVE  Completed(With(results, S, status)) \subseteq Completed(results)
BY WithType DEF Completed

LEMMA OneResult ==
  ASSUME NEW results \in Results, NEW s \in Stages,
         NEW status \in {"completed", "degraded", "skipped", "failed"}
  PROVE  Completed([results EXCEPT ![s] = status]) \subseteq
           Completed(results) \cup IF status = "completed" THEN {s} ELSE {}
BY DEF Completed, Results

\* The steps of the loop but the success of an agent
Quiet ==
  \/ Validate \/ Schedule \/ NextStage \/ GroupSettled
  \/ \E s \in Stages : Approve(s) \/ Deny(s) \/ AttemptFails(s) \/ StageFails(s)

LEMMA QuietSteps ==
  ASSUME Types, RunOK, Quiet
  PROVE  /\ run.pc # "idle" /\ run'.pc # "idle" /\ run'.id = run.id /\ Claims' \subseteq Claims
         /\ UNCHANGED <<Others, succeeded>>
<1> DEFINE Goal == /\ run.pc # "idle" /\ run'.pc # "idle" /\ run'.id = run.id
                   /\ Claims' \subseteq Claims /\ UNCHANGED <<Others, succeeded>>
<1>1. run \in RunType /\ run.results \in Results
  BY DEF Types, RunType
<1>2. CASE Validate
  BY <1>1, <1>2 DEF Validate, RunType, Claims, Others
<1>3. CASE Schedule
  <2>1. run.pc = "scheduling" /\ UNCHANGED <<Others, succeeded>>
    BY <1>3 DEF Schedule, Others
  <2>2. PICK S \in SUBSET Stages :
          /\ run'.results = With(run.results, S, "skipped") /\ run'.id = run.id
          /\ run'.pc # "idle" /\ run'.pre = run.pre /\ run'.priorOutputs = run.priorOutputs
          /\ run'.completed = run.completed
    <3>1. CASE run' = [run EXCEPT !.pc = "finishing", !.remaining = {},
                                  !.results = With(@, run.remaining, "skipped")]
      <4>1. run.remaining \in SUBSET Stages
        BY <1>1 DEF RunType
      <4> QED BY <1>1, <3>1, <4>1 DEF RunType
    <3>2. CASE ~(run' = [run EXCEPT !.pc = "finishing", !.remaining = {},
                                    !.results = With(@, run.remaining, "skipped")])
      <4> DEFINE blocked == {s \in run.remaining : Blocked[s]}
                 ready == {s \in run.remaining \ blocked : Ready(s)}
                 parallel == ready \cap pipeline.parallel
                 group == IF Cardinality(parallel) > 1 THEN parallel ELSE {}
      <4>1. run' = [run EXCEPT
                     !.pc = IF group # {} THEN "group" ELSE "sequential",
                     !.results = With(@, blocked, "skipped"),
                     !.remaining = (@ \ blocked) \ ready,
                     !.queue = ready \ group,
                     !.attempt = [s \in Stages |-> IF s \in group THEN 1 ELSE 0]]
        BY <1>3, <3>2 DEF Schedule, SkipRest
      <4>2. blocked \in SUBSET Stages
        BY <1>1 DEF RunType
      <4> HIDE DEF ready, parallel, group, blocked
      <4> QED BY <1>1, <4>1, <4>2 DEF RunType
    <3> QED BY <3>1, <3>2
  <2>3. Completed(run.results)' \subseteq Completed(run.results)
    <3>1. Completed(run'.results) \subseteq Completed(run.results)
      BY <1>1, <2>2, SkippedClaims
    <3> QED BY <3>1 DEF Completed
  <2> QED BY <2>1, <2>2, <2>3 DEF Claims
<1>4. ASSUME NEW s \in Stages, NEW r, NEW status \in {"degraded", "skipped", "failed"},
             r = [run.results EXCEPT ![s] = status], run'.results = r,
             run'.pre = run.pre, run'.priorOutputs = run.priorOutputs,
             run'.completed = run.completed
      PROVE  Claims' \subseteq Claims
  <2>1. Completed(run'.results) \subseteq Completed(run.results)
    <3>1. status \in {"completed", "degraded", "skipped", "failed"} /\ status # "completed"
      OBVIOUS
    <3>2. Completed([run.results EXCEPT ![s] = status]) \subseteq Completed(run.results)
      BY <1>1, <3>1, OneResult
    <3> QED BY <3>2, <1>4
  <2>2. Completed(run.results)' \subseteq Completed(run.results)
    BY <2>1 DEF Completed
  <2> QED BY <1>4, <2>2 DEF Claims
<1>5. ASSUME run'.results = run.results, run'.pre = run.pre,
             run'.priorOutputs = run.priorOutputs, run'.completed = run.completed
      PROVE  Claims' \subseteq Claims
  BY <1>5 DEF Claims, Completed
<1>6. CASE NextStage
  <2>1. run.pc = "sequential" /\ UNCHANGED <<Others, succeeded>>
    BY <1>6 DEF NextStage, Others
  <2>2. CASE run.queue = {} /\ Goto("scheduling")
    BY <1>1, <1>5, <2>1, <2>2 DEF Goto, RunType
  <2>3. ASSUME NEW s \in run.queue, run' = [run EXCEPT !.queue = @ \ {s}, !.results[s] = "skipped"]
        PROVE  Goal
    <3>1. s \in Stages
      BY <1>1 DEF RunType
    <3>2. /\ run'.results = [run.results EXCEPT ![s] = "skipped"] /\ run'.pc = run.pc
          /\ run'.id = run.id /\ run'.pre = run.pre /\ run'.priorOutputs = run.priorOutputs
          /\ run'.completed = run.completed
      BY <1>1, <2>3 DEF RunType
    <3> QED BY <1>4, <2>1, <3>1, <3>2
  <2>4. ASSUME Goto("gate") PROVE Goal
    BY <1>1, <1>5, <2>1, <2>4 DEF Goto, RunType
  <2>5. ASSUME NEW s \in run.queue, run' = [run EXCEPT !.pc = "stage", !.attempt[s] = 1]
        PROVE  Goal
    BY <1>1, <1>5, <2>1, <2>5 DEF RunType
  <2> QED BY <1>6, <2>2, <2>3, <2>4, <2>5 DEF NextStage
<1>7. CASE GroupSettled
  <2>1. /\ run' = [run EXCEPT !.pc = "saving", !.completed = @ \cup Completed(run.results)]
        /\ run.pc = "group" /\ UNCHANGED <<Others, succeeded>>
    BY <1>7 DEF GroupSettled, Others
  <2>2. /\ run'.pc = "saving" /\ run'.id = run.id /\ run'.pre = run.pre
        /\ run'.priorOutputs = run.priorOutputs /\ run'.results = run.results
        /\ run'.completed = run.completed \cup Completed(run.results)
    BY <1>1, <2>1 DEF RunType
  <2>3. Completed(run.results)' = Completed(run.results)
    BY <2>2 DEF Completed
  <2> QED BY <2>1, <2>2, <2>3 DEF Claims
<1>8. ASSUME NEW s \in Stages, Approve(s) PROVE Goal
  <2>1. run' = [run EXCEPT !.pc = "stage", !.attempt[s] = 1]
        /\ run.pc = "gate" /\ UNCHANGED <<Others, succeeded>>
    BY <1>8 DEF Approve, Others
  <2> QED BY <1>1, <1>5, <2>1 DEF RunType
<1>9. ASSUME NEW s \in Stages, Deny(s) PROVE Goal
  <2>1. run' = [run EXCEPT !.pc = "sequential", !.queue = @ \ {s}, !.results[s] = "skipped"]
        /\ run.pc = "gate" /\ UNCHANGED <<Others, succeeded>>
    BY <1>9 DEF Deny, Others
  <2>2. /\ run'.results = [run.results EXCEPT ![s] = "skipped"] /\ run'.pc = "sequential"
        /\ run'.id = run.id /\ run'.pre = run.pre /\ run'.priorOutputs = run.priorOutputs
        /\ run'.completed = run.completed
    BY <1>1, <2>1 DEF RunType
  <2> QED BY <1>4, <2>1, <2>2
<1>10. ASSUME NEW s \in Stages, AttemptFails(s) PROVE Goal
  <2>1. run' = [run EXCEPT !.attempt[s] = @ + 1] /\ s \in Working
        /\ UNCHANGED <<Others, succeeded>>
    BY <1>10 DEF AttemptFails, Others
  <2>2. run.pc # "idle"
    BY <2>1 DEF RunOK, Busy
  <2> QED BY <1>1, <1>5, <2>1, <2>2 DEF RunType
<1>11. ASSUME NEW s \in Stages, StageFails(s) PROVE Goal
  <2>1. run' = [run EXCEPT !.attempt[s] = 0, !.results[s] = "failed", !.queue = @ \ {s},
                           !.pc = IF run.pc = "group" THEN @ ELSE "saving"]
        /\ s \in Working /\ UNCHANGED <<Others, succeeded>>
    BY <1>11 DEF StageFails, Others
  <2>2. run.pc # "idle"
    BY <2>1 DEF RunOK, Busy
  <2>3. /\ run'.results = [run.results EXCEPT ![s] = "failed"]
        /\ run'.pc = IF run.pc = "group" THEN run.pc ELSE "saving"
        /\ run'.id = run.id /\ run'.pre = run.pre /\ run'.priorOutputs = run.priorOutputs
        /\ run'.completed = run.completed
    BY <1>1, <2>1 DEF RunType
  <2>4. run'.pc # "idle"
    BY <2>2, <2>3
  <2>5. Claims' \subseteq Claims
    BY <1>4, <2>3
  <2> QED BY <2>1, <2>2, <2>3, <2>4, <2>5
<1> QED BY <1>2, <1>3, <1>6, <1>7, <1>8, <1>9, <1>10, <1>11 DEF Quiet

LEMMA FileTypes ==
  /\ NoFile \in Files /\ TornFile \in Files
  /\ NoFile.done = {} /\ NoFile.completed = {} /\ TornFile.done = {} /\ TornFile.completed = {}
BY DEF NoFile, TornFile, Files

LEMMA QuietInvariant == ASSUME IInv, Quiet PROVE IInv'
<1>1. run' \in RunType /\ RunOK'
  <2>1. ASSUME NEW s \in Stages, Approve(s) PROVE run' \in RunType /\ RunOK'
    BY <2>1, StartStep DEF IInv, Approve, IsNext
  <2>2. ASSUME NEW s \in Stages, Deny(s) PROVE run' \in RunType /\ RunOK'
    BY <2>2, SkipStep DEF IInv, Deny, IsNext
  <2> QED
    BY <2>1, <2>2, ValidateStep, ScheduleStep, NextStageStep, GroupSettledStep,
       AttemptFailsStep, StageFailsStep DEF IInv, Quiet
<1>2. UNCHANGED <<Others, succeeded>> /\ History'
  BY QuietSteps, ClaimsNoMore DEF IInv
<1>3. config' = config
  BY DEF Quiet, Validate, Schedule, NextStage, GroupSettled, Approve, Deny, AttemptFails, StageFails
<1> QED BY <1>1, <1>2, <1>3 DEF IInv, Types, Others

LEMMA AgentSucceedsInvariant == ASSUME IInv, NEW s \in Stages, AgentSucceeds(s) PROVE IInv'
<1>1. /\ Types /\ RunOK /\ run \in RunType /\ config' = config /\ UNCHANGED Others
      /\ succeeded \in [Sessions -> SUBSET Stages]
      /\ succeeded' = [succeeded EXCEPT ![run.id] = @ \cup {s}] /\ s \in Working
  BY DEF IInv, Types, AgentSucceeds, Others
<1>2. run' \in RunType /\ RunOK'
  BY <1>1, AgentSucceedsStep
<1>3. run.pc # "idle" /\ run.id \in 1..counts.sessions /\ counts.sessions \in Sessions \cup {0}
  BY <1>1 DEF IInv, RunOK, Busy, History, Numbered, Types
<1>4. run.id \in Sessions
  BY <1>3, PipelineAssumption DEF Sessions
<1>5. /\ succeeded' \in [Sessions -> SUBSET Stages]
      /\ \A i \in Sessions : succeeded'[i] = IF i = run.id THEN succeeded[i] \cup {s} ELSE succeeded[i]
  BY <1>1, <1>4
<1>6. PICK status \in {"completed", "degraded"} :
        run' = [run EXCEPT !.attempt[s] = 0, !.results[s] = status, !.queue = @ \ {s},
                           !.completed = IF run.pc = "group" THEN @ ELSE @ \cup {s},
                           !.pc = IF run.pc = "group" THEN @ ELSE "saving"]
  BY DEF AgentSucceeds
<1>7. /\ run'.results = [run.results EXCEPT ![s] = status] /\ run'.id = run.id
      /\ run'.pre = run.pre /\ run'.priorOutputs = run.priorOutputs
      /\ run'.completed \subseteq run.completed \cup {s}
      /\ run'.pc = IF run.pc = "group" THEN run.pc ELSE "saving"
  BY <1>1, <1>6 DEF RunType
<1>8. Claims' \subseteq Claims \cup {s}
  <2>1. Completed(run'.results) \subseteq Completed(run.results) \cup {s}
    <3>1. run.results \in Results /\ s \in Stages
      BY <1>1 DEF RunType
    <3>2. Completed([run.results EXCEPT ![s] = status]) \subseteq Completed(run.results) \cup {s}
      BY <3>1, OneResult
    <3> QED BY <3>2, <1>7
  <2>2. Completed(run.results)' \subseteq Completed(run.results) \cup {s}
    BY <2>1 DEF Completed
  <2> QED BY <1>7, <2>2 DEF Claims
<1>9. run'.pc # "idle"
  BY <1>3, <1>7
<1>10. RunTruthful'
  BY <1>3, <1>4, <1>5, <1>7, <1>8 DEF IInv, History, RunTruthful
<1>11. Numbered'
  <2>1. /\ counts' = counts /\ session' = session /\ run'.id = run.id
        /\ Numbered /\ run.id <= counts.sessions
    BY <1>1, <1>3, <1>7 DEF IInv, History, Others
  <2>2. \A i \in Sessions : i > counts.sessions => succeeded'[i] = {}
    <3> SUFFICES ASSUME NEW i \in Sessions, i > counts.sessions PROVE succeeded'[i] = {}
      OBVIOUS
    <3>1. i # run.id
      BY <1>3, <2>1 DEF Sessions
    <3> QED BY <1>5, <2>1, <3>1 DEF Numbered
  <2> QED BY <1>3, <2>1, <2>2 DEF Numbered
<1>12. SessionTruthful'
  <2>1. session' = session /\ counts' = counts /\ counts.sessions \in Sessions \cup {0}
    BY <1>1 DEF Others, Types
  <2>2. session.id \in 1..counts.sessions => session.id \in Sessions
    BY <2>1, PipelineAssumption DEF Sessions
  <2> QED BY <1>5, <2>1, <2>2 DEF IInv, History, SessionTruthful
<1>13. FilesTruthful'
  BY <1>1, <1>5 DEF IInv, History, FilesTruthful, Others
<1> QED BY <1>1, <1>2, <1>5, <1>10, <1>11, <1>12, <1>13 DEF IInv, History, Types, Others

LEMMA StartInvariant ==
  ASSUME IInv, StartSession \/ \E i \in Sessions : ResumeSession(i)
  PROVE  IInv'
<1>1. /\ Types /\ run.pc = "idle" /\ counts.runs < config.runs /\ controller' = TRUE
      /\ UNCHANGED <<config, run, yaml, checkpoints, succeeded, counts>>
  BY DEF IInv, StartSession, ResumeSession, MayStart
<1>2. /\ counts.sessions \in Nat /\ counts.runs \in Nat /\ counts.sessions <= counts.runs
      /\ counts.sessions + 1 \in Sessions
  BY <1>1, ConfigType, PipelineAssumption DEF IInv, History, Numbered, Types, Sessions
<1> DEFINE SessionType == [id : Sessions \cup {0},
                           status : {"none", "pending", "running", "ended"},
                           pre : SUBSET Stages, done : SUBSET Stages]
           Good(x) == /\ x \in SessionType /\ x.id <= counts.sessions + 1
                      /\ x.id \in 1..counts.sessions => x.pre \cup x.done \subseteq succeeded[x.id]
                      /\ x.id > counts.sessions => x.done = {}
<1>3. ASSUME NEW pre \in SUBSET Stages, ColdStart(pre) PROVE Good(session')
  <2>1. session' = [id |-> counts.sessions + 1, status |-> "pending", pre |-> pre, done |-> {}]
    BY <1>3 DEF ColdStart, NoSession
  <2> QED BY <1>2, <2>1
<1>4. ASSUME NEW i \in Sessions, ResumeSession(i) PROVE Good(session')
  <2>1. i <= counts.sessions
    BY <1>4 DEF ResumeSession
  <2>2. /\ yaml[i].done \in SUBSET Stages /\ checkpoints[i].done \in SUBSET Stages
        /\ checkpoints[i].completed \in SUBSET Stages
    BY <1>1 DEF Types, Files
  <2>3. yaml[i].done \cup checkpoints[i].done \cup checkpoints[i].completed \subseteq succeeded[i]
    BY DEF IInv, History, FilesTruthful
  <2>4. i \in 1..counts.sessions
    BY <1>2, <2>1, PipelineAssumption DEF Sessions
  <2>5. ASSUME session' = PriorSession(i) PROVE Good(session')
    <3>1. session' = [id |-> i, status |-> "running", done |-> yaml[i].done, pre |-> yaml[i].done]
      BY <2>5 DEF PriorSession
    <3> QED BY <1>2, <2>2, <2>3, <2>4, <3>1
  <2>6. ASSUME session' = [PriorSession(i) EXCEPT !.pre = checkpoints[i].completed,
                                                  !.done = checkpoints[i].done]
        PROVE  Good(session')
    <3>1. session' = [id |-> i, status |-> "running", done |-> checkpoints[i].done,
                      pre |-> checkpoints[i].completed]
      BY <2>6 DEF PriorSession
    <3> QED BY <1>2, <2>2, <2>3, <2>4, <3>1
  <2> QED BY <1>3, <1>4, <2>5, <2>6 DEF ResumeSession
<1> HIDE DEF Good
<1>5. ASSUME StartSession PROVE Good(session')
  <2>1. PICK pre \in PreCompleted : ColdStart(pre)
    BY <1>5 DEF StartSession
  <2>2. pre \in SUBSET Stages
    BY PipelineAssumption
  <2> QED BY <1>3, <2>1, <2>2
<1>6. Good(session')
  BY <1>4, <1>5
<1>7. Types'
  BY <1>1, <1>6 DEF Types, Good
<1>8. RunOK'
  BY <1>1 DEF IInv, RunOK, Busy, Accounting, Looping, Open, Working, ReadyStages, Ready, pipeline
<1>9. History'
  BY <1>1, <1>6 DEF IInv, History, Numbered, SessionTruthful, RunTruthful, FilesTruthful, Good
<1> QED BY <1>7, <1>8, <1>9 DEF IInv

LEMMA ExecuteInvariant == ASSUME IInv, Execute PROVE IInv'
<1> DEFINE fresh == session.id > counts.sessions
<1>1. /\ Types /\ run.pc = "idle" /\ session.id # 0 /\ counts.runs < config.runs
      /\ UNCHANGED <<config, controller, yaml, checkpoints>>
      /\ session' = [session EXCEPT !.status = "running"]
      /\ counts' = [sessions |-> IF fresh THEN session.id ELSE counts.sessions,
                    runs |-> counts.runs + 1]
      /\ succeeded' = [succeeded EXCEPT ![session.id] = IF fresh THEN session.pre ELSE @]
      /\ run' = [NoRun EXCEPT !.pc = "validating", !.id = session.id, !.pre = session.pre,
                              !.priorOutputs = session.done]
  BY DEF IInv, Execute
<1>2. /\ counts.sessions \in Nat /\ counts.runs \in Nat /\ config.runs \in 0..MaxRuns
      /\ MaxRuns \in Nat /\ session.id \in Nat /\ session.id \in Sessions
      /\ counts.sessions <= counts.runs /\ session.id <= counts.sessions + 1
  BY <1>1, ConfigType, PipelineAssumption DEF IInv, History, Numbered, Types, Sessions
<1>3. /\ session' \in [id : Sessions \cup {0}, status : {"none", "pending", "running", "ended"},
                       pre : SUBSET Stages, done : SUBSET Stages]
      /\ session'.id = session.id /\ session'.pre = session.pre /\ session'.done = session.done
      /\ session.pre \subseteq Stages
  BY <1>1 DEF Types
<1>4. /\ counts'.sessions = (IF fresh THEN session.id ELSE counts.sessions)
      /\ counts'.runs = counts.runs + 1
  BY <1>1
<1>5. /\ counts' \in [sessions : Sessions \cup {0}, runs : 0..MaxRuns]
      /\ counts'.sessions <= counts'.runs /\ session.id <= counts'.sessions
      /\ counts.sessions <= counts'.sessions
  <2>1. counts.sessions \in Sessions \cup {0}
    BY <1>1 DEF Types
  <2>2. counts.runs + 1 \in 0..MaxRuns
    BY <1>1, <1>2
  <2>3. counts'.sessions \in Sessions \cup {0}
    BY <1>2, <1>4, <2>1
  <2> QED BY <1>1, <1>2, <1>4, <2>2, <2>3
<1>6. /\ run' \in RunType /\ RunOK' /\ run'.pc = "validating" /\ run'.id = session.id
      /\ run'.pre = session.pre /\ run'.priorOutputs = session.done
      /\ run'.completed = {} /\ run'.results = NoResults
  BY <1>1, ExecuteStep, NoRunType DEF RunType, NoRun
<1>7. Claims' = session.pre \cup session.done
  <2>1. Completed(run'.results) = {}
    BY <1>6, NoResultsNone DEF Completed
  <2>2. Completed(run.results)' = {}
    BY <2>1 DEF Completed
  <2> QED BY <1>6, <2>2 DEF Claims
<1>8. /\ succeeded' \in [Sessions -> SUBSET Stages]
      /\ \A i \in Sessions : i # session.id => succeeded'[i] = succeeded[i]
      /\ succeeded'[session.id] = IF fresh THEN session.pre ELSE succeeded[session.id]
  BY <1>1, <1>2, <1>3 DEF Types
<1>9. session.pre \cup session.done \subseteq succeeded'[session.id]
  <2>1. CASE fresh
    BY <1>8, <2>1 DEF IInv, History, SessionTruthful
  <2>2. CASE ~fresh
    <3>1. session.id \in 1..counts.sessions
      BY <1>2, <2>2 DEF Sessions
    <3> QED BY <1>8, <2>2, <3>1 DEF IInv, History, SessionTruthful
  <2> QED BY <2>1, <2>2
<1>10. \A i \in Sessions : succeeded[i] \subseteq succeeded'[i]
  <2>1. fresh => succeeded[session.id] = {}
    BY <1>2 DEF IInv, History, Numbered
  <2> QED BY <1>8, <2>1
<1>11. Numbered'
  <2>1. \A i \in Sessions : i > counts'.sessions => succeeded'[i] = {}
    <3> SUFFICES ASSUME NEW i \in Sessions, i > counts'.sessions PROVE succeeded'[i] = {}
      OBVIOUS
    <3>1. i # session.id /\ i > counts.sessions
      BY <1>2, <1>4, <1>5 DEF Sessions
    <3> QED BY <1>8, <3>1 DEF IInv, History, Numbered
  <2>2. run'.id \in 1..counts'.sessions /\ session'.id = run'.id
    BY <1>2, <1>3, <1>5, <1>6 DEF Sessions
  <2>3. session'.id <= counts'.sessions + 1
    BY <1>2, <1>3, <1>4, <1>5
  <2> QED BY <1>5, <2>1, <2>2, <2>3 DEF Numbered
<1>12. SessionTruthful'
  <2>1. ~(session'.id > counts'.sessions)
    BY <1>2, <1>3, <1>4, <1>5
  <2> QED BY <1>3, <1>9, <2>1 DEF SessionTruthful
<1>13. RunTruthful'
  BY <1>6, <1>7, <1>9 DEF RunTruthful
<1>14. FilesTruthful'
  BY <1>1, <1>10 DEF IInv, History, FilesTruthful
<1> HIDE DEF fresh
<1>15. Types'
  BY <1>1, <1>3, <1>5, <1>6, <1>8 DEF Types
<1> QED BY <1>6, <1>11, <1>12, <1>13, <1>14, <1>15 DEF IInv, History

\* A step that neither executes a stage nor begins a run
LEMMA FilingStep ==
  ASSUME IInv, UNCHANGED <<config, succeeded, counts>>, run' \in RunType, RunOK',
         controller' \in BOOLEAN, FilesTruthful',
         yaml' \in [Sessions -> Files], checkpoints' \in [Sessions -> Files],
         run'.pc # "idle" => run.pc # "idle" /\ run'.id = run.id /\ Claims' \subseteq Claims,
         session' \in [id : Sessions \cup {0}, status : {"none", "pending", "running", "ended"},
                       pre : SUBSET Stages, done : SUBSET Stages],
         \/ session'.id = 0
         \/ /\ session'.id = session.id /\ session'.pre = session.pre
            /\ session'.done = session.done \/ (run.pc # "idle" /\ session'.done \subseteq Claims)
  PROVE  IInv'
<1>1. /\ counts.sessions \in Nat /\ session.id \in Nat
      /\ Types /\ Numbered /\ SessionTruthful /\ RunTruthful
  BY PipelineAssumption DEF IInv, Types, Sessions, History
<1>2. Types'
  BY <1>1 DEF Types
<1>3. session'.id \in {0, session.id}
  OBVIOUS
<1>4. Numbered'
  BY <1>1, <1>3 DEF Numbered
<1>5. RunTruthful'
  BY <1>1 DEF RunTruthful
<1>6. SessionTruthful'
  <2>1. CASE session'.id = 0
    BY <1>1, <2>1 DEF SessionTruthful
  <2>2. CASE /\ session'.id = session.id /\ session'.pre = session.pre
             /\ session'.done = session.done
    BY <1>1, <2>2 DEF SessionTruthful
  <2>3. CASE /\ session'.id # 0 /\ session'.id = session.id /\ session'.pre = session.pre
             /\ run.pc # "idle" /\ session'.done \subseteq Claims
    <3>1. session.id = run.id /\ session.id \in 1..counts.sessions
      BY <1>1, <2>3 DEF Numbered
    <3>2. session.pre \cup Claims \subseteq succeeded[session.id]
      BY <1>1, <2>3, <3>1 DEF SessionTruthful, RunTruthful
    <3>3. ~(session.id > counts.sessions)
      BY <1>1, <3>1
    <3> QED BY <2>3, <3>2, <3>3 DEF SessionTruthful
  <2> QED BY <2>1, <2>2, <2>3
<1> QED BY <1>2, <1>4, <1>5, <1>6 DEF IInv, History

LEMMA RunFacts ==
  ASSUME IInv, run.pc # "idle"
  PROVE  /\ run.id \in Sessions /\ run \in RunType
         /\ Claims \subseteq succeeded[run.id] /\ Claims \subseteq Stages
         /\ Checkpoint \in Files /\ Report \subseteq Claims
         /\ Checkpoint.completed \cup Checkpoint.done \subseteq Claims
<1>1. /\ run \in RunType /\ run.id \in 1..counts.sessions
      /\ counts.sessions \in Sessions \cup {0} /\ Claims \subseteq succeeded[run.id]
  BY DEF IInv, Types, History, Numbered, RunTruthful
<1>2. run.id \in Sessions
  BY <1>1, PipelineAssumption DEF Sessions
<1>3. Completed(run.results) \subseteq Stages
  BY DEF Completed
<1>4. Checkpoint \in Files
  BY <1>1, <1>3 DEF Checkpoint, Files, RunType
<1> QED BY <1>1, <1>2, <1>3, <1>4 DEF Claims, Checkpoint, Report, RunType

\* Goto changes no claim
LEMMA GotoClaims ==
  ASSUME run \in RunType, NEW pc, Goto(pc)
  PROVE  run'.pc = pc /\ run'.id = run.id /\ Claims' = Claims
BY DEF RunType, Goto, Claims, Completed

LEMMA FileWritten ==
  ASSUME NEW f \in [Sessions -> Files], NEW g \in Files, NEW i \in Sessions
  PROVE  /\ [f EXCEPT ![i] = g] \in [Sessions -> Files]
         /\ \A j \in Sessions : [f EXCEPT ![i] = g][j] = IF j = i THEN g ELSE f[j]
OBVIOUS

LEMMA SaveCheckpointInvariant == ASSUME IInv, SaveCheckpoint PROVE IInv'
<1>1. /\ Types /\ RunOK /\ UNCHANGED <<config, session, controller, yaml, succeeded, counts>>
      /\ run.pc \in {"saving", "writing"}
  BY DEF IInv, SaveCheckpoint
<1>2. /\ run.id \in Sessions /\ run \in RunType /\ Checkpoint \in Files
      /\ Checkpoint.completed \cup Checkpoint.done \subseteq succeeded[run.id]
  BY <1>1, RunFacts
<1>3. PICK pc \in {"sequential", "writing"} : Goto(pc)
  BY DEF SaveCheckpoint
<1>4. run' \in RunType /\ RunOK' /\ run'.pc = pc /\ run'.id = run.id /\ Claims' = Claims
  BY <1>1, <1>2, <1>3, GotoStep, GotoClaims DEF PCs
<1>5. checkpoints' \in [Sessions -> Files] /\ FilesTruthful'
  <2>1. checkpoints \in [Sessions -> Files] /\ FilesTruthful
    BY DEF IInv, Types, History
  <2>2. CASE checkpoints' = checkpoints
    BY <1>1, <2>1, <2>2 DEF FilesTruthful
  <2>3. CASE checkpoints' = [checkpoints EXCEPT ![run.id] = TornFile]
    BY <1>1, <1>2, <2>1, <2>3, FileTypes, FileWritten DEF FilesTruthful
  <2>4. CASE checkpoints' = [checkpoints EXCEPT ![run.id] = Checkpoint]
    BY <1>1, <1>2, <2>1, <2>4, FileWritten DEF FilesTruthful
  <2> QED BY <2>2, <2>3, <2>4 DEF SaveCheckpoint
<1>6. yaml' \in [Sessions -> Files] /\ controller' \in BOOLEAN
      /\ session' \in [id : Sessions \cup {0}, status : {"none", "pending", "running", "ended"},
                       pre : SUBSET Stages, done : SUBSET Stages]
  BY <1>1 DEF Types
<1> QED BY <1>1, <1>4, <1>5, <1>6, FilingStep

\* What Throw and dispose make of the session
LEMMA SessionTypes ==
  ASSUME Types
  PROVE  /\ NoSession \in [id : Sessions \cup {0}, status : {"none", "pending", "running", "ended"},
                           pre : SUBSET Stages, done : SUBSET Stages]
         /\ NoSession.id = 0
         /\ \A done \in SUBSET Stages :
              LET new == [session EXCEPT !.status = "ended", !.done = done]
              IN  /\ new \in [id : Sessions \cup {0}, status : {"none", "pending", "running", "ended"},
                              pre : SUBSET Stages, done : SUBSET Stages]
                  /\ new.id = session.id /\ new.pre = session.pre /\ new.done = done
         /\ [session EXCEPT !.status = "ended"] =
              [session EXCEPT !.status = "ended", !.done = session.done]
         /\ session.done \in SUBSET Stages
BY DEF NoSession, Types

\* The run ends: it returns, throws or crashes
LEMMA EndStep ==
  ASSUME IInv, UNCHANGED <<config, succeeded, counts>>, run' = NoRun,
         controller' \in BOOLEAN, FilesTruthful',
         yaml' \in [Sessions -> Files], checkpoints' \in [Sessions -> Files],
         session' \in {session, NoSession, [session EXCEPT !.status = "ended"]}
  PROVE  IInv'
<1>1. run' \in RunType /\ RunOK' /\ run'.pc = "idle"
  BY NoRunStep DEF NoRun
<1>2. /\ session' \in [id : Sessions \cup {0}, status : {"none", "pending", "running", "ended"},
                       pre : SUBSET Stages, done : SUBSET Stages]
      /\ \/ session'.id = 0
         \/ /\ session'.id = session.id /\ session'.pre = session.pre
            /\ session'.done = session.done
  <2>1. Types
    BY DEF IInv
  <2>2. CASE session' = session
    BY <2>1, <2>2 DEF Types
  <2>3. CASE session' = NoSession
    BY <2>1, <2>3, SessionTypes
  <2>4. CASE session' = [session EXCEPT !.status = "ended"]
    BY <2>1, <2>4, SessionTypes
  <2> QED BY <2>2, <2>3, <2>4
<1> QED BY <1>1, <1>2, FilingStep

LEMMA SameFiles ==
  ASSUME IInv, UNCHANGED <<yaml, checkpoints, succeeded>>
  PROVE  /\ FilesTruthful'
         /\ yaml' \in [Sessions -> Files] /\ checkpoints' \in [Sessions -> Files]
BY DEF IInv, Types, History, FilesTruthful

LEMMA GateThrowsInvariant == ASSUME IInv, GateThrows PROVE IInv'
<1>1. /\ UNCHANGED <<config, controller, yaml, checkpoints, succeeded, counts>>
      /\ run' = NoRun /\ session' = [session EXCEPT !.status = "ended"]
  BY DEF GateThrows, Throw
<1>2. controller' \in BOOLEAN
  BY <1>1 DEF IInv, Types
<1> QED BY <1>1, <1>2, SameFiles, EndStep

LEMMA CrashInvariant == ASSUME IInv, Crash PROVE IInv'
BY SameFiles, EndStep DEF Crash

LEMMA DisposeInvariant == ASSUME IInv, Dispose PROVE IInv'
<1>1. /\ Types /\ RunOK /\ run \in RunType /\ session' = NoSession /\ controller' = FALSE
      /\ UNCHANGED <<config, yaml, checkpoints, succeeded, counts>>
  BY DEF IInv, Types, Dispose
<1>2. run' \in RunType /\ RunOK'
  BY <1>1, DisposeStep
<1>3. run'.pc = run.pc /\ run'.id = run.id /\ Claims' = Claims
  <2>1. PICK v \in {"none", "live", "aborted"} : run' = [run EXCEPT !.signal = v]
    BY <1>1, DisposeStep
  <2> QED BY <1>1, <2>1 DEF RunType, Claims, Completed
<1> QED BY <1>1, <1>2, <1>3, SessionTypes, SameFiles, FilingStep

LEMMA FinishInvariant == ASSUME IInv, Finish PROVE IInv'
<1>1. /\ Types /\ RunOK /\ run.pc = "finishing" /\ Goto("persisting")
      /\ UNCHANGED <<config, controller, checkpoints, succeeded, counts>>
      /\ session' = [session EXCEPT !.status = "ended", !.done = Report]
      /\ yaml' \in {yaml, [yaml EXCEPT ![run.id] = TornFile]}
  BY DEF IInv, Finish
<1>2. /\ run.id \in Sessions /\ run \in RunType /\ Claims \subseteq succeeded[run.id]
      /\ Report \subseteq Claims /\ Report \subseteq Stages
  BY <1>1, RunFacts
<1>3. run' \in RunType /\ RunOK' /\ run'.pc = "persisting" /\ run'.id = run.id /\ Claims' = Claims
  BY <1>1, <1>2, GotoStep, GotoClaims DEF PCs
<1>4. yaml' \in [Sessions -> Files] /\ FilesTruthful'
  <2>1. yaml \in [Sessions -> Files] /\ FilesTruthful
    BY DEF IInv, Types, History
  <2>2. CASE yaml' = yaml
    BY <1>1, <2>1, <2>2 DEF FilesTruthful
  <2>3. CASE yaml' = [yaml EXCEPT ![run.id] = TornFile]
    BY <1>1, <1>2, <2>1, <2>3, FileTypes, FileWritten DEF FilesTruthful
  <2> QED BY <1>1, <2>2, <2>3
<1>5. checkpoints' \in [Sessions -> Files] /\ controller' \in BOOLEAN
  BY <1>1 DEF Types
<1>6. /\ session' \in [id : Sessions \cup {0}, status : {"none", "pending", "running", "ended"},
                       pre : SUBSET Stages, done : SUBSET Stages]
      /\ session'.id = session.id /\ session'.pre = session.pre /\ session'.done \subseteq Claims
  BY <1>1, <1>2, SessionTypes
<1> QED BY <1>1, <1>3, <1>4, <1>5, <1>6, FilingStep

LEMMA PersistInvariant == ASSUME IInv, Persist PROVE IInv'
<1> DEFINE written == [NoFile EXCEPT !.kind = "whole", !.done = Report]
<1>1. /\ Types /\ RunOK /\ run.pc = "persisting"
      /\ UNCHANGED <<config, controller, checkpoints, succeeded, counts>>
      /\ controller' \in BOOLEAN /\ checkpoints' \in [Sessions -> Files]
  BY DEF IInv, Persist, Types
<1>2. /\ run.id \in Sessions /\ run \in RunType /\ Claims \subseteq succeeded[run.id]
      /\ Report \subseteq Claims /\ Report \subseteq Stages
  BY <1>1, RunFacts
<1>3. CASE Throw /\ UNCHANGED yaml
  BY <1>1, <1>3, SameFiles, EndStep DEF Throw
<1>4. CASE ~(Throw /\ UNCHANGED yaml)
  <2>1. /\ yaml' = [yaml EXCEPT ![run.id] = written]
        /\ Goto("cleaning") /\ UNCHANGED session
    BY <1>4 DEF Persist
  <2>2. written \in Files /\ written.done = Report /\ written.completed = {}
    BY <1>2 DEF NoFile, Files
  <2> HIDE DEF written
  <2>3. run' \in RunType /\ RunOK' /\ run'.pc = "cleaning" /\ run'.id = run.id /\ Claims' = Claims
    BY <1>1, <1>2, <2>1, GotoStep, GotoClaims DEF PCs
  <2>4. yaml \in [Sessions -> Files] /\ FilesTruthful
    BY DEF IInv, Types, History
  <2>5. yaml' \in [Sessions -> Files] /\ FilesTruthful'
    BY <1>1, <1>2, <2>1, <2>2, <2>4, FileWritten DEF FilesTruthful
  <2>6. session' \in [id : Sessions \cup {0}, status : {"none", "pending", "running", "ended"},
                      pre : SUBSET Stages, done : SUBSET Stages]
    BY <1>1, <2>1 DEF Types
  <2> QED BY <1>1, <2>1, <2>3, <2>5, <2>6, FilingStep
<1> QED BY <1>3, <1>4

LEMMA CleanInvariant == ASSUME IInv, Clean PROVE IInv'
<1>1. /\ Types /\ run.pc = "cleaning" /\ run' = NoRun
      /\ checkpoints' \in {checkpoints, [checkpoints EXCEPT ![run.id] = NoFile]}
      /\ UNCHANGED <<config, session, controller, yaml, succeeded, counts>>
      /\ controller' \in BOOLEAN /\ yaml' \in [Sessions -> Files]
  BY DEF IInv, Clean, Types
<1>2. run.id \in Sessions
  BY <1>1, RunFacts
<1>3. checkpoints' \in [Sessions -> Files] /\ FilesTruthful'
  <2>1. checkpoints \in [Sessions -> Files] /\ FilesTruthful
    BY DEF IInv, Types, History
  <2>2. CASE checkpoints' = checkpoints
    BY <1>1, <2>1, <2>2 DEF FilesTruthful
  <2>3. CASE checkpoints' = [checkpoints EXCEPT ![run.id] = NoFile]
    BY <1>1, <1>2, <2>1, <2>3, FileTypes, FileWritten DEF FilesTruthful
  <2> QED BY <1>1, <2>2, <2>3
<1> QED BY <1>1, <1>3, EndStep

-----------------------------------------------------------------------------
(* The theorems *)

LEMMA InitInvariant == Init => IInv
<1> SUFFICES ASSUME Init PROVE IInv
  OBVIOUS
<1>1. /\ config \in Configs /\ session = NoSession /\ controller = FALSE /\ run = NoRun
      /\ yaml = [i \in Sessions |-> NoFile] /\ checkpoints = [i \in Sessions |-> NoFile]
      /\ succeeded = [i \in Sessions |-> {}] /\ counts = [sessions |-> 0, runs |-> 0]
  BY DEF Init
<1>2. Types
  <2>1. session \in [id : Sessions \cup {0}, status : {"none", "pending", "running", "ended"},
                     pre : SUBSET Stages, done : SUBSET Stages]
    BY <1>1 DEF NoSession
  <2>2. counts \in [sessions : Sessions \cup {0}, runs : 0..MaxRuns]
    BY <1>1, PipelineAssumption
  <2> QED BY <1>1, <2>1, <2>2, NoRunType, FileTypes DEF Types
<1>3. run.pc = "idle" /\ Working = {}
  BY <1>1 DEF NoRun, Working
<1>4. RunOK
  BY <1>1, <1>3, NoRunType DEF RunOK, Busy, Accounting, Looping, ReadyStages
<1>5. History
  <2>1. session.id = 0 /\ counts.sessions = 0 /\ counts.runs = 0
    BY <1>1 DEF NoSession
  <2> QED BY <1>1, <1>3, <2>1, FileTypes
       DEF History, Numbered, SessionTruthful, RunTruthful, FilesTruthful
<1> QED BY <1>2, <1>4, <1>5 DEF IInv

LEMMA RunSteps ==
  RunStep <=> \/ Quiet \/ GateThrows \/ \E s \in Stages : AgentSucceeds(s)
              \/ SaveCheckpoint \/ Finish \/ Persist \/ Clean
BY DEF RunStep, Quiet

LEMMA NextInvariant == IInv /\ [Next]_vars => IInv'
<1> SUFFICES ASSUME IInv, [Next]_vars PROVE IInv'
  OBVIOUS
<1>1. CASE RunStep
  BY <1>1, RunSteps, QuietInvariant, GateThrowsInvariant, AgentSucceedsInvariant,
     SaveCheckpointInvariant, FinishInvariant, PersistInvariant, CleanInvariant
<1>2. CASE UNCHANGED vars
  <2>1. UNCHANGED <<Others, succeeded, run, config>>
    BY <1>2 DEF vars, Others
  <2>2. Types' /\ RunOK'
    BY <2>1 DEF IInv, Types, RunOK, Busy, Accounting, Looping, Open, Working, ReadyStages,
                Ready, pipeline, Others
  <2>3. History'
    BY <2>1 DEF IInv, History, Numbered, SessionTruthful, RunTruthful, Claims, Completed,
                FilesTruthful, Others
  <2> QED BY <2>2, <2>3 DEF IInv
<1> QED
  BY <1>1, <1>2, StartInvariant, ExecuteInvariant, DisposeInvariant, CrashInvariant DEF Next

\* The inductive invariant holds in every reachable state.
THEOREM Invariance == Spec => []IInv
BY InitInvariant, NextInvariant, PTL DEF Spec

LEMMA TypesAndBusy == IInv => TypeOK
<1> SUFFICES ASSUME IInv PROVE TypeOK
  OBVIOUS
<1>1. run.pc # "group" => Cardinality(Working) = IF run.pc = "stage" THEN 1 ELSE 0
  <2>1. CASE run.pc = "stage"
    <3>1. PICK s \in run.queue : Working = {s}
      BY <2>1 DEF IInv, RunOK, Busy
    <3> QED BY <2>1, <3>1, FS_Singleton
  <2>2. CASE run.pc \notin {"group", "stage"}
    BY <2>2, FS_EmptySet DEF IInv, RunOK, Busy
  <2> QED BY <2>1, <2>2
<1> QED BY <1>1 DEF IInv, Types, RunType, TypeOK

\* Types hold, retries stay within maxRetries, and the sequential group executes one stage
\* at a time, whatever the pipeline.
THEOREM TypeCorrect == Spec => []TypeOK
BY Invariance, TypesAndBusy, PTL

\* No file claims more than was completed, for every interleaving of runs, failed writes,
\* crashes and resumptions of any number of sessions.
THEOREM TruthfulFiles == Spec => []FilesTruthful
<1>1. IInv => FilesTruthful
  BY DEF IInv, History
<1> QED BY <1>1, Invariance, PTL

\* When the loop ends, exactly the stages not taken as completed have a result, for every
\* dependency graph and every list of stages.
THEOREM Accounted == Spec => []EveryStageAccounted
<1>1. IInv => EveryStageAccounted
  <2> SUFFICES ASSUME IInv, run.pc \in {"finishing", "persisting", "cleaning"}, NEW s \in Stages
               PROVE  run.results[s] # "none" <=> s \notin run.pre
    BY DEF EveryStageAccounted
  <2>1. Open = {} /\ Looping
    BY DEF IInv, RunOK, Busy, Accounting, Open, Looping
  <2> QED BY <2>1 DEF IInv, RunOK, Accounting
<1> QED BY <1>1, Invariance, PTL

\* Every step of the pipeline is a step of StageGraph, or changes nothing StageGraph sees
LEMMA StageGraphStep == IInv /\ [Next]_vars => [G!Next]_<<pipeline.dependsOn, succeeded>>
<1> SUFFICES ASSUME IInv, [Next]_vars,
                    ~(UNCHANGED <<pipeline.dependsOn, succeeded>>)
             PROVE  G!Next
  OBVIOUS
<1>1. Next
  BY DEF vars, pipeline
<1>2. Types /\ RunOK /\ History
  BY DEF IInv
<1>3. pipeline.dependsOn' = pipeline.dependsOn
  BY <1>1, <1>2, RunSteps, QuietSteps DEF Next, pipeline, StartSession, ResumeSession, Execute, Dispose, Crash,
     GateThrows, AgentSucceeds, SaveCheckpoint, Finish, Persist, Clean, Quiet,
     Validate, Schedule, NextStage, GroupSettled, Approve, Deny, AttemptFails, StageFails
<1>4. succeeded' # succeeded
  BY <1>3
<1>5. Execute \/ \E s \in Stages : AgentSucceeds(s)
  BY <1>1, <1>2, <1>4, RunSteps, QuietSteps DEF Next, StartSession, ResumeSession, Dispose, Crash,
     GateThrows, SaveCheckpoint, Finish, Persist, Clean
<1>6. CASE Execute
  <2>1. /\ session.id \in Sessions /\ session.pre \in SUBSET Stages
        /\ succeeded \in [Sessions -> SUBSET Stages]
    BY <1>2, <1>6 DEF Types, Execute
  <2>2. succeeded' = [succeeded EXCEPT ![session.id] =
                        IF session.id > counts.sessions THEN session.pre ELSE @]
    BY <1>6 DEF Execute
  <2>3. session.id > counts.sessions
    BY <1>4, <2>1, <2>2
  <2>4. succeeded[session.id] = {}
    BY <1>2, <2>1, <2>3 DEF History, Numbered
  <2>5. G!Begin(session.id, session.pre)
    BY <1>3, <2>2, <2>3, <2>4 DEF G!Begin
  <2> QED BY <2>1, <2>5 DEF G!Next
<1>7. ASSUME NEW s \in Stages, AgentSucceeds(s) PROVE G!Next
  <2>1. s \in Working /\ succeeded' = [succeeded EXCEPT ![run.id] = @ \cup {s}]
    BY <1>7 DEF AgentSucceeds
  <2>2. run.pc # "idle"
    BY <1>2, <2>1 DEF RunOK, Busy
  <2>3. run.id \in Sessions /\ Claims \subseteq succeeded[run.id]
    BY <2>2, RunFacts
  <2>4. pipeline.dependsOn[s] \subseteq succeeded[run.id]
    BY <1>2, <2>1, <2>3 DEF RunOK, ReadyStages, Ready, Claims
  <2>5. G!Complete(run.id, s)
    BY <1>3, <2>1, <2>4 DEF G!Complete
  <2> QED BY <2>3, <2>5 DEF G!Next
<1> QED BY <1>5, <1>6, <1>7

\* For every pipeline whose stages depend on stages before them: an agent completes a stage
\* only after every dependency was completed or declared completed in the session, across
\* resumptions from files written by interrupted, failed and completed runs.
THEOREM StageGraphImplemented == Spec => ImplementsStageGraph
<1>1. Init => G!Init
  BY DEF Init, G!Init
<1> QED BY <1>1, Invariance, StageGraphStep, PTL DEF Spec, ImplementsStageGraph, G!Spec

\* What a step does to a stage that has its result
LEMMA ResultKept ==
  ASSUME IInv, Next, NEW s \in Stages, run'.pc # "idle", run.results[s] # "none"
  PROVE  run'.results[s] = run.results[s] /\ run'.attempt[s] = 0
<1> DEFINE Kept == run'.results[s] = run.results[s] /\ run'.attempt[s] = 0
<1> SUFFICES Kept
  OBVIOUS
<1>1. Types /\ RunOK /\ run \in RunType
  BY DEF IInv, Types
<1>2. Looping
  BY <1>1, NoResultsNone DEF RunOK, Accounting
<1>3. s \notin run.queue /\ s \notin run.remaining /\ s \notin Working
  BY <1>1, <1>2 DEF RunOK, Accounting, Open
<1>4. run.attempt[s] = 0
  BY <1>1, <1>3, PipelineAssumption DEF RunType, Working
<1>5. ASSUME run'.results = run.results, run'.attempt = run.attempt PROVE Kept
  BY <1>4, <1>5
<1>6. ASSUME NEW pc, Goto(pc) PROVE Kept
  BY <1>1, <1>5, <1>6 DEF Goto, RunType
<1>7. ASSUME NEW t \in Stages, t # s, NEW r, NEW a, run'.results = r, run'.attempt = a,
             r = run.results \/ \E v : r = [run.results EXCEPT ![t] = v],
             a = run.attempt \/ \E v : a = [run.attempt EXCEPT ![t] = v]
      PROVE  Kept
  BY <1>1, <1>4, <1>7 DEF RunType, Results
<1>8. CASE Schedule
  <2>1. CASE run' = [run EXCEPT !.pc = "finishing", !.remaining = {},
                                !.results = With(@, run.remaining, "skipped")]
    <3>1. /\ run'.results = With(run.results, run.remaining, "skipped")
          /\ run'.attempt = run.attempt
      BY <1>1, <2>1 DEF RunType
    <3> QED BY <1>1, <1>3, <1>4, <3>1, WithType DEF RunType
  <2>2. CASE ~(run' = [run EXCEPT !.pc = "finishing", !.remaining = {},
                                  !.results = With(@, run.remaining, "skipped")])
    <3> DEFINE blocked == {d \in run.remaining : Blocked[d]}
               ready == {d \in run.remaining \ blocked : Ready(d)}
               parallel == ready \cap pipeline.parallel
               group == IF Cardinality(parallel) > 1 THEN parallel ELSE {}
    <3>1. run' = [run EXCEPT
                   !.pc = IF group # {} THEN "group" ELSE "sequential",
                   !.results = With(@, blocked, "skipped"),
                   !.remaining = (@ \ blocked) \ ready,
                   !.queue = ready \ group,
                   !.attempt = [d \in Stages |-> IF d \in group THEN 1 ELSE 0]]
      BY <1>8, <2>2 DEF Schedule, SkipRest
    <3>2. s \notin blocked /\ s \notin group
      BY <1>3
    <3> HIDE DEF blocked, ready, parallel, group
    <3>3. /\ run'.results = With(run.results, blocked, "skipped")
          /\ run'.attempt = [d \in Stages |-> IF d \in group THEN 1 ELSE 0]
      BY <1>1, <3>1 DEF RunType
    <3> QED BY <1>1, <3>2, <3>3, WithType DEF RunType
  <2> QED BY <2>1, <2>2
<1>9. CASE NextStage
  <2>1. ASSUME NEW t \in run.queue, run' = [run EXCEPT !.queue = @ \ {t}, !.results[t] = "skipped"]
        PROVE  Kept
    <3>1. /\ run'.results = [run.results EXCEPT ![t] = "skipped"] /\ run'.attempt = run.attempt
          /\ t \in Stages
      BY <1>1, <2>1 DEF RunType
    <3> QED BY <1>3, <1>7, <3>1
  <2>2. ASSUME NEW t \in run.queue, run' = [run EXCEPT !.pc = "stage", !.attempt[t] = 1]
        PROVE  Kept
    <3>1. /\ run'.results = run.results /\ run'.attempt = [run.attempt EXCEPT ![t] = 1]
          /\ t \in Stages
      BY <1>1, <2>2 DEF RunType
    <3> QED BY <1>3, <1>7, <3>1
  <2> QED BY <1>6, <1>9, <2>1, <2>2 DEF NextStage
<1>10. ASSUME NEW t \in Stages, Approve(t) PROVE Kept
  <2>1. run' = [run EXCEPT !.pc = "stage", !.attempt[t] = 1] /\ t \in run.queue
    BY <1>10 DEF Approve, IsNext
  <2>2. run'.results = run.results /\ run'.attempt = [run.attempt EXCEPT ![t] = 1]
    BY <1>1, <2>1 DEF RunType
  <2> QED BY <1>3, <1>7, <2>1, <2>2
<1>11. ASSUME NEW t \in Stages, Deny(t) PROVE Kept
  <2>1. run' = [run EXCEPT !.pc = "sequential", !.queue = @ \ {t}, !.results[t] = "skipped"]
        /\ t \in run.queue
    BY <1>11 DEF Deny, IsNext
  <2>2. run'.results = [run.results EXCEPT ![t] = "skipped"] /\ run'.attempt = run.attempt
    BY <1>1, <2>1 DEF RunType
  <2> QED BY <1>3, <1>7, <2>1, <2>2
<1>12. ASSUME NEW t \in Stages, AgentSucceeds(t) PROVE Kept
  <2>1. PICK status \in {"completed", "degraded"} :
          run' = [run EXCEPT !.attempt[t] = 0, !.results[t] = status, !.queue = @ \ {t},
                             !.completed = IF run.pc = "group" THEN @ ELSE @ \cup {t},
                             !.pc = IF run.pc = "group" THEN @ ELSE "saving"]
    BY <1>12 DEF AgentSucceeds
  <2>2. /\ run'.results = [run.results EXCEPT ![t] = status]
        /\ run'.attempt = [run.attempt EXCEPT ![t] = 0] /\ t \in Working
    BY <1>1, <1>12, <2>1 DEF RunType, AgentSucceeds
  <2> QED BY <1>3, <1>7, <2>2
<1>13. ASSUME NEW t \in Stages, StageFails(t) PROVE Kept
  <2>1. run' = [run EXCEPT !.attempt[t] = 0, !.results[t] = "failed", !.queue = @ \ {t},
                           !.pc = IF run.pc = "group" THEN @ ELSE "saving"] /\ t \in Working
    BY <1>13 DEF StageFails
  <2>2. /\ run'.results = [run.results EXCEPT ![t] = "failed"]
        /\ run'.attempt = [run.attempt EXCEPT ![t] = 0] /\ t \in Working
    BY <1>1, <2>1 DEF RunType
  <2> QED BY <1>3, <1>7, <2>2
<1>14. ASSUME NEW t \in Stages, AttemptFails(t) PROVE Kept
  <2>1. run' = [run EXCEPT !.attempt[t] = run.attempt[t] + 1] /\ t \in Working
    BY <1>14 DEF AttemptFails
  <2> DEFINE v == run.attempt[t] + 1
  <2>2. run'.results = run.results /\ run'.attempt = [run.attempt EXCEPT ![t] = v]
    BY <1>1, <2>1 DEF RunType
  <2> HIDE DEF v
  <2>3. t # s /\ run'.attempt[s] = run.attempt[s]
    BY <1>1, <1>3, <2>1, <2>2 DEF RunType
  <2> QED BY <1>4, <2>2, <2>3
<1>15. CASE GroupSettled
  BY <1>1, <1>5, <1>15 DEF GroupSettled, RunType
<1>16. CASE SaveCheckpoint \/ Finish
  BY <1>6, <1>16 DEF SaveCheckpoint, Finish
<1>17. CASE Persist
  BY <1>6, <1>17 DEF Persist, Throw, NoRun
<1>18. CASE Dispose
  BY <1>1, <1>5, <1>18 DEF Dispose, RunType
<1>19. CASE StartSession \/ \E i \in Sessions : ResumeSession(i)
  BY <1>5, <1>19 DEF StartSession, ResumeSession
<1>20. ~GateThrows /\ ~Clean /\ ~Crash /\ ~Execute /\ ~Validate
  <2>1. run.pc # "idle" /\ run.pc # "validating" /\ NoRun.pc = "idle"
    BY <1>2 DEF Looping, NoRun
  <2>2. ~GateThrows /\ ~Clean /\ ~Crash
    BY <2>1 DEF GateThrows, Throw, Clean, Crash
  <2>3. ~Execute /\ ~Validate
    BY <2>1 DEF Execute, Validate
  <2> QED BY <2>2, <2>3
<1> HIDE DEF Kept
<1>21. CASE RunStep
  BY <1>8, <1>9, <1>10, <1>11, <1>12, <1>13, <1>14, <1>15, <1>16, <1>17, <1>20, <1>21
     DEF RunStep
<1> QED
  BY <1>18, <1>19, <1>20, <1>21 DEF Next

\* A stage gets one result in a run and is not executed again after it, for every pipeline
\* and every order in which groups settle, fail, are denied or skipped.
THEOREM OneResultPerStage == Spec => ResultsOnce
<1>1. IInv /\ [Next]_vars =>
        [\A s \in Stages :
           run'.pc # "idle" /\ run.results[s] # "none" => /\ run'.results[s] = run.results[s]
                                                          /\ run'.attempt[s] = 0]_vars
  BY ResultKept
<1> QED BY <1>1, Invariance, PTL DEF Spec, ResultsOnce

\* A run that is aborted starts no stage but the one whose approval it waits for, whatever
\* the pipeline.
THEOREM AbortsStop == Spec => AbortStops
<1>1. ASSUME IInv, Next, NEW s \in Stages, run.signal = "aborted", Starts(s)
      PROVE  Approve(s)
  <2>1. /\ run \in RunType /\ run.attempt[s] = 0 /\ run'.attempt[s] > 0 /\ Aborted
    BY <1>1 DEF IInv, Types, Starts, Aborted
  <2>2. run'.attempt # run.attempt /\ run'.attempt # [t \in Stages |-> 0]
    BY <1>1, <2>1
  <2>3. ~StartSession /\ ~(\E i \in Sessions : ResumeSession(i)) /\ ~Dispose
    BY <2>1, <2>2 DEF StartSession, ResumeSession, Dispose, RunType
  <2>4. run' # NoRun /\ ~Execute
    <3>1. NoRun.attempt = [t \in Stages |-> 0] /\ NoRun \in RunType
      BY NoRunType DEF NoRun
    <3>2. Execute => run'.attempt = NoRun.attempt
      BY <3>1 DEF Execute, RunType
    <3> QED BY <2>2, <3>1, <3>2
  <2>5. ~Crash /\ ~GateThrows /\ ~Clean
    BY <2>4 DEF Crash, GateThrows, Throw, Clean
  <2>6. \A pc : ~Goto(pc)
    BY <2>1, <2>2 DEF Goto, RunType
  <2>7. ~SaveCheckpoint /\ ~Finish /\ ~Persist
    BY <2>4, <2>6 DEF SaveCheckpoint, Finish, Persist, Throw
  <2>8. ~GroupSettled /\ ~Validate
    BY <2>1, <2>2 DEF GroupSettled, Validate, RunType
  <2>9. ~Schedule
    BY <2>1, <2>2 DEF Schedule, SkipRest, RunType
  <2>10. ~NextStage
    BY <2>1, <2>2, <2>6 DEF NextStage, RunType
  <2>11. ASSUME NEW t \in Stages, Approve(t) PROVE t = s
    <3>1. run' = [run EXCEPT !.pc = "stage", !.attempt[t] = 1]
      BY <2>11 DEF Approve
    <3>2. run'.attempt = [run.attempt EXCEPT ![t] = 1]
      BY <2>1, <3>1 DEF RunType
    <3> QED BY <2>1, <3>2 DEF RunType
  <2>12. ASSUME NEW t \in Stages PROVE ~Deny(t)
    BY <2>1, <2>2 DEF Deny, RunType
  <2>13. ASSUME NEW t \in Stages, NEW v, run'.attempt = [run.attempt EXCEPT ![t] = v], t \in Working \/ v = 0
         PROVE  FALSE
    BY <2>1, <2>13 DEF RunType, Working
  <2>14. ASSUME NEW t \in Stages, AttemptFails(t) PROVE FALSE
    <3> DEFINE v == run.attempt[t] + 1
    <3>1. run' = [run EXCEPT !.attempt[t] = v] /\ t \in Working
      BY <2>14 DEF AttemptFails
    <3> HIDE DEF v
    <3>2. run'.attempt = [run.attempt EXCEPT ![t] = v]
      BY <2>1, <3>1 DEF RunType
    <3> QED BY <2>13, <3>1, <3>2
  <2>15. ASSUME NEW t \in Stages, StageFails(t) PROVE FALSE
    <3>1. run'.attempt = [run.attempt EXCEPT ![t] = 0]
      BY <2>1, <2>15 DEF StageFails, RunType
    <3> QED BY <2>13, <3>1
  <2>16. ASSUME NEW t \in Stages, AgentSucceeds(t) PROVE FALSE
    <3>1. run'.attempt = [run.attempt EXCEPT ![t] = 0]
      BY <2>1, <2>16 DEF AgentSucceeds, RunType
    <3> QED BY <2>13, <3>1
  <2>17. RunStep
    BY <1>1, <2>3, <2>4, <2>5 DEF Next
  <2> QED
    BY <2>5, <2>7, <2>8, <2>9, <2>10, <2>11, <2>12, <2>14, <2>15, <2>16, <2>17 DEF RunStep
<1>2. IInv /\ [Next]_vars =>
        [\A s \in Stages : run.signal = "aborted" /\ Starts(s) => Approve(s)]_vars
  BY <1>1
<1> QED BY <1>2, Invariance, PTL DEF Spec, AbortStops

-----------------------------------------------------------------------------
(* The steps a run has left *)

\* What TurnsLeft and Turns say of a run, by its fields
LeftOf(r) ==
  [s \in Stages |-> IF r.pc = "validating" \/ s \in r.remaining THEN MaxRetries + 3
                    ELSE IF r.attempt[s] > 0 THEN MaxRetries + 3 - r.attempt[s]
                    ELSE IF s \in r.queue THEN MaxRetries + 2 ELSE 0]

Below(f) == {t \in Stages \X (1..(MaxRetries + 3)) : t[2] <= f[t[1]]}

LEMMA LeftOfType ==
  ASSUME NEW r \in RunType
  PROVE  LeftOf(r) \in [Stages -> 0..(MaxRetries + 3)]
<1>1. \A s \in Stages : r.attempt[s] \in 0..(MaxRetries + 1)
  BY DEF RunType
<1> QED BY <1>1, PipelineAssumption DEF LeftOf

\* If no stage has more turns left, there are not more of them; fewer, if one has fewer
LEMMA FewerTurns ==
  ASSUME NEW f \in [Stages -> 0..(MaxRetries + 3)], NEW g \in [Stages -> 0..(MaxRetries + 3)],
         \A s \in Stages : g[s] <= f[s]
  PROVE  /\ Cardinality(Below(f)) \in Nat /\ Cardinality(Below(g)) \in Nat
         /\ Cardinality(Below(g)) <= Cardinality(Below(f))
         /\ (\E s \in Stages : g[s] < f[s]) => Cardinality(Below(g)) < Cardinality(Below(f))
<1>1. IsFiniteSet(Stages) /\ IsFiniteSet(1..(MaxRetries + 3))
  BY PipelineAssumption, FS_Interval DEF Stages
<1>2. IsFiniteSet(Stages \X (1..(MaxRetries + 3)))
  BY <1>1, FS_Product
<1>3. /\ Below(f) \subseteq Stages \X (1..(MaxRetries + 3))
      /\ \A t \in Below(g) : t \in Below(f)
  <2> SUFFICES ASSUME NEW s \in Stages, NEW n \in 1..(MaxRetries + 3), n <= g[s]
               PROVE  n <= f[s]
    BY DEF Below
  <2> QED BY PipelineAssumption
<1>4. IsFiniteSet(Below(f)) /\ Below(g) \in SUBSET Below(f)
  BY <1>2, <1>3, FS_Subset
<1>5. /\ IsFiniteSet(Below(g)) /\ Cardinality(Below(g)) <= Cardinality(Below(f))
      /\ Cardinality(Below(f)) = Cardinality(Below(g)) => Below(f) = Below(g)
  BY <1>4, FS_Subset
<1>6. Cardinality(Below(f)) \in Nat /\ Cardinality(Below(g)) \in Nat
  BY <1>4, <1>5, FS_CardinalityType
<1>7. ASSUME NEW s \in Stages, g[s] < f[s] PROVE Below(f) # Below(g)
  <2>1. f[s] \in 1..(MaxRetries + 3) /\ ~(f[s] <= g[s])
    BY <1>7, PipelineAssumption
  <2>2. <<s, f[s]>> \in Below(f) /\ <<s, f[s]>> \notin Below(g)
    BY <2>1 DEF Below
  <2> QED BY <2>2
<1> QED BY <1>5, <1>6, <1>7

LEMMA TurnsOfRun ==
  /\ Turns = Below(LeftOf(run))
  /\ Turns' = Below(LeftOf(run'))
<1>1. \A s \in Stages : TurnsLeft(s) = LeftOf(run)[s] /\ TurnsLeft(s)' = LeftOf(run')[s]
  BY DEF TurnsLeft, LeftOf, Working
<1> QED BY <1>1 DEF Turns, Below

LEMMA RankType == \A pc \in PCs : Rank[pc] \in 0..10
BY DEF Rank, PCs

\* A step after which no stage has more turns left
LEMMA StepsOfTurns ==
  ASSUME run \in RunType, run' \in RunType,
         \A s \in Stages : LeftOf(run')[s] <= LeftOf(run)[s]
  PROVE  /\ Rank[run'.pc] <= Rank[run.pc] => StepsLeft' <= StepsLeft
         /\ Rank[run'.pc] < Rank[run.pc] => StepsLeft' < StepsLeft
         /\ (\E s \in Stages : LeftOf(run')[s] < LeftOf(run)[s]) => StepsLeft' < StepsLeft
<1> DEFINE n == Cardinality(Turns)
           m == Cardinality(Turns)'
<1>1. /\ n \in Nat /\ m \in Nat /\ m <= n
      /\ (\E s \in Stages : LeftOf(run')[s] < LeftOf(run)[s]) => m < n
  <2>1. m = Cardinality(Below(LeftOf(run'))) /\ n = Cardinality(Below(LeftOf(run)))
    BY TurnsOfRun
  <2>2. LeftOf(run) \in [Stages -> 0..(MaxRetries + 3)] /\ LeftOf(run') \in [Stages -> 0..(MaxRetries + 3)]
    BY LeftOfType
  <2> HIDE DEF n, m
  <2> QED BY <2>1, <2>2, FewerTurns
<1>2. Rank[run.pc] \in 0..10 /\ Rank[run'.pc] \in 0..10
  BY RankType DEF RunType
<1>3. StepsLeft = 11 * n + Rank[run.pc] /\ StepsLeft' = 11 * m + Rank[run'.pc]
  BY DEF StepsLeft, Rank
<1> HIDE DEF n, m
<1> QED BY <1>1, <1>2, <1>3

\* Every step of a run leaves it fewer
LEMMA RunStepCounts ==
  ASSUME IInv, IInv', RunStep
  PROVE  StepsLeft' < StepsLeft
<1> DEFINE Fewer == StepsLeft' < StepsLeft
<1> SUFFICES Fewer
  OBVIOUS
<1>1. run \in RunType /\ run' \in RunType /\ RunOK
  BY DEF IInv, Types
<1>2. /\ run.attempt \in [Stages -> 0..(MaxRetries + 1)] /\ run.remaining \subseteq Stages
      /\ run.queue \subseteq Stages /\ MaxRetries \in Nat
  BY <1>1, PipelineAssumption DEF RunType
<1>3. ASSUME run'.remaining = run.remaining, run'.queue = run.queue, run'.attempt = run.attempt,
             run'.pc # "validating", Rank[run'.pc] < Rank[run.pc]
      PROVE  Fewer
  <2>1. \A s \in Stages : LeftOf(run')[s] <= LeftOf(run)[s]
    BY <1>2, <1>3 DEF LeftOf
  <2> QED BY <1>1, <1>3, <2>1, StepsOfTurns
<1>4. ASSUME NEW pc \in PCs \ {"validating"}, Goto(pc), Rank[pc] < Rank[run.pc]
      PROVE  Fewer
  <2>1. /\ run'.pc = pc /\ run'.remaining = run.remaining /\ run'.queue = run.queue
        /\ run'.attempt = run.attempt
    BY <1>1, <1>4 DEF Goto, RunType
  <2> QED BY <1>3, <1>4, <2>1
<1>5. ASSUME run' = NoRun, run.pc # "idle" PROVE Fewer
  <2>1. \A s \in Stages : LeftOf(NoRun)[s] <= LeftOf(run)[s]
    BY <1>1, <1>2, NoRunType, LeftOfType DEF LeftOf, NoRun
  <2>2. Rank[NoRun.pc] < Rank[run.pc]
    BY <1>1, <1>5 DEF Rank, RunType, PCs, NoRun
  <2> QED BY <1>1, <1>5, <2>1, <2>2, StepsOfTurns
\* Only stage s changes
<1>6. ASSUME NEW s \in Stages, run'.remaining = run.remaining, run.pc # "validating", run'.pc # "validating",
             \A t \in Stages \ {s} : /\ t \in run'.queue <=> t \in run.queue
                                     /\ run'.attempt[t] = run.attempt[t],
             LeftOf(run')[s] < LeftOf(run)[s]
      PROVE  Fewer
  <2>1. \A t \in Stages : LeftOf(run')[t] <= LeftOf(run)[t]
    <3>1. LeftOf(run)[s] \in Nat /\ LeftOf(run')[s] \in Nat
      BY <1>1, <1>2, LeftOfType
    <3>2. \A t \in Stages \ {s} : LeftOf(run')[t] = LeftOf(run)[t]
      BY <1>6 DEF LeftOf
    <3>3. \A t \in Stages : LeftOf(run)[t] \in Nat
      BY <1>1, <1>2, LeftOfType
    <3> QED BY <1>2, <1>6, <3>1, <3>2, <3>3
  <2> QED BY <1>1, <1>6, <2>1, StepsOfTurns
<1>7. ASSUME NEW s \in run.queue, run.pc \in {"sequential", "gate"},
             run' = [run EXCEPT !.pc = "stage", !.attempt[s] = 1]
      PROVE  Fewer
  <2>1. /\ run'.pc = "stage" /\ run'.remaining = run.remaining /\ run'.queue = run.queue
        /\ run'.attempt = [run.attempt EXCEPT ![s] = 1]
    BY <1>1, <1>7 DEF RunType
  <2>2. run.attempt = [t \in Stages |-> 0]
    BY <1>2, <1>1, <1>7 DEF RunOK, Busy, Working
  <2>3. \A t \in Stages : LeftOf(run')[t] <= LeftOf(run)[t]
    BY <1>2, <1>7, <2>1, <2>2 DEF LeftOf
  <2>4. Rank[run'.pc] < Rank[run.pc]
    BY <1>7, <2>1 DEF Rank
  <2> QED BY <1>1, <2>3, <2>4, StepsOfTurns
<1>8. ASSUME NEW s \in run.queue, run.pc \in {"sequential", "gate"},
             run'.pc = "sequential", run'.queue = run.queue \ {s},
             run'.remaining = run.remaining, run'.attempt = run.attempt
      PROVE  Fewer
  <2>1. run.attempt[s] = 0 /\ s \notin run.remaining
    BY <1>1, <1>2, <1>8 DEF RunOK, Busy, Working, Accounting, Looping
  <2>2. LeftOf(run')[s] < LeftOf(run)[s]
    BY <1>2, <1>8, <2>1 DEF LeftOf
  <2> QED BY <1>2, <1>6, <1>8, <2>2
\* An agent's attempt ends
<1>9. ASSUME NEW s \in Working, NEW a \in {0, run.attempt[s] + 1}, NEW pc,
             a # 0 => run.attempt[s] <= MaxRetries,
             run'.pc = pc, pc # "validating", run'.remaining = run.remaining,
             \A t \in Stages \ {s} : t \in run'.queue <=> t \in run.queue,
             a = 0 => s \notin run'.queue,
             run'.attempt = [run.attempt EXCEPT ![s] = a]
      PROVE  Fewer
  <2>1. s \in Stages /\ run.attempt[s] \in 1..(MaxRetries + 1)
    BY <1>2, <1>9 DEF Working
  <2>2. s \notin run.remaining /\ run.pc # "validating"
    BY <1>1, <1>9 DEF RunOK, Busy, Accounting, Looping
  <2>3. run'.attempt[s] = a
    BY <1>2, <1>9, <2>1
  <2>4. LeftOf(run')[s] < LeftOf(run)[s]
    BY <1>2, <1>9, <2>1, <2>2, <2>3 DEF LeftOf
  <2>5. \A t \in Stages \ {s} : run'.attempt[t] = run.attempt[t]
    BY <1>2, <1>9
  <2> QED BY <1>6, <1>9, <2>1, <2>2, <2>4, <2>5
<1>10. CASE Validate
  <2>1. /\ run.pc = "validating" /\ run'.pc = "scheduling" /\ run'.queue = run.queue
        /\ run'.attempt = run.attempt /\ run.queue = {} /\ Working = {}
    BY <1>1, <1>10 DEF Validate, RunType, RunOK, Accounting, Looping, Busy
  <2>2. \A s \in Stages : LeftOf(run')[s] <= LeftOf(run)[s]
    BY <1>2, <2>1 DEF LeftOf, Working
  <2>3. Rank[run'.pc] < Rank[run.pc]
    BY <2>1 DEF Rank
  <2> QED BY <1>1, <2>2, <2>3, StepsOfTurns
<1>11. CASE Schedule
  <2> DEFINE blocked == {s \in run.remaining : Blocked[s]}
             ready == {s \in run.remaining \ blocked : Ready(s)}
             parallel == ready \cap pipeline.parallel
             group == IF Cardinality(parallel) > 1 THEN parallel ELSE {}
  <2>1. /\ run.pc = "scheduling" /\ run.queue = {} /\ Working = {}
        /\ run.attempt = [s \in Stages |-> 0]
    BY <1>1, <1>2, <1>11 DEF Schedule, RunOK, Accounting, Busy, Working
  <2>2. CASE run' = [run EXCEPT !.pc = "finishing", !.remaining = {},
                                !.results = With(@, run.remaining, "skipped")]
    <3>1. run'.pc = "finishing" /\ run'.remaining = {} /\ run'.queue = {} /\ run'.attempt = run.attempt
      BY <1>1, <2>1, <2>2 DEF RunType
    <3>2. \A s \in Stages : LeftOf(run')[s] <= LeftOf(run)[s]
      BY <1>2, <2>1, <3>1 DEF LeftOf
    <3>3. Rank[run'.pc] < Rank[run.pc]
      BY <2>1, <3>1 DEF Rank
    <3> QED BY <1>1, <3>2, <3>3, StepsOfTurns
  <2>3. CASE ~(run' = [run EXCEPT !.pc = "finishing", !.remaining = {},
                                  !.results = With(@, run.remaining, "skipped")])
    <3>1. /\ ready # {}
          /\ run' = [run EXCEPT
                   !.pc = IF group # {} THEN "group" ELSE "sequential",
                   !.results = With(@, blocked, "skipped"),
                   !.remaining = (@ \ blocked) \ ready,
                   !.queue = ready \ group,
                   !.attempt = [d \in Stages |-> IF d \in group THEN 1 ELSE 0]]
      BY <1>11, <2>3 DEF Schedule, SkipRest
    <3>2. ready \subseteq run.remaining /\ group \subseteq ready
      OBVIOUS
    <3> HIDE DEF blocked, ready, parallel, group
    <3>3. /\ run'.pc \in {"group", "sequential"} /\ run'.queue = ready \ group
          /\ run'.remaining = (run.remaining \ blocked) \ ready
          /\ run'.attempt = [d \in Stages |-> IF d \in group THEN 1 ELSE 0]
      BY <1>1, <3>1 DEF RunType
    <3>4. PICK s \in Stages : s \in ready
      BY <1>2, <3>1, <3>2
    <3>5. /\ \A t \in Stages : LeftOf(run')[t] <= LeftOf(run)[t]
          /\ LeftOf(run')[s] < LeftOf(run)[s]
      BY <1>2, <2>1, <3>2, <3>3, <3>4 DEF LeftOf
    <3> QED BY <1>1, <3>5, StepsOfTurns
  <2> QED BY <2>2, <2>3
<1>12. CASE NextStage
  <2>1. run.pc = "sequential"
    BY <1>12 DEF NextStage
  <2>2. CASE Goto("scheduling") \/ Goto("gate")
    BY <1>4, <2>1, <2>2 DEF Rank, PCs
  <2>3. ASSUME NEW s \in run.queue, run' = [run EXCEPT !.queue = @ \ {s}, !.results[s] = "skipped"]
        PROVE  Fewer
    <3>1. /\ run'.pc = "sequential" /\ run'.queue = run.queue \ {s}
          /\ run'.remaining = run.remaining /\ run'.attempt = run.attempt
      BY <1>1, <2>1, <2>3 DEF RunType
    <3> QED BY <1>8, <2>1, <3>1
  <2>4. ASSUME NEW s \in run.queue, run' = [run EXCEPT !.pc = "stage", !.attempt[s] = 1]
        PROVE  Fewer
    BY <1>7, <2>1, <2>4
  <2> HIDE DEF Fewer
  <2> QED BY <1>12, <2>2, <2>3, <2>4 DEF NextStage
<1>13. ASSUME NEW s \in Stages, Approve(s) PROVE Fewer
  <2>1. /\ run.pc = "gate" /\ s \in run.queue
        /\ run' = [run EXCEPT !.pc = "stage", !.attempt[s] = 1]
    BY <1>13 DEF Approve, IsNext
  <2> QED BY <1>7, <2>1
<1>14. ASSUME NEW s \in Stages, Deny(s) PROVE Fewer
  <2>1. /\ run.pc = "gate" /\ s \in run.queue
        /\ run'.pc = "sequential" /\ run'.queue = run.queue \ {s}
        /\ run'.remaining = run.remaining /\ run'.attempt = run.attempt
    BY <1>1, <1>14 DEF Deny, IsNext, RunType
  <2> QED BY <1>8, <2>1
<1>15. ASSUME NEW s \in Stages, AgentSucceeds(s) \/ StageFails(s) PROVE Fewer
  <2>1. /\ s \in Working /\ run'.queue = run.queue \ {s} /\ run'.remaining = run.remaining
        /\ run'.attempt = [run.attempt EXCEPT ![s] = 0]
        /\ run'.pc = IF run.pc = "group" THEN "group" ELSE "saving"
    BY <1>1, <1>15 DEF AgentSucceeds, StageFails, RunType
  <2> QED BY <1>9, <2>1
<1>16. ASSUME NEW s \in Stages, AttemptFails(s) PROVE Fewer
  <2> DEFINE a == run.attempt[s] + 1
  <2>1. /\ s \in Working /\ run.attempt[s] <= MaxRetries /\ run' = [run EXCEPT !.attempt[s] = a]
        /\ a \in {0, run.attempt[s] + 1}
    BY <1>16 DEF AttemptFails
  <2>2. run.pc # "validating"
    BY <1>1, <2>1 DEF RunOK, Busy
  <2> HIDE DEF a
  <2>3. /\ run'.queue = run.queue /\ run'.remaining = run.remaining /\ run'.pc = run.pc
        /\ run'.attempt = [run.attempt EXCEPT ![s] = a]
    BY <1>1, <2>1 DEF RunType
  <2>4. a # 0
    BY <1>2, <1>16 DEF a
  <2> QED BY <1>9, <2>1, <2>2, <2>3, <2>4
<1>17. CASE GroupSettled
  <2>1. /\ run.pc = "group" /\ run'.pc = "saving" /\ run'.queue = run.queue
        /\ run'.remaining = run.remaining /\ run'.attempt = run.attempt
    BY <1>1, <1>17 DEF GroupSettled, RunType
  <2> QED BY <1>3, <2>1 DEF Rank
<1>18. CASE SaveCheckpoint
  BY <1>4, <1>18 DEF SaveCheckpoint, Rank, PCs
<1>19. CASE Finish
  BY <1>4, <1>19 DEF Finish, Rank, PCs
<1>20. CASE Persist
  BY <1>4, <1>5, <1>20 DEF Persist, Throw, Rank, PCs
<1>21. CASE GateThrows \/ Clean
  BY <1>5, <1>21 DEF GateThrows, Throw, Clean
<1> HIDE DEF Fewer
<1> QED
  BY <1>10, <1>11, <1>12, <1>13, <1>14, <1>15, <1>16, <1>17, <1>18, <1>19, <1>20, <1>21 DEF RunStep

\* The loops of a run are bounded, for every pipeline and every number of retries: each step
\* of a run leaves it fewer to take.  With the fairness of Spec this is why every run ends.
THEOREM RunsAreBounded == Spec => EveryStepCounts
<1>1. ASSUME IInv, IInv', Next
      PROVE  /\ RunStep => StepsLeft' < StepsLeft
             /\ run.pc # "idle" => StepsLeft' <= StepsLeft
  <2>1. run \in RunType /\ run' \in RunType
    BY <1>1 DEF IInv, Types
  <2>2. RunStep => StepsLeft' < StepsLeft
    BY <1>1, RunStepCounts
  <2>3. StepsLeft' < StepsLeft => StepsLeft' <= StepsLeft
    <3>1. \A s \in Stages : LeftOf(run)[s] <= LeftOf(run)[s] /\ LeftOf(run')[s] <= LeftOf(run')[s]
      BY <2>1, LeftOfType
    <3>2. LeftOf(run) \in [Stages -> 0..(MaxRetries + 3)] /\ LeftOf(run') \in [Stages -> 0..(MaxRetries + 3)]
      BY <2>1, LeftOfType
    <3>3. Cardinality(Turns) \in Nat /\ Cardinality(Turns)' \in Nat
      BY <3>1, <3>2, TurnsOfRun, FewerTurns
    <3>4. Rank[run.pc] \in Nat /\ Rank[run'.pc] \in Nat
      BY <2>1, RankType DEF RunType
    <3> QED BY <3>3, <3>4 DEF StepsLeft, Rank
  <2>4. CASE Dispose
    <3>1. /\ run'.pc = run.pc /\ run'.remaining = run.remaining /\ run'.queue = run.queue
          /\ run'.attempt = run.attempt
      BY <2>1, <2>4 DEF Dispose, RunType
    <3>2. LeftOf(run') = LeftOf(run)
      BY <3>1 DEF LeftOf
    <3> QED BY <2>1, <2>2, <3>1, <3>2, StepsOfTurns, LeftOfType, RankType DEF RunType
  <2>5. CASE Crash
    <3>1. run' = NoRun
      BY <2>5 DEF Crash
    <3>2. \A s \in Stages : LeftOf(run')[s] <= LeftOf(run)[s]
      <4>1. \A s \in Stages : LeftOf(run')[s] = 0
        BY <3>1 DEF LeftOf, NoRun
      <4> QED BY <2>1, <4>1, LeftOfType
    <3>3. Rank[run'.pc] <= Rank[run.pc]
      BY <2>1, <3>1, RankType DEF Rank, RunType, NoRun, PCs
    <3> QED BY <2>1, <2>2, <3>2, <3>3, StepsOfTurns
  <2>6. (StartSession \/ (\E i \in Sessions : ResumeSession(i)) \/ Execute) => run.pc = "idle"
    BY DEF StartSession, ResumeSession, Execute, MayStart
  <2> QED BY <1>1, <2>2, <2>3, <2>4, <2>5, <2>6 DEF Next
<1>2. IInv /\ IInv' /\ [Next]_vars =>
        [/\ RunStep => StepsLeft' < StepsLeft
         /\ run.pc # "idle" => StepsLeft' <= StepsLeft]_vars
  BY <1>1
<1> QED BY <1>2, Invariance, PTL DEF Spec, EveryStepCounts

\* A run takes at most some 11 steps for each stage and each of its attempts, and 10 more.
THEOREM RunLength == Spec => [](StepsLeft <= 11 * (StageCount * (MaxRetries + 3)) + 10)
<1>1. IInv => StepsLeft <= 11 * (StageCount * (MaxRetries + 3)) + 10
  <2> SUFFICES ASSUME IInv PROVE StepsLeft <= 11 * (StageCount * (MaxRetries + 3)) + 10
    OBVIOUS
  <2> DEFINE all == StageCount * (MaxRetries + 3)
             n == Cardinality(Turns)
  <2>1. /\ IsFiniteSet(Stages) /\ Cardinality(Stages) = StageCount
        /\ IsFiniteSet(1..(MaxRetries + 3)) /\ Cardinality(1..(MaxRetries + 3)) = MaxRetries + 3
    BY PipelineAssumption, FS_Interval DEF Stages
  <2>2. IsFiniteSet(Stages \X (1..(MaxRetries + 3))) /\ Cardinality(Stages \X (1..(MaxRetries + 3))) = all
    BY <2>1, FS_Product
  <2>3. Turns \in SUBSET (Stages \X (1..(MaxRetries + 3)))
    BY DEF Turns
  <2>4. n <= all /\ n \in Nat /\ all \in Nat
    BY <2>2, <2>3, FS_Subset, FS_CardinalityType
  <2>5. Rank[run.pc] \in 0..10
    BY RankType DEF IInv, Types, RunType
  <2>6. StepsLeft = 11 * n + Rank[run.pc]
    BY DEF StepsLeft
  <2> HIDE DEF n, all
  <2>7. StepsLeft <= 11 * all + 10
    BY <2>4, <2>5, <2>6
  <2> QED BY <2>7 DEF all
<1> QED BY <1>1, Invariance, PTL
=============================================================================
