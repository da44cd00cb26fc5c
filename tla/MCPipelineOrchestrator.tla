----------------------- MODULE MCPipelineOrchestrator -----------------------
(* Instances of PipelineOrchestrator for TLC *)
EXTENDS PipelineOrchestrator

\* As in the greenfield mode: parallel stages that require approval, and one behind both
Group ==
  [dependsOn |-> <<{}, {}, {1, 2}>>, parallel |-> {1, 2}, approvalRequired |-> {1, 2, 3}]

\* A chain, its last stage parallel but alone, as implementation is
Chain ==
  [dependsOn |-> <<{}, {1}, {2}>>, parallel |-> {3}, approvalRequired |-> {2}]

\* A group and a sequential stage that are ready together
Mixed ==
  [dependsOn |-> <<{}, {}, {}>>, parallel |-> {1, 2}, approvalRequired |-> {3}]

\* A parallel stage that comes before a sequential one, which another depends on
Alone ==
  [dependsOn |-> <<{}, {}, {1}>>, parallel |-> {2}, approvalRequired |-> {2, 3}]

Config(p, mode, on, runs) ==
  [pipeline |-> p, approvalMode |-> mode, checkpoints |-> on, runs |-> runs]

MCConfigs ==
  {Config(Group, "asked", TRUE, 2), Config(Chain, "asked", TRUE, 1),
   Config(Mixed, "critical", TRUE, 1), Config(Alone, "auto", FALSE, 2)}

MCPreCompleted == {{}, {1}}

GroupOnly == {Config(Group, "asked", TRUE, 2)}
=============================================================================
