----------------------------- MODULE StageGraph -----------------------------
(* What dependsOn promises: in each session a stage is done after its dependencies *)
CONSTANTS Stages, Sessions

VARIABLES dependsOn,   \* the dependencies of each stage
          done         \* for each session, the stages an agent has completed

Begin(i, trusted) ==
  /\ done[i] = {}
  /\ done' = [done EXCEPT ![i] = trusted]
  /\ UNCHANGED dependsOn

Complete(i, s) ==
  /\ dependsOn[s] \subseteq done[i]
  /\ done' = [done EXCEPT ![i] = @ \cup {s}]
  /\ UNCHANGED dependsOn

Init == done = [i \in Sessions |-> {}]

Next ==
  \E i \in Sessions :
    \/ \E trusted \in SUBSET Stages : Begin(i, trusted)
    \/ \E s \in Stages : Complete(i, s)

Spec == Init /\ [][Next]_<<dependsOn, done>>
=============================================================================
