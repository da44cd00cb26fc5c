------------------------- MODULE MCBoundedWorkQueue -------------------------
(* Small instances of BoundedWorkQueue for TLC. *)
EXTENDS BoundedWorkQueue, TLC

CONSTANTS t1, t2, t3, t4, c1, c2, k1

MCTasks == {t1, t2, t3, t4}
MCCallers == {c1, c2}
MCConsumers == {k1}

MCConfigs == {[rejectionPolicy |-> "reject", enableDeadLetter |-> TRUE],
              [rejectionPolicy |-> "drop-oldest", enableDeadLetter |-> FALSE],
              [rejectionPolicy |-> "drop-lowest-priority", enableDeadLetter |-> TRUE]}

Symmetry == Permutations(MCTasks) \cup Permutations(MCCallers)
=============================================================================
