--------------------------- MODULE MCStateManager ---------------------------
(* Instances of StateManager for TLC *)
EXTENDS StateManager, TLC

CONSTANTS c1, c2

\* Two updaters; an updater beside a process that recovers, overrides or restores; two processes
\* that move the state
MCRoles ==
  { c1 :> {"update", "set"} @@ c2 :> {"update"},
    c1 :> {"update"} @@ c2 :> {"skip", "unsavedSkip", "recover"},
    c1 :> {"update"} @@ c2 :> {"override", "restore"},
    c1 :> {"transition"} @@ c2 :> {"transition", "recover"} }
=============================================================================
